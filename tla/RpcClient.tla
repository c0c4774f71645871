------------------------------ MODULE RpcClient ------------------------------
(****************************************************************************)
(* A client process with several concurrent RpcChannel::CallMethod          *)
(* (src/rpc/rpc_channel.cpp) over the one cached Connection to the server   *)
(* (src/net/Connection.cpp, ConnectionByClient), the loop thread that owns  *)
(* the connection and the calls' timers, and the TCP peer.                  *)
(*                                                                          *)
(* A call stands for its request, its caller's thread, its message id and   *)
(* its controller, channel and TimeEvent, which CallMethod makes anew for   *)
(* each call.  getEventLoop picks the loop from the connection's fd for the *)
(* Connection and for the TimeEvent alike, so onTime, onMessage and         *)
(* sendMessage run on the one thread Loop.  Clocks are abstracted: a timer  *)
(* that has been added may be due at any time.                              *)
(*                                                                          *)
(* The server and the network (c2s, s2c, peer and the Server actions) are   *)
(* external: requests may be answered in any order, late or never, and the  *)
(* connection may end at any time.                                          *)
(****************************************************************************)
EXTENDS Channel, Sequences

CONSTANTS
    Calls,      \* calls of CallMethod, each on a thread of its own
    Loop,       \* the thread of the connection's EventLoop
    SndCap      \* bound: requests the socket's send buffer takes

ASSUME ThreadsAssumption == Threads = Calls \cup {Loop} /\ Loop \notin Calls
ASSUME SndCapAssumption == SndCap \in Nat \ {0}

VARIABLES
    (* per call *)
    cpc,            \* where CallMethod is
    timer,          \* its TimeEvent: "none", "pending" in the loop's Time, "gone"
    is_cancled_,    \* TimeEvent::is_cancled_
    error_code_,    \* of its RpcController
    is_cancle_,     \* of its RpcController
    runs,           \* how often its closure ran
    (* the Connection *)
    disConnect,
    write_dones_,   \* requests pushed and not yet taken by sendMessage
    read_dones_,    \* calls whose response callback is installed
    outputbuffer_,  \* encoded requests
    inputbuffer_,   \* responses read
    (* the loop thread *)
    lpc,            \* what it does once it is not inside a Channel method
    revents_,       \* the events epoll_wait reported for the connection
    (* external: TCP and the server *)
    c2s, s2c,       \* requests and responses under way
    peer,           \* "open", "fin" after its FIN, "rst" after its RST
    serving,        \* requests the server is working on
    executions,     \* how often the server took each request
    replied         \* how it answered

callVars == <<cpc, timer, is_cancled_, error_code_, is_cancle_, runs>>
connVars == <<disConnect, write_dones_, read_dones_, outputbuffer_, inputbuffer_>>
loopVars == <<lpc, revents_>>
netVars  == <<c2s, s2c, peer, serving, executions, replied>>
vars     == <<chanVars, callVars, connVars, loopVars, netVars>>

Kinds == {"ok", "error", "garbled"}

Errors == {"none", "connect", "init", "serialize", "timeout", "server", "deserialize"}

Response == Calls \X Kinds

CallTypeOK ==
    /\ cpc \in [Calls -> {"start", "push", "enable", "returned", "failed"}]
    /\ timer \in [Calls -> {"none", "pending", "gone"}]
    /\ is_cancled_ \in [Calls -> BOOLEAN]
    /\ error_code_ \in [Calls -> Errors]
    /\ is_cancle_ \in [Calls -> BOOLEAN]
    /\ runs \in [Calls -> Nat]

ConnTypeOK ==
    /\ disConnect \in BOOLEAN
    /\ write_dones_ \in Seq(Calls)
    /\ read_dones_ \in SUBSET Calls
    /\ outputbuffer_ \in Seq(Calls)
    /\ inputbuffer_ \in Seq(Response)

LoopTypeOK ==
    /\ lpc \in {"wait", "handle", "drain", "write", "parse", "close"}
    /\ revents_ \in SUBSET (Bits \cup {"HUP"})

NetTypeOK ==
    /\ c2s \in Seq(Calls) /\ Len(c2s) <= SndCap
    /\ s2c \in Seq(Response)
    /\ peer \in {"open", "fin", "rst"}
    /\ serving \in SUBSET Calls
    /\ executions \in [Calls -> Nat]
    /\ replied \in [Calls -> Kinds \cup {"none"}]

TypeOK == ChannelTypeOK /\ CallTypeOK /\ ConnTypeOK /\ LoopTypeOK /\ NetTypeOK

\* getConnection has connected and cached the connection; nobody has enabled
\* an event on it.
Init ==
    /\ ChannelInit
    /\ cpc = [c \in Calls |-> "start"]
    /\ timer = [c \in Calls |-> "none"]
    /\ is_cancled_ = [c \in Calls |-> FALSE]
    /\ error_code_ = [c \in Calls |-> "none"]
    /\ is_cancle_ = [c \in Calls |-> FALSE]
    /\ runs = [c \in Calls |-> 0]
    /\ disConnect = FALSE
    /\ write_dones_ = <<>>
    /\ read_dones_ = {}
    /\ outputbuffer_ = <<>>
    /\ inputbuffer_ = <<>>
    /\ lpc = "wait"
    /\ revents_ = {}
    /\ c2s = <<>> /\ s2c = <<>>
    /\ peer = "open"
    /\ serving = {}
    /\ executions = [c \in Calls |-> 0]
    /\ replied = [c \in Calls |-> "none"]

\* What poll() says of the socket: readable also at the end of the stream,
\* writable while the send buffer has room and after a reset.
Level ==
    (IF s2c # <<>> \/ peer # "open" THEN {"IN"} ELSE {})
    \cup (IF Len(c2s) < SndCap \/ peer = "rst" THEN {"OUT"} ELSE {})
    \cup (IF peer = "rst" THEN {"HUP"} ELSE {})

-----------------------------------------------------------------------------
(* RpcChannel::CallMethod *)

\* RpcController::SetError; is_failed_ and error_info_ go with the code.
SetError(c, e) == error_code_' = [error_code_ EXCEPT ![c] = e]

\* RpcController::StartCancel.
StartCancel(c) == is_cancle_' = [is_cancle_ EXCEPT ![c] = TRUE]

\* The call's thread is at this point of CallMethod, in a live process.
CallAt(c, pc) == cpc[c] = pc /\ dead = "no"

\* Early returns: not an RpcController (no error is set), no connection, channel
\* not initialised, request not serialisable.  The closure is not run.
CallFails(c) ==
    /\ CallAt(c, "start")
    /\ \/ UNCHANGED error_code_
       \/ \E e \in {"connect", "init", "serialize"} : SetError(c, e)
    /\ cpc' = [cpc EXCEPT ![c] = "failed"]
    /\ UNCHANGED <<timer, is_cancled_, is_cancle_, runs>>
    /\ UNCHANGED <<chanVars, connVars, loopVars, netVars>>

\* getConnection returns the cached connection; the timer goes to its loop.
CallAddTimer(c) ==
    /\ CallAt(c, "start")
    /\ timer' = [timer EXCEPT ![c] = "pending"]
    /\ cpc' = [cpc EXCEPT ![c] = "push"]
    /\ UNCHANGED <<is_cancled_, error_code_, is_cancle_, runs>>
    /\ UNCHANGED <<chanVars, connVars, loopVars, netVars>>

\* pushSendMessage, under write_dones_mtx_, which sendMessage holds while it
\* drains.
CallPush(c) ==
    /\ CallAt(c, "push")
    /\ lpc # "drain"
    /\ write_dones_' = Append(write_dones_, c)
    /\ cpc' = [cpc EXCEPT ![c] = "enable"]
    /\ UNCHANGED <<timer, is_cancled_, error_code_, is_cancle_, runs>>
    /\ UNCHANGED <<disConnect, read_dones_, outputbuffer_, inputbuffer_>>
    /\ UNCHANGED <<chanVars, loopVars, netVars>>

\* enableWriting on the caller's thread, whose steps are ChannelStep(c).
CallEnableWriting(c) ==
    /\ CallAt(c, "enable")
    /\ EnableWriting(c)
    /\ cpc' = [cpc EXCEPT ![c] = "returned"]
    /\ UNCHANGED <<timer, is_cancled_, error_code_, is_cancle_, runs>>
    /\ UNCHANGED <<connVars, loopVars, netVars>>

-----------------------------------------------------------------------------
(* The loop thread.  It acts when it is not inside a Channel method. *)

LoopAt(pc) == lpc = pc /\ Idle(Loop) /\ dead = "no"

\* epoll_wait takes the entry off the ready list (edge-triggered) and reports
\* what is true of the events watched.
EpollWait ==
    LET now == Level \cap (mask \cup {"HUP"})
    IN /\ LoopAt("wait")
       /\ ready
       /\ ready' = FALSE
       /\ revents_' = now
       /\ lpc' = IF now = {} THEN "wait" ELSE "handle"
       /\ UNCHANGED <<events_, inepoll_, registered, mask, call, dead>>
       /\ UNCHANGED <<callVars, connVars, netVars>>

\* Channel::handleEvent, with the place where the callback goes on.
HandleEvent(callback, next) ==
    /\ LoopAt("handle")
    /\ Callback(revents_) = callback
    /\ revents_' = {}
    /\ lpc' = next

\* onMessage reads until the stream is dry, and then parses what it has.
OnMessage ==
    /\ HandleEvent("read", "parse")
    /\ peer = "open"
    /\ inputbuffer_' = inputbuffer_ \o s2c
    /\ s2c' = <<>>
    /\ UNCHANGED <<disConnect, write_dones_, read_dones_, outputbuffer_>>
    /\ UNCHANGED <<chanVars, callVars, c2s, peer, serving, executions, replied>>

\* At the end of the stream it closes, whatever it has read before that.
OnMessageEof ==
    /\ HandleEvent("read", "close")
    /\ peer # "open"
    /\ inputbuffer_' = inputbuffer_ \o s2c
    /\ s2c' = <<>>
    /\ disConnect' = TRUE
    /\ UNCHANGED <<write_dones_, read_dones_, outputbuffer_>>
    /\ UNCHANGED <<chanVars, callVars, c2s, peer, serving, executions, replied>>

\* sendMessage returns at once on a closed connection.
SendMessage ==
    /\ HandleEvent("write", IF disConnect THEN "wait" ELSE "drain")
    /\ UNCHANGED <<chanVars, callVars, connVars, netVars>>

\* errorCallback.
ErrorCallback ==
    /\ HandleEvent("error", "close")
    /\ disConnect' = TRUE
    /\ UNCHANGED <<write_dones_, read_dones_, outputbuffer_, inputbuffer_>>
    /\ UNCHANGED <<chanVars, callVars, netVars>>

\* closeCallback and errorCallback: remove the channel from epoll.  The
\* client sets no close callback, so the connection stays cached.
Close ==
    /\ LoopAt("close")
    /\ RemoveChannel(Loop)
    /\ lpc' = "wait"
    /\ UNCHANGED <<callVars, connVars, revents_, netVars>>

\* Mutant: the request is sent without its read callback.
ReadDonesWithout(c) == read_dones_

\* pushReadMessage.
ReadDonesWith(c) == read_dones_ \cup {c}

\* sendMessage, one turn of the drain under write_dones_mtx_: the write
\* callback installs the read callback and calls enableReading.
DrainOne ==
    /\ LoopAt("drain")
    /\ write_dones_ # <<>>
    /\ read_dones_' = ReadDonesWith(Head(write_dones_))
    /\ outputbuffer_' = Append(outputbuffer_, Head(write_dones_))
    /\ write_dones_' = Tail(write_dones_)
    /\ EnableReading(Loop)
    /\ UNCHANGED <<disConnect, inputbuffer_>>
    /\ UNCHANGED <<callVars, loopVars, netVars>>

DrainDone ==
    /\ LoopAt("drain")
    /\ write_dones_ = <<>>
    /\ lpc' = "write"
    /\ UNCHANGED <<chanVars, callVars, connVars, revents_, netVars>>

\* How much of the buffer the socket takes before EAGAIN.
Writable ==
    LET room == SndCap - Len(c2s)
    IN IF Len(outputbuffer_) <= room THEN Len(outputbuffer_) ELSE room

\* Mutant: what was written is not retrieved from the buffer.
UnwrittenAll(n) == outputbuffer_

\* Buffer::writeFd retrieves what it wrote.
Unwritten(n) == SubSeq(outputbuffer_, n + 1, Len(outputbuffer_))

\* The write loop: until the buffer is empty, which turns the interest in
\* writing off, or the socket is full.
Write ==
    /\ LoopAt("write")
    /\ peer # "rst" \/ outputbuffer_ = <<>>
    /\ c2s' = c2s \o SubSeq(outputbuffer_, 1, Writable)
    /\ outputbuffer_' = Unwritten(Writable)
    /\ IF Writable = Len(outputbuffer_) THEN DisableWriting(Loop) ELSE UNCHANGED chanVars
    /\ lpc' = "wait"
    /\ UNCHANGED <<disConnect, write_dones_, read_dones_, inputbuffer_>>
    /\ UNCHANGED <<callVars, revents_, s2c, peer, serving, executions, replied>>

\* A write after the peer's RST raises SIGPIPE, which nobody handles.
WriteReset ==
    /\ LoopAt("write")
    /\ peer = "rst" /\ outputbuffer_ # <<>>
    /\ dead' = "sigpipe"
    /\ UNCHANGED <<events_, inepoll_, registered, mask, ready, call>>
    /\ UNCHANGED <<callVars, connVars, loopVars, netVars>>

\* Mutant: a response callback that does not look at IsCanceled.
RunsClosureAnyway(c, kind) == kind # "garbled"

RunsClosure(c, kind) == kind # "garbled" /\ ~is_cancle_[c]

\* Mutant: the error of a response is not passed on.
ErrorOfSilent(c, kind) ==
    IF kind = "garbled" THEN "deserialize" ELSE error_code_[c]

\* Mutant: the controller gets the response's code even if it is 0.
ErrorOfAlways(c, kind) ==
    CASE kind = "garbled" -> "deserialize"
      [] kind = "error"   -> "server"
      [] kind = "ok"      -> "none"

\* The controller's error code after a response.
ErrorOf(c, kind) ==
    CASE kind = "garbled" -> "deserialize"
      [] kind = "error"   -> "server"
      [] kind = "ok"      -> error_code_[c]

\* The response callback of CallMethod: it cancels the timer, reports an error
\* if the payload does not parse (and then runs no closure) or if the response
\* carries one, and runs the closure of a call that is not cancelled.
ResponseCallback(c, kind) ==
    /\ is_cancled_' = [is_cancled_ EXCEPT ![c] = TRUE]
    /\ SetError(c, ErrorOf(c, kind))
    /\ runs' = [runs EXCEPT ![c] = IF RunsClosure(c, kind) THEN @ + 1 ELSE @]

\* parseMsg, one response: find the read callback of its message id, run it
\* and erase it.
ParseOne ==
    LET c    == Head(inputbuffer_)[1]
        kind == Head(inputbuffer_)[2]
    IN /\ LoopAt("parse")
       /\ inputbuffer_ # <<>>
       /\ inputbuffer_' = Tail(inputbuffer_)
       /\ IF c \in read_dones_
          THEN /\ read_dones_' = read_dones_ \ {c}
               /\ ResponseCallback(c, kind)
          ELSE UNCHANGED <<read_dones_, is_cancled_, error_code_, runs>>
       /\ UNCHANGED <<cpc, timer, is_cancle_>>
       /\ UNCHANGED <<disConnect, write_dones_, outputbuffer_>>
       /\ UNCHANGED <<chanVars, loopVars, netVars>>

ParseDone ==
    /\ LoopAt("parse")
    /\ inputbuffer_ = <<>>
    /\ lpc' = "wait"
    /\ UNCHANGED <<chanVars, callVars, connVars, revents_, netVars>>

\* Mutant: only a request that has been sent times out.
FiresIfSent(c) == ~is_cancled_[c] /\ c \in read_dones_

\* onTime runs the callbacks of events that were not cancelled.
Fires(c) == ~is_cancled_[c]

\* The timeout callback of CallMethod: StartCancel, SetError, closure.
TimeoutCallback(c) ==
    /\ StartCancel(c)
    /\ SetError(c, "timeout")
    /\ runs' = [runs EXCEPT ![c] = @ + 1]

\* Time::onTime on the loop thread, for one event that is due: it leaves
\* pending_events_, and its callback runs unless it was cancelled.  It may
\* come between epoll_wait's report on the connection and its handling.
OnTime(c) ==
    /\ LoopAt("wait") \/ LoopAt("handle")
    /\ timer[c] = "pending"
    /\ timer' = [timer EXCEPT ![c] = "gone"]
    /\ IF Fires(c)
       THEN TimeoutCallback(c)
       ELSE UNCHANGED <<is_cancle_, error_code_, runs>>
    /\ UNCHANGED <<cpc, is_cancled_>>
    /\ UNCHANGED <<chanVars, connVars, loopVars, netVars>>

-----------------------------------------------------------------------------
(* External: the server's end of the connection, of interest while the
   client process lives *)

\* The server takes a request; room in a full send buffer is an event.
ServerTake ==
    /\ dead = "no"
    /\ c2s # <<>> /\ peer # "rst"
    /\ c2s' = Tail(c2s)
    /\ serving' = serving \cup {Head(c2s)}
    /\ executions' = [executions EXCEPT ![Head(c2s)] = @ + 1]
    /\ Raise(IF Len(c2s) = SndCap THEN {"OUT"} ELSE {})
    /\ UNCHANGED <<events_, inepoll_, registered, mask, call, dead>>
    /\ UNCHANGED <<callVars, connVars, loopVars, s2c, peer, replied>>

ServerReply(c, kind) ==
    /\ dead = "no"
    /\ c \in serving /\ peer = "open"
    /\ serving' = serving \ {c}
    /\ replied' = [replied EXCEPT ![c] = kind]
    /\ s2c' = Append(s2c, <<c, kind>>)
    /\ Raise({"IN"})
    /\ UNCHANGED <<events_, inepoll_, registered, mask, call, dead>>
    /\ UNCHANGED <<callVars, connVars, loopVars, c2s, peer, executions>>

\* The server shuts its side down, or its end of the connection is gone.
PeerFin ==
    /\ dead = "no"
    /\ peer = "open"
    /\ peer' = "fin"
    /\ Raise({"IN"})
    /\ UNCHANGED <<events_, inepoll_, registered, mask, call, dead>>
    /\ UNCHANGED <<callVars, connVars, loopVars, c2s, s2c, serving, executions, replied>>

PeerReset ==
    /\ dead = "no"
    /\ peer # "rst"
    /\ peer' = "rst"
    /\ c2s' = <<>>
    /\ Raise({"IN", "OUT", "HUP"})
    /\ UNCHANGED <<events_, inepoll_, registered, mask, call, dead>>
    /\ UNCHANGED <<callVars, connVars, loopVars, s2c, serving, executions, replied>>

-----------------------------------------------------------------------------
\* The steps a thread takes inside a Channel method.
InChannel(t) ==
    /\ dead = "no"
    /\ ChannelStep(t, Level)
    /\ UNCHANGED <<callVars, connVars, loopVars, netVars>>

CallerStep(c) ==
    CallFails(c) \/ CallAddTimer(c) \/ CallPush(c) \/ CallEnableWriting(c)

ServeStep ==
    \/ EpollWait \/ OnMessage \/ OnMessageEof \/ SendMessage \/ ErrorCallback
    \/ Close \/ DrainOne \/ DrainDone
    \/ Write \/ WriteReset \/ ParseOne \/ ParseDone

NetworkStep ==
    \/ ServerTake
    \/ \E c \in Calls, kind \in Kinds : ServerReply(c, kind)
    \/ PeerFin \/ PeerReset

\* The process has ended, or no call is under way and the loop waits.
Quiescent ==
    /\ \/ dead # "no"
       \/ /\ \A t \in Threads : Idle(t)
          /\ \A c \in Calls : cpc[c] \in {"returned", "failed"} /\ timer[c] # "pending"
          /\ lpc = "wait"
    /\ UNCHANGED vars

Next ==
    \/ \E t \in Threads : InChannel(t)
    \/ \E c \in Calls : CallerStep(c) \/ OnTime(c)
    \/ ServeStep
    \/ NetworkStep
    \/ Quiescent

\* The operating system runs every thread that can run; a timer that was
\* added comes due and onTime gets its turn between the socket events, of
\* which there are finitely many.  Callers need not call, and nothing is
\* promised of the server or the network.
Fairness ==
    /\ \A t \in Threads : WF_vars(InChannel(t))
    /\ \A c \in Calls : WF_vars(CallPush(c) \/ CallEnableWriting(c))
    /\ \A c \in Calls : WF_vars(OnTime(c))
    /\ WF_vars(ServeStep)

Spec == Init /\ [][Next]_vars

FairSpec == Spec /\ Fairness

-----------------------------------------------------------------------------
(* Properties *)

\* The user's closure never runs twice, whether the response or the timeout
\* comes first and however they race (CallMethod's two callbacks).
ClosureAtMostOnce == \A c \in Calls : runs[c] <= 1

Range(s) == {s[i] : i \in 1..Len(s)}

\* A call's request is in one place at a time: not pushed yet, once in
\* write_dones_, or handed on to read_dones_.
OnePlace ==
    /\ \A c \in Calls : cpc[c] \in {"start", "push", "failed"} =>
        c \notin Range(write_dones_) /\ c \notin read_dones_
    /\ \A i, j \in 1..Len(write_dones_) : write_dones_[i] = write_dones_[j] => i = j
    /\ \A i \in 1..Len(write_dones_) : write_dones_[i] \notin read_dones_

\* As long as the request is in one of these places, or the call's timer can
\* still fire, the closure has not run, unless the call was cancelled, which
\* the response callback looks at.
NotRunYet ==
    /\ \A c \in Calls : cpc[c] = "start" => runs[c] = 0 /\ timer[c] = "none"
    /\ \A c \in Calls : timer[c] = "pending" /\ ~is_cancled_[c] => runs[c] = 0
    /\ \A c \in Calls :
        (cpc[c] = "push" \/ c \in Range(write_dones_) \/ c \in read_dones_)
            /\ ~is_cancle_[c] => runs[c] = 0

ClosureInv == OnePlace /\ NotRunYet /\ ClosureAtMostOnce

\* A closure that sees error code 0 belongs to a call the server answered
\* with success.
SuccessIsServed ==
    \A c \in Calls : runs[c] > 0 /\ error_code_[c] = "none" => replied[c] = "ok"

\* Calls whose request, or its response, is between sendMessage and parseMsg.
InFlight ==
    Range(outputbuffer_) \cup Range(c2s) \cup serving
        \cup {r[1] : r \in Range(s2c) \cup Range(inputbuffer_)}

\* A response always finds its callback: sendMessage installs it before the
\* first byte of the request can leave, and only the response removes it.
ResponseExpected == InFlight \subseteq read_dones_

\* The server gets a request at most once, and never that of a call that
\* returned with an error before it was pushed.
ExecutedAtMostOnce ==
    \A c \in Calls : executions[c] <= IF cpc[c] \in {"enable", "returned"} THEN 1 ELSE 0

\* Once the closure has run, a success stays a success and a failure a
\* failure: neither a late timer nor a late response turns one into the other.
OutcomeFinal ==
    [][\A c \in Calls : runs[c] > 0 =>
        (error_code_[c] = "none" <=> error_code_'[c] = "none")]_vars

\* Every call that got as far as its timer reports back: its closure runs, if
\* only for the timeout.  The exceptions are the code's own: a response that
\* does not parse runs no closure, and the process may have ended.
CallReports ==
    \A c \in Calls :
        timer[c] = "pending" ~>
            (runs[c] = 1 \/ error_code_[c] = "deserialize" \/ dead # "no")

\* What the assertions of Epoll.cpp:19, 23 and 45 state: epoll_ctl never fails.
EpollCtlSucceeds == dead # "assert"

-----------------------------------------------------------------------------
(* What the source says and the model refutes *)

\* What Connection.cpp:248 states where sendMessage turns the interest in
\* writing off, "the data has been transferred": a request in write_dones_ is
\* taken as long as the connection lives.
PushedIsSent ==
    \A c \in Calls :
        c \in Range(write_dones_) ~>
            (c \notin Range(write_dones_) \/ peer # "open" \/ dead # "no")
=============================================================================
