-------------------------- MODULE RpcClientProofs --------------------------
(****************************************************************************)
(* Theorems about RpcClient, for any number of concurrent calls and any     *)
(* size of the socket's send buffer.                                        *)
(****************************************************************************)
EXTENDS RpcClient, TLAPS

-----------------------------------------------------------------------------
(* Facts about sequences *)

\* The elements of a sequence after Append.
LEMMA AppendElements ==
    ASSUME NEW S, NEW s \in Seq(S), NEW x \in S
    PROVE  /\ Append(s, x) \in Seq(S)
           /\ Len(Append(s, x)) = Len(s) + 1
           /\ Append(s, x)[Len(s) + 1] = x
           /\ \A i \in 1..Len(s) : Append(s, x)[i] = s[i]
           /\ Range(Append(s, x)) = Range(s) \cup {x}
<1>1. /\ Append(s, x) \in Seq(S)
      /\ Len(Append(s, x)) = Len(s) + 1
      /\ Append(s, x)[Len(s) + 1] = x
      /\ \A i \in 1..Len(s) : Append(s, x)[i] = s[i]
  OBVIOUS
<1>2. Range(Append(s, x)) = Range(s) \cup {x}
  <2>1. 1..Len(Append(s, x)) = 1..Len(s) \cup {Len(s) + 1}
    BY <1>1
  <2> QED BY <1>1, <2>1 DEF Range
<1> QED BY <1>1, <1>2

\* The elements of a sequence after Tail.
LEMMA TailElements ==
    ASSUME NEW S, NEW s \in Seq(S), s # <<>>
    PROVE  /\ Head(s) \in S /\ Head(s) = s[1] /\ 1 \in 1..Len(s)
           /\ Tail(s) \in Seq(S)
           /\ Len(Tail(s)) = Len(s) - 1
           /\ \A i \in 1..Len(Tail(s)) : i + 1 \in 1..Len(s) /\ Tail(s)[i] = s[i + 1]
           /\ Range(Tail(s)) \subseteq Range(s)
           /\ Head(s) \in Range(s)
<1>1. /\ Head(s) \in S /\ Head(s) = s[1] /\ 1 \in 1..Len(s)
      /\ Tail(s) \in Seq(S)
      /\ Len(Tail(s)) = Len(s) - 1
      /\ \A i \in 1..Len(Tail(s)) : i + 1 \in 1..Len(s) /\ Tail(s)[i] = s[i + 1]
  OBVIOUS
<1> QED BY <1>1 DEF Range

-----------------------------------------------------------------------------
(* Types *)

\* A fresh connection and calls not yet made have the right types.
LEMMA InitTypeOK == Init => TypeOK
<1> HAVE Init
<1>1. ChannelTypeOK
  BY DEF Init, ChannelInit, ChannelTypeOK, CallStates
<1>2. CallTypeOK
  BY DEF Init, CallTypeOK, Errors
<1>3. ConnTypeOK
  <2>1. <<>> \in Seq(Calls) /\ <<>> \in Seq(Response) /\ {} \in SUBSET Calls
    OBVIOUS
  <2>2. /\ disConnect = FALSE /\ write_dones_ = <<>> /\ read_dones_ = {}
        /\ outputbuffer_ = <<>> /\ inputbuffer_ = <<>>
    BY DEF Init
  <2> QED BY <2>1, <2>2 DEF ConnTypeOK
<1>4. LoopTypeOK
  BY DEF Init, LoopTypeOK
<1>5. NetTypeOK
  <2>1. /\ <<>> \in Seq(Calls) /\ <<>> \in Seq(Response)
        /\ Len(<<>>) <= SndCap
    BY SndCapAssumption
  <2>2. executions \in [Calls -> Nat] /\ replied \in [Calls -> Kinds \cup {"none"}]
    BY DEF Init
  <2>3. c2s = <<>> /\ s2c = <<>> /\ peer = "open" /\ serving = {}
    BY DEF Init
  <2> QED BY <2>1, <2>2, <2>3 DEF NetTypeOK
<1> QED BY <1>1, <1>2, <1>3, <1>4, <1>5 DEF TypeOK

\* The methods of a Channel keep the types of its variables.
LEMMA ChannelTypes ==
    ASSUME ChannelTypeOK, NEW t \in Threads
    PROVE  /\ EnableReading(t) => ChannelTypeOK'
           /\ EnableWriting(t) => ChannelTypeOK'
           /\ DisableWriting(t) => ChannelTypeOK'
           /\ RemoveChannel(t) => ChannelTypeOK'
           /\ \A level : ChannelStep(t, level) => ChannelTypeOK'
<1> USE DEF ChannelTypeOK, CallStates
<1>0. ASSUME NEW at \in CallStates, NEW val \in SUBSET Bits, Goto(t, at, val)
      PROVE  call' \in [Threads -> [at : CallStates, val : SUBSET Bits]]
  BY <1>0 DEF Goto
<1>1. ASSUME NEW val \in SUBSET Bits, Begin(t, val)
      PROVE  ChannelTypeOK'
  <2>1. call' \in [Threads -> [at : CallStates, val : SUBSET Bits]]
    BY <1>0, <1>1 DEF Begin
  <2> QED BY <1>1, <2>1 DEF Begin
<1>2. /\ EnableReading(t) => ChannelTypeOK'
      /\ EnableWriting(t) => ChannelTypeOK'
      /\ DisableWriting(t) => ChannelTypeOK'
  <2>1. /\ events_ \cup {"IN"} \in SUBSET Bits
        /\ events_ \cup {"OUT"} \in SUBSET Bits
        /\ events_ \ {"OUT"} \in SUBSET Bits
    BY DEF Bits
  <2> QED BY <1>1, <2>1 DEF EnableReading, EnableWriting, DisableWriting
<1>3. RemoveChannel(t) => ChannelTypeOK'
  <2> HAVE RemoveChannel(t)
  <2>1. call' \in [Threads -> [at : CallStates, val : SUBSET Bits]]
    BY <1>0 DEF RemoveChannel
  <2> QED BY <2>1 DEF RemoveChannel
<1>4. ASSUME NEW level, ChannelStep(t, level)
      PROVE  ChannelTypeOK'
  <2>1. CASE StoreEvents(t)
    <3>1. call' \in [Threads -> [at : CallStates, val : SUBSET Bits]]
      BY <1>0, <2>1 DEF StoreEvents
    <3> QED BY <2>1, <3>1 DEF StoreEvents
  <2>2. CASE SetChannelRead(t) \/ SetChannelTest(t)
    <3>1. call' \in [Threads -> [at : CallStates, val : SUBSET Bits]]
      BY <1>0, <2>2 DEF SetChannelRead, SetChannelTest
    <3> QED BY <2>2, <3>1 DEF SetChannelRead, SetChannelTest
  <2>3. CASE SetChannelMod(t, level)
    <3>1. call' \in [Threads -> [at : CallStates, val : SUBSET Bits]]
      BY <1>0, <2>3 DEF SetChannelMod
    <3> QED BY <2>3, <3>1 DEF SetChannelMod, Register
  <2>4. CASE SetChannelAdd(t, level)
    <3>1. call' \in [Threads -> [at : CallStates, val : SUBSET Bits]]
      BY <1>0, <2>4 DEF SetChannelAdd
    <3> QED BY <2>4, <3>1 DEF SetChannelAdd, Register
  <2>5. CASE SetInepoll(t) \/ DelInepoll(t)
    <3>1. call' \in [Threads -> [at : CallStates, val : SUBSET Bits]]
      BY <1>0, <2>5 DEF SetInepoll, DelInepoll
    <3> QED BY <2>5, <3>1 DEF SetInepoll, DelInepoll
  <2>6. CASE RemoveChannelDel(t)
    <3>1. call' \in [Threads -> [at : CallStates, val : SUBSET Bits]]
      BY <1>0, <2>6 DEF RemoveChannelDel
    <3> QED BY <2>6, <3>1 DEF RemoveChannelDel
  <2> QED BY <1>4, <2>1, <2>2, <2>3, <2>4, <2>5, <2>6 DEF ChannelStep
<1> QED BY <1>2, <1>3, <1>4

\* Groups of variables that a step leaves alone keep their types.
LEMMA UnchangedTypes ==
    /\ ChannelTypeOK /\ UNCHANGED chanVars => ChannelTypeOK'
    /\ CallTypeOK /\ UNCHANGED callVars => CallTypeOK'
    /\ ConnTypeOK /\ UNCHANGED connVars => ConnTypeOK'
    /\ LoopTypeOK /\ UNCHANGED loopVars => LoopTypeOK'
    /\ NetTypeOK /\ UNCHANGED netVars => NetTypeOK'
<1>1. ChannelTypeOK /\ UNCHANGED chanVars => ChannelTypeOK'
  BY DEF ChannelTypeOK, chanVars
<1>2. CallTypeOK /\ UNCHANGED callVars => CallTypeOK'
  BY DEF CallTypeOK, callVars
<1>3. ConnTypeOK /\ UNCHANGED connVars => ConnTypeOK'
  BY DEF ConnTypeOK, connVars
<1>4. LoopTypeOK /\ UNCHANGED loopVars => LoopTypeOK'
  BY DEF LoopTypeOK, loopVars
<1>5. NetTypeOK /\ UNCHANGED netVars => NetTypeOK'
  BY DEF NetTypeOK, netVars
<1> QED BY <1>1, <1>2, <1>3, <1>4, <1>5

\* Every step of the program and of its environment keeps the types.
LEMMA StepTypeOK == TypeOK /\ [Next]_vars => TypeOK'
<1> SUFFICES ASSUME TypeOK, [Next]_vars
             PROVE  TypeOK'
  OBVIOUS
<1> USE DEF TypeOK
<1>0. \A c \in Calls : c \in Threads
  BY ThreadsAssumption
<1>a. Loop \in Threads
  BY ThreadsAssumption
<1>1. ASSUME NEW t \in Threads, InChannel(t)
      PROVE  TypeOK'
  <2>1. ChannelTypeOK'
    BY <1>1, ChannelTypes DEF InChannel
  <2> QED BY <1>1, <2>1, UnchangedTypes DEF InChannel
<1>2. ASSUME NEW c \in Calls, CallFails(c)
      PROVE  TypeOK'
  <2>1. CallTypeOK'
    BY <1>2 DEF CallFails, SetError, CallTypeOK, Errors
  <2> QED BY <1>2, <2>1, UnchangedTypes DEF CallFails, SetError
<1>3. ASSUME NEW c \in Calls, CallAddTimer(c)
      PROVE  TypeOK'
  <2>1. CallTypeOK'
    BY <1>3 DEF CallAddTimer, CallTypeOK
  <2> QED BY <1>3, <2>1, UnchangedTypes DEF CallAddTimer
<1>4. ASSUME NEW c \in Calls, CallPush(c)
      PROVE  TypeOK'
  <2>1. CallTypeOK'
    BY <1>4 DEF CallPush, CallTypeOK
  <2>2. ConnTypeOK'
    BY <1>4, AppendElements DEF CallPush, ConnTypeOK
  <2> QED BY <1>4, <2>1, <2>2, UnchangedTypes DEF CallPush
<1>5. ASSUME NEW c \in Calls, CallEnableWriting(c)
      PROVE  TypeOK'
  <2>1. ChannelTypeOK'
    BY <1>0, <1>5, ChannelTypes DEF CallEnableWriting
  <2>2. CallTypeOK'
    BY <1>5 DEF CallEnableWriting, CallTypeOK
  <2> QED BY <1>5, <2>1, <2>2, UnchangedTypes DEF CallEnableWriting
<1>6. ASSUME NEW c \in Calls, OnTime(c)
      PROVE  TypeOK'
  <2>1. CallTypeOK'
    <3>1. CASE is_cancled_[c]
      BY <1>6, <3>1 DEF OnTime, TimeoutCallback, SetError, StartCancel, Fires, CallTypeOK
    <3>2. CASE ~is_cancled_[c]
      <4>1. "timeout" \in Errors
        BY DEF Errors
      <4>2. error_code_' \in [Calls -> Errors]
        BY <1>6, <3>2, <4>1 DEF OnTime, TimeoutCallback, SetError, StartCancel, Fires, CallTypeOK
      <4>3. runs' \in [Calls -> Nat]
        <5>1. runs' = [runs EXCEPT ![c] = @ + 1] /\ runs \in [Calls -> Nat]
          BY <1>6, <3>2 DEF OnTime, TimeoutCallback, SetError, StartCancel, Fires, CallTypeOK
        <5> QED BY <5>1
      <4>4. is_cancle_' \in [Calls -> BOOLEAN]
        BY <1>6, <3>2 DEF OnTime, TimeoutCallback, SetError, StartCancel, Fires, CallTypeOK
      <4>5. timer' \in [Calls -> {"none", "pending", "gone"}]
        BY <1>6 DEF OnTime, TimeoutCallback, SetError, StartCancel, Fires, CallTypeOK
      <4> QED BY <1>6, <4>2, <4>3, <4>4, <4>5 DEF OnTime, TimeoutCallback, SetError, StartCancel, Fires, CallTypeOK
    <3> QED BY <3>1, <3>2
  <2> QED BY <1>6, <2>1, UnchangedTypes DEF OnTime
<1>7. CASE EpollWait
  <2>1. ChannelTypeOK'
    BY <1>7 DEF EpollWait, ChannelTypeOK
  <2>2. LoopTypeOK'
    BY <1>7 DEF EpollWait, LoopTypeOK, ChannelTypeOK
  <2> QED BY <1>7, <2>1, <2>2, UnchangedTypes DEF EpollWait
<1>8. CASE OnMessage \/ OnMessageEof
  <2>1. inputbuffer_ \o s2c \in Seq(Response) /\ <<>> \in Seq(Response)
    BY DEF ConnTypeOK, NetTypeOK
  <2>2. ConnTypeOK'
    BY <1>8, <2>1 DEF OnMessage, OnMessageEof, ConnTypeOK
  <2>3. LoopTypeOK'
    BY <1>8 DEF OnMessage, OnMessageEof, HandleEvent, LoopTypeOK
  <2>4. NetTypeOK'
    BY <1>8, <2>1 DEF OnMessage, OnMessageEof, NetTypeOK
  <2> QED BY <1>8, <2>2, <2>3, <2>4, UnchangedTypes DEF OnMessage, OnMessageEof
<1>21. CASE SendMessage
  <2>1. LoopTypeOK'
    BY <1>21 DEF SendMessage, HandleEvent, LoopTypeOK
  <2> QED BY <1>21, <2>1, UnchangedTypes DEF SendMessage
<1>22. CASE ErrorCallback
  <2>1. LoopTypeOK'
    BY <1>22 DEF ErrorCallback, HandleEvent, LoopTypeOK
  <2>2. ConnTypeOK'
    BY <1>22 DEF ErrorCallback, ConnTypeOK
  <2> QED BY <1>22, <2>1, <2>2, UnchangedTypes DEF ErrorCallback
<1>9. CASE Close
  <2>1. ChannelTypeOK'
    BY <1>a, <1>9, ChannelTypes DEF Close
  <2>2. LoopTypeOK'
    BY <1>9 DEF Close, LoopTypeOK
  <2> QED BY <1>9, <2>1, <2>2, UnchangedTypes DEF Close
<1>10. CASE DrainOne
  <2>1. ChannelTypeOK'
    BY <1>a, <1>10, ChannelTypes DEF DrainOne
  <2>2. ConnTypeOK'
    BY <1>10, AppendElements, TailElements DEF DrainOne, ReadDonesWith, ConnTypeOK
  <2> QED BY <1>10, <2>1, <2>2, UnchangedTypes DEF DrainOne
<1>11. CASE DrainDone
  <2>1. LoopTypeOK'
    BY <1>11 DEF DrainDone, LoopTypeOK
  <2> QED BY <1>11, <2>1, UnchangedTypes DEF DrainDone
<1>12. CASE Write
  <2>1. ChannelTypeOK'
    <3>1. CASE DisableWriting(Loop)
      BY <1>a, <3>1, ChannelTypes
    <3>2. CASE UNCHANGED chanVars
      BY <3>2, UnchangedTypes
    <3> QED BY <1>12, <3>1, <3>2 DEF Write
  <2>2. Writable \in 0..Len(outputbuffer_) /\ Writable <= SndCap - Len(c2s)
    BY SndCapAssumption DEF Writable, ConnTypeOK, NetTypeOK
  <2>3. SubSeq(outputbuffer_, 1, Writable) \in Seq(Calls) /\ Len(SubSeq(outputbuffer_, 1, Writable)) = Writable
    BY <2>2 DEF ConnTypeOK
  <2>4. Unwritten(Writable) \in Seq(Calls)
    BY <2>2 DEF Unwritten, ConnTypeOK
  <2>5. c2s' \in Seq(Calls) /\ Len(c2s') <= SndCap
    <3>1. c2s' = c2s \o SubSeq(outputbuffer_, 1, Writable)
      BY <1>12 DEF Write
    <3> QED BY <2>2, <2>3, <3>1, SndCapAssumption DEF NetTypeOK
  <2>6. NetTypeOK'
    BY <1>12, <2>5 DEF Write, NetTypeOK
  <2>7. ConnTypeOK'
    BY <1>12, <2>4 DEF Write, ConnTypeOK
  <2>8. LoopTypeOK'
    BY <1>12 DEF Write, LoopTypeOK
  <2> QED BY <1>12, <2>1, <2>6, <2>7, <2>8, UnchangedTypes DEF Write
<1>13. CASE WriteReset
  <2>1. ChannelTypeOK'
    BY <1>13 DEF WriteReset, ChannelTypeOK
  <2> QED BY <1>13, <2>1, UnchangedTypes DEF WriteReset
<1>14. CASE ParseOne
  <2>1. CallTypeOK'
    <3> DEFINE c == Head(inputbuffer_)[1]
               kind == Head(inputbuffer_)[2]
    <3>1. c \in Calls /\ kind \in Kinds
      BY <1>14 DEF ParseOne, ConnTypeOK, Response
    <3>2. error_code_' \in [Calls -> Errors]
      BY <1>14, <3>1 DEF ParseOne, ResponseCallback, SetError, ErrorOf, CallTypeOK, Errors, Kinds
    <3>3. runs' \in [Calls -> Nat]
      <4>1. runs \in [Calls -> Nat]
        BY DEF CallTypeOK
      <4>2. runs' = runs \/ runs' = [runs EXCEPT ![c] = IF kind # "garbled" /\ ~is_cancle_[c]
                                                    THEN @ + 1 ELSE @]
        BY <1>14 DEF ParseOne, ResponseCallback, SetError, RunsClosure
      <4> QED BY <3>1, <4>1, <4>2
    <3>4. is_cancled_' \in [Calls -> BOOLEAN]
      BY <1>14, <3>1 DEF ParseOne, ResponseCallback, SetError, CallTypeOK
    <3> QED BY <1>14, <3>2, <3>3, <3>4 DEF ParseOne, CallTypeOK
  <2>2. ConnTypeOK'
    BY <1>14, TailElements DEF ParseOne, ConnTypeOK
  <2> QED BY <1>14, <2>1, <2>2, UnchangedTypes DEF ParseOne
<1>15. CASE ParseDone
  <2>1. LoopTypeOK'
    BY <1>15 DEF ParseDone, LoopTypeOK
  <2> QED BY <1>15, <2>1, UnchangedTypes DEF ParseDone
<1>16. CASE ServerTake
  <2>1. ChannelTypeOK'
    BY <1>16 DEF ServerTake, Raise, ChannelTypeOK
  <2>2. NetTypeOK'
    <3>1. c2s \in Seq(Calls) /\ c2s # <<>>
      BY <1>16 DEF ServerTake, NetTypeOK
    <3>2. /\ Head(c2s) \in Calls /\ Tail(c2s) \in Seq(Calls)
          /\ Len(Tail(c2s)) = Len(c2s) - 1
      BY <3>1, TailElements
    <3>3. Len(c2s') <= SndCap
      <4>1. c2s' = Tail(c2s) /\ Len(c2s) <= SndCap /\ Len(c2s) \in Nat
        BY <1>16 DEF ServerTake, NetTypeOK
      <4> QED BY <3>2, <4>1, SndCapAssumption
    <3>4. executions' \in [Calls -> Nat] /\ serving' \in SUBSET Calls
      BY <1>16, <3>2 DEF ServerTake, NetTypeOK
    <3> QED BY <1>16, <3>2, <3>3, <3>4 DEF ServerTake, NetTypeOK
  <2> QED BY <1>16, <2>1, <2>2, UnchangedTypes DEF ServerTake
<1>17. ASSUME NEW c \in Calls, NEW kind \in Kinds, ServerReply(c, kind)
       PROVE  TypeOK'
  <2>1. ChannelTypeOK'
    BY <1>17 DEF ServerReply, Raise, ChannelTypeOK
  <2>2. <<c, kind>> \in Response
    BY DEF Response
  <2>3. NetTypeOK'
    BY <1>17, <2>2, AppendElements DEF ServerReply, NetTypeOK
  <2> QED BY <1>17, <2>1, <2>3, UnchangedTypes DEF ServerReply
<1>18. CASE PeerFin
  <2>1. ChannelTypeOK'
    BY <1>18 DEF PeerFin, Raise, ChannelTypeOK
  <2>2. NetTypeOK'
    BY <1>18 DEF PeerFin, NetTypeOK
  <2> QED BY <1>18, <2>1, <2>2, UnchangedTypes DEF PeerFin
<1>19. CASE PeerReset
  <2>1. ChannelTypeOK'
    BY <1>19 DEF PeerReset, Raise, ChannelTypeOK
  <2>2. NetTypeOK'
    <3>1. <<>> \in Seq(Calls) /\ Len(<<>>) <= SndCap
      BY SndCapAssumption
    <3> QED BY <1>19, <3>1 DEF PeerReset, NetTypeOK
  <2> QED BY <1>19, <2>1, <2>2, UnchangedTypes DEF PeerReset
<1>20. CASE Quiescent \/ UNCHANGED vars
  BY <1>20, UnchangedTypes DEF Quiescent, vars
<1> QED
  BY <1>1, <1>2, <1>3, <1>4, <1>5, <1>6, <1>7, <1>8, <1>9, <1>10, <1>11, <1>12,
     <1>13, <1>14, <1>15, <1>16, <1>17, <1>18, <1>19, <1>20, <1>21, <1>22
  DEF Next, CallerStep, ServeStep, NetworkStep

\* The client's variables keep their types, whatever the callers, the loop,
\* the server and the network do.
THEOREM TypeCorrect == Spec => []TypeOK
  BY InitTypeOK, StepTypeOK, PTL DEF Spec

-----------------------------------------------------------------------------
(* The closure runs at most once *)

\* Steps that touch neither a call's progress nor its callbacks.
LEMMA ClosureUnchanged ==
    ASSUME ClosureInv, UNCHANGED callVars, UNCHANGED <<write_dones_, read_dones_>>
    PROVE  ClosureInv'
  BY DEF ClosureInv, OnePlace, NotRunYet, ClosureAtMostOnce, callVars, Range

\* Every step of the program and of its environment keeps ClosureInv.
LEMMA StepClosureInv == TypeOK /\ ClosureInv /\ [Next]_vars => ClosureInv'
<1> SUFFICES ASSUME TypeOK, ClosureInv, [Next]_vars
             PROVE  ClosureInv'
  OBVIOUS
<1>0. /\ CallTypeOK /\ write_dones_ \in Seq(Calls) /\ read_dones_ \in SUBSET Calls
      /\ inputbuffer_ \in Seq(Response)
  BY DEF TypeOK, ConnTypeOK
<1>1. ASSUME NEW t \in Threads, InChannel(t)
      PROVE  ClosureInv'
  BY <1>1, ClosureUnchanged DEF InChannel, connVars
<1>2. ASSUME NEW c \in Calls, CallFails(c)
      PROVE  ClosureInv'
  BY <1>0, <1>2 DEF CallFails, SetError, CallAt, CallTypeOK, connVars, ClosureInv, OnePlace,
     NotRunYet, ClosureAtMostOnce
<1>3. ASSUME NEW c \in Calls, CallAddTimer(c)
      PROVE  ClosureInv'
  BY <1>0, <1>3 DEF CallAddTimer, CallAt, CallTypeOK, connVars, ClosureInv, OnePlace,
     NotRunYet, ClosureAtMostOnce
<1>4. ASSUME NEW c \in Calls, CallPush(c)
      PROVE  ClosureInv'
  <2>1. /\ write_dones_' = Append(write_dones_, c)
        /\ cpc[c] = "push" /\ cpc' = [cpc EXCEPT ![c] = "enable"]
        /\ UNCHANGED <<timer, is_cancled_, is_cancle_, runs, read_dones_>>
    BY <1>4 DEF CallPush, CallAt
  <2>2. /\ Len(write_dones_') = Len(write_dones_) + 1
        /\ write_dones_'[Len(write_dones_) + 1] = c
        /\ \A i \in 1..Len(write_dones_) : write_dones_'[i] = write_dones_[i]
        /\ Range(write_dones_') = Range(write_dones_) \cup {c}
    BY <1>0, <2>1, AppendElements
  <2>3. c \notin Range(write_dones_) /\ c \notin read_dones_
    BY <2>1 DEF ClosureInv, OnePlace
  <2>4. OnePlace'
    <3>1. \A d \in Calls : cpc'[d] \in {"start", "push", "failed"} =>
             d \notin Range(write_dones_') /\ d \notin read_dones_'
      BY <1>0, <2>1, <2>2 DEF ClosureInv, OnePlace, CallTypeOK
    <3>2. \A i \in 1..Len(write_dones_) : write_dones_[i] # c
      BY <2>3 DEF Range
    <3>3. \A i \in 1..Len(write_dones_') : i \in 1..Len(write_dones_) \/ i = Len(write_dones_) + 1
      BY <1>0, <2>2
    <3>4. \A i, j \in 1..Len(write_dones_') : write_dones_'[i] = write_dones_'[j] => i = j
      BY <2>2, <3>2, <3>3 DEF ClosureInv, OnePlace
    <3>5. \A i \in 1..Len(write_dones_') : write_dones_'[i] \notin read_dones_'
      BY <2>1, <2>2, <2>3, <3>3 DEF ClosureInv, OnePlace
    <3> QED BY <3>1, <3>4, <3>5 DEF OnePlace
  <2>5. NotRunYet'
    BY <1>0, <2>1, <2>2 DEF ClosureInv, NotRunYet, CallTypeOK
  <2> QED BY <2>1, <2>4, <2>5 DEF ClosureInv, ClosureAtMostOnce
<1>5. ASSUME NEW c \in Calls, CallEnableWriting(c)
      PROVE  ClosureInv'
  BY <1>0, <1>5 DEF CallEnableWriting, CallAt, CallTypeOK, connVars, ClosureInv, OnePlace,
     NotRunYet, ClosureAtMostOnce
<1>6. ASSUME NEW c \in Calls, OnTime(c)
      PROVE  ClosureInv'
  <2>1. /\ timer[c] = "pending" /\ timer' = [timer EXCEPT ![c] = "gone"]
        /\ UNCHANGED <<cpc, is_cancled_, write_dones_, read_dones_>>
    BY <1>6 DEF OnTime, connVars
  <2>2. OnePlace'
    BY <2>1 DEF ClosureInv, OnePlace, Range
  <2>3. CASE is_cancled_[c]
    <3>1. UNCHANGED <<is_cancle_, runs>>
      BY <1>6, <2>3 DEF OnTime, TimeoutCallback, SetError, StartCancel, Fires
    <3> QED BY <1>0, <2>1, <2>2, <3>1 DEF ClosureInv, NotRunYet, ClosureAtMostOnce,
            CallTypeOK, Range
  <2>4. CASE ~is_cancled_[c]
    <3>1. /\ is_cancle_' = [is_cancle_ EXCEPT ![c] = TRUE]
          /\ runs' = [runs EXCEPT ![c] = @ + 1]
      BY <1>6, <2>4 DEF OnTime, TimeoutCallback, SetError, StartCancel, Fires
    <3>2. runs[c] = 0 /\ cpc[c] # "start"
      BY <2>1, <2>4 DEF ClosureInv, NotRunYet
    <3>3. ClosureAtMostOnce'
      BY <1>0, <3>1, <3>2 DEF ClosureInv, ClosureAtMostOnce, CallTypeOK
    <3>4. NotRunYet'
      BY <1>0, <2>1, <3>1, <3>2 DEF ClosureInv, NotRunYet, CallTypeOK, Range
    <3> QED BY <2>2, <3>3, <3>4 DEF ClosureInv
  <2> QED BY <2>3, <2>4
<1>7. CASE DrainOne
  <2> DEFINE c == Head(write_dones_)
  <2>1. /\ write_dones_' = Tail(write_dones_) /\ read_dones_' = read_dones_ \cup {c}
        /\ UNCHANGED callVars /\ write_dones_ # <<>>
    BY <1>7 DEF DrainOne, ReadDonesWith
  <2>2. /\ c \in Calls /\ c = write_dones_[1] /\ 1 \in 1..Len(write_dones_)
        /\ Len(write_dones_') = Len(write_dones_) - 1
        /\ \A i \in 1..Len(write_dones_') : i + 1 \in 1..Len(write_dones_)
              /\ write_dones_'[i] = write_dones_[i + 1]
        /\ Range(write_dones_') \subseteq Range(write_dones_)
        /\ c \in Range(write_dones_)
    BY <1>0, <2>1, TailElements
  <2> HIDE DEF c
  <2>3. OnePlace'
    <3>1. \A d \in Calls : cpc'[d] \in {"start", "push", "failed"} =>
             d \notin Range(write_dones_') /\ d \notin read_dones_'
      BY <2>1, <2>2 DEF ClosureInv, OnePlace, callVars
    <3>2. \A i, j \in 1..Len(write_dones_') : write_dones_'[i] = write_dones_'[j] => i = j
      <4> TAKE i, j \in 1..Len(write_dones_')
      <4> HAVE write_dones_'[i] = write_dones_'[j]
      <4>1. write_dones_[i + 1] = write_dones_[j + 1]
        BY <2>2
      <4>2. i + 1 = j + 1
        BY <2>2, <4>1 DEF ClosureInv, OnePlace
      <4> QED BY <4>2
    <3>3. \A i \in 1..Len(write_dones_') : write_dones_'[i] \notin read_dones_'
      <4> TAKE i \in 1..Len(write_dones_')
      <4>1. write_dones_'[i] = write_dones_[i + 1] /\ i + 1 \in 1..Len(write_dones_)
        BY <2>2
      <4>2. i + 1 # 1
        OBVIOUS
      <4>3. write_dones_[i + 1] # c
        BY <2>2, <4>1, <4>2 DEF ClosureInv, OnePlace
      <4> QED BY <2>1, <4>1, <4>3 DEF ClosureInv, OnePlace
    <3> QED BY <3>1, <3>2, <3>3 DEF OnePlace
  <2>4. NotRunYet'
    BY <2>1, <2>2 DEF ClosureInv, NotRunYet, callVars
  <2> QED BY <2>1, <2>3, <2>4 DEF ClosureInv, ClosureAtMostOnce, callVars
<1>8. CASE ParseOne
  <2> DEFINE c == Head(inputbuffer_)[1]
             kind == Head(inputbuffer_)[2]
  <2>1. UNCHANGED <<cpc, timer, is_cancle_, write_dones_>>
    BY <1>8 DEF ParseOne
  <2>2. CASE c \notin read_dones_
    <3>1. UNCHANGED <<read_dones_, is_cancled_, runs>>
      BY <1>8, <2>2 DEF ParseOne
    <3> QED BY <2>1, <3>1 DEF ClosureInv, OnePlace, NotRunYet, ClosureAtMostOnce, Range
  <2>3. CASE c \in read_dones_
    <3>1. /\ read_dones_' = read_dones_ \ {c}
          /\ is_cancled_' = [is_cancled_ EXCEPT ![c] = TRUE]
          /\ runs' = [runs EXCEPT ![c] =
                IF kind # "garbled" /\ ~is_cancle_[c] THEN @ + 1 ELSE @]
      BY <1>8, <2>3 DEF ParseOne, ResponseCallback, SetError, RunsClosure
    <3> HIDE DEF c, kind
    <3>2. c \in Calls /\ c \notin Range(write_dones_)
      BY <1>0, <2>3 DEF ClosureInv, OnePlace, Range
    <3>3. cpc[c] \notin {"start", "push"}
      BY <2>3, <3>2 DEF ClosureInv, OnePlace
    <3>4. ~is_cancle_[c] => runs[c] = 0
      BY <2>3, <3>2 DEF ClosureInv, NotRunYet
    <3>5. OnePlace'
      BY <2>1, <3>1 DEF ClosureInv, OnePlace, Range
    <3>6. \A d \in Calls : d # c => runs'[d] = runs[d] /\ is_cancled_'[d] = is_cancled_[d]
      BY <1>0, <3>1 DEF CallTypeOK
    <3>7. runs'[c] \in {runs[c], runs[c] + 1} /\ (is_cancle_[c] => runs'[c] = runs[c])
      BY <1>0, <3>1, <3>2 DEF CallTypeOK
    <3>8. is_cancled_'[c]
      BY <1>0, <3>1, <3>2 DEF CallTypeOK
    <3>9. ClosureAtMostOnce'
      <4>1. \A d \in Calls : runs[d] \in Nat /\ runs[d] <= 1
        BY <1>0 DEF ClosureInv, ClosureAtMostOnce, CallTypeOK
      <4>2. runs'[c] <= 1
        <5>1. CASE is_cancle_[c]
          BY <3>2, <3>7, <4>1, <5>1
        <5>2. CASE ~is_cancle_[c]
          BY <3>2, <3>4, <3>7, <4>1, <5>2
        <5> QED BY <5>1, <5>2
      <4> QED BY <3>6, <4>1, <4>2 DEF ClosureAtMostOnce
    <3>10. NotRunYet'
      <4> SUFFICES ASSUME NEW d \in Calls
                   PROVE  /\ cpc'[d] = "start" => runs'[d] = 0 /\ timer'[d] = "none"
                          /\ timer'[d] = "pending" /\ ~is_cancled_'[d] => runs'[d] = 0
                          /\ (cpc'[d] = "push" \/ d \in Range(write_dones_') \/ d \in read_dones_')
                               /\ ~is_cancle_'[d] => runs'[d] = 0
        BY DEF NotRunYet
      <4>1. CASE d # c
        BY <2>1, <3>1, <3>6, <4>1 DEF ClosureInv, NotRunYet, Range
      <4>2. CASE d = c
        BY <2>1, <3>1, <3>2, <3>3, <3>8, <4>2 DEF Range
      <4> QED BY <4>1, <4>2
    <3> QED BY <3>5, <3>9, <3>10 DEF ClosureInv
  <2> QED BY <2>2, <2>3
<1>9. CASE EpollWait \/ Close \/ DrainDone \/ WriteReset \/ ParseDone
  BY <1>9, ClosureUnchanged DEF EpollWait, Close, DrainDone, WriteReset, ParseDone, connVars
<1>10. CASE OnMessage \/ OnMessageEof \/ SendMessage \/ ErrorCallback \/ Write
  BY <1>10, ClosureUnchanged
  DEF OnMessage, OnMessageEof, SendMessage, ErrorCallback, Write, connVars
<1>11. CASE NetworkStep
  BY <1>11, ClosureUnchanged DEF NetworkStep, ServerTake, ServerReply, PeerFin, PeerReset, connVars
<1>12. CASE Quiescent \/ UNCHANGED vars
  BY <1>12, ClosureUnchanged DEF Quiescent, vars, connVars
<1> QED
  BY <1>1, <1>2, <1>3, <1>4, <1>5, <1>6, <1>7, <1>8, <1>9, <1>10, <1>11, <1>12
  DEF Next, CallerStep, ServeStep

\* However many calls share the connection and however their responses and
\* timeouts race, no closure runs twice.
THEOREM ClosureOnce == Spec => []ClosureAtMostOnce
<1>1. Init => ClosureInv
  BY DEF Init, ClosureInv, OnePlace, NotRunYet, ClosureAtMostOnce, Range
<1> QED
  BY <1>1, TypeCorrect, StepClosureInv, PTL DEF Spec, ClosureInv

-----------------------------------------------------------------------------
(* The way of a request: outputbuffer_, c2s, serving, s2c, inputbuffer_ *)

\* No call is twice in a sequence of calls.
Once(s) == \A i, j \in 1..Len(s) : s[i] = s[j] => i = j

\* The calls that a sequence of responses belongs to.
Who(s) == [i \in 1..Len(s) |-> s[i][1]]

\* A call that is new may join.
LEMMA OnceAppend ==
    ASSUME NEW s \in Seq(Calls), NEW x \in Calls, Once(s), x \notin Range(s)
    PROVE  Once(Append(s, x))
<1>1. /\ Len(Append(s, x)) = Len(s) + 1 /\ Append(s, x)[Len(s) + 1] = x
      /\ \A i \in 1..Len(s) : Append(s, x)[i] = s[i] /\ s[i] # x
  BY AppendElements DEF Range
<1>2. \A i \in 1..Len(s) + 1 : i \in 1..Len(s) \/ i = Len(s) + 1
  OBVIOUS
<1> QED
  BY <1>1, <1>2 DEF Once

\* The head leaves, and what is left does not have it.
LEMMA OnceTail ==
    ASSUME NEW s \in Seq(Calls), s # <<>>, Once(s)
    PROVE  Once(Tail(s)) /\ Range(Tail(s)) = Range(s) \ {Head(s)}
<1>1. /\ Len(Tail(s)) = Len(s) - 1 /\ Head(s) = s[1] /\ Len(s) \in Nat /\ 1 \in 1..Len(s)
      /\ \A i \in 1..Len(Tail(s)) : i + 1 \in 1..Len(s) /\ Tail(s)[i] = s[i + 1]
  BY TailElements
<1>2. Once(Tail(s))
  <2> SUFFICES ASSUME NEW i \in 1..Len(Tail(s)), NEW j \in 1..Len(Tail(s)), Tail(s)[i] = Tail(s)[j]
               PROVE  i = j
    BY DEF Once
  <2>1. i + 1 = j + 1
    BY <1>1 DEF Once
  <2> QED
    BY <2>1
<1>3. ASSUME NEW i \in 1..Len(s), s[i] # s[1] PROVE s[i] \in Range(Tail(s))
  <2>1. i - 1 \in 1..Len(Tail(s)) /\ Tail(s)[i - 1] = s[i]
    BY <1>1, <1>3
  <2> QED
    BY <2>1 DEF Range
<1>4. ASSUME NEW i \in 1..Len(Tail(s)) PROVE Tail(s)[i] # s[1] /\ Tail(s)[i] \in Range(s)
  <2>1. i + 1 \in 1..Len(s) /\ Tail(s)[i] = s[i + 1] /\ i + 1 # 1
    BY <1>1
  <2> QED
    BY <1>1, <2>1 DEF Once, Range
<1>5. \A x \in Range(Tail(s)) : x \in Range(s) /\ x # s[1]
  BY <1>4 DEF Range
<1>6. \A x \in Range(s) : x # s[1] => x \in Range(Tail(s))
  <2> SUFFICES ASSUME NEW x \in Range(s), x # s[1] PROVE x \in Range(Tail(s))
    OBVIOUS
  <2>1. PICK i \in 1..Len(s) : x = s[i]
    BY DEF Range
  <2> QED
    BY <1>3, <2>1
<1> QED
  BY <1>1, <1>2, <1>5, <1>6

\* Two sequences without a call in common are joined.
LEMMA OnceConcat ==
    ASSUME NEW s \in Seq(Calls), NEW t \in Seq(Calls), Once(s), Once(t),
           Range(s) \cap Range(t) = {}
    PROVE  Once(s \o t) /\ Range(s \o t) = Range(s) \cup Range(t) /\ s \o t \in Seq(Calls)
<1> DEFINE u == s \o t
<1>1. /\ u \in Seq(Calls) /\ Len(u) = Len(s) + Len(t) /\ Len(s) \in Nat /\ Len(t) \in Nat
      /\ \A i \in 1..Len(s) : u[i] = s[i]
      /\ \A i \in Len(s) + 1..Len(u) : u[i] = t[i - Len(s)] /\ i - Len(s) \in 1..Len(t)
  OBVIOUS
<1>2. \A i \in 1..Len(t) : u[Len(s) + i] = t[i] /\ Len(s) + i \in 1..Len(u)
  OBVIOUS
<1> HIDE DEF u
<1>3. \A i \in 1..Len(u) : i \in 1..Len(s) \/ i \in Len(s) + 1..Len(u)
  BY <1>1
<1>4. \A i \in 1..Len(s) : i \in 1..Len(u)
  BY <1>1
<1>5. Range(u) = Range(s) \cup Range(t)
  <2>1. \A x \in Range(u) : x \in Range(s) \cup Range(t)
    BY <1>1, <1>3 DEF Range
  <2>2. \A x \in Range(s) : x \in Range(u)
    BY <1>1, <1>4 DEF Range
  <2>3. \A x \in Range(t) : x \in Range(u)
    BY <1>2 DEF Range
  <2> QED
    BY <2>1, <2>2, <2>3
<1>6. Once(u)
  <2> SUFFICES ASSUME NEW i \in 1..Len(u), NEW j \in 1..Len(u), u[i] = u[j] PROVE i = j
    BY DEF Once
  <2>1. CASE i \in 1..Len(s) /\ j \in 1..Len(s)
    BY <1>1, <2>1 DEF Once
  <2>2. CASE i \in Len(s) + 1..Len(u) /\ j \in Len(s) + 1..Len(u)
    <3>1. i - Len(s) = j - Len(s)
      BY <1>1, <2>2 DEF Once
    <3> QED
      BY <1>1, <3>1
  <2>3. ASSUME NEW k \in 1..Len(s), NEW l \in Len(s) + 1..Len(u) PROVE u[k] # u[l]
    <3>1. u[k] \in Range(s) /\ u[l] \in Range(t)
      BY <1>1 DEF Range
    <3> QED
      BY <3>1
  <2> QED
    BY <1>3, <2>1, <2>2, <2>3
<1> QED
  BY <1>1, <1>5, <1>6 DEF u

\* What is written is a prefix of the buffer, and the rest stays.
LEMMA OnceSplit ==
    ASSUME NEW s \in Seq(Calls), Once(s), NEW n \in 0..Len(s)
    PROVE  LET p == SubSeq(s, 1, n)
               q == SubSeq(s, n + 1, Len(s))
           IN /\ p \in Seq(Calls) /\ q \in Seq(Calls) /\ Once(p) /\ Once(q)
              /\ Range(p) \cap Range(q) = {} /\ Range(p) \cup Range(q) = Range(s)
<1> DEFINE p == SubSeq(s, 1, n)
           q == SubSeq(s, n + 1, Len(s))
<1>1. /\ p \in Seq(Calls) /\ q \in Seq(Calls) /\ Len(p) = n /\ Len(q) = Len(s) - n
      /\ \A i \in 1..n : p[i] = s[i]
      /\ \A i \in 1..Len(s) - n : q[i] = s[n + i]
      /\ Len(s) \in Nat
  OBVIOUS
<1> HIDE DEF p, q
<1>2. \A i \in 1..n : i \in 1..Len(s)
  BY <1>1
<1>3. \A i \in 1..Len(s) - n : n + i \in 1..Len(s)
  BY <1>1
<1>4. Once(p)
  BY <1>1, <1>2 DEF Once
<1>5. Once(q)
  <2> SUFFICES ASSUME NEW i \in 1..Len(q), NEW j \in 1..Len(q), q[i] = q[j] PROVE i = j
    BY DEF Once
  <2>1. i \in 1..Len(s) - n /\ j \in 1..Len(s) - n
    BY <1>1
  <2>2. s[n + i] = s[n + j] /\ n + i \in 1..Len(s) /\ n + j \in 1..Len(s)
    BY <1>1, <1>3, <2>1
  <2>3. n + i = n + j
    BY <2>2 DEF Once
  <2> QED
    BY <1>1, <2>1, <2>3
<1>6. Range(p) \cap Range(q) = {}
  <2>1. Range(p) = {p[i] : i \in 1..n} /\ Range(q) = {q[j] : j \in 1..Len(s) - n}
    BY <1>1 DEF Range
  <2>2. ASSUME NEW i \in 1..n, NEW j \in 1..Len(s) - n PROVE p[i] # q[j]
    <3>1. i # n + j
      BY <1>1
    <3> QED
      BY <1>1, <1>2, <1>3, <3>1 DEF Once
  <2> QED
    BY <2>1, <2>2
<1>7. Range(p) \cup Range(q) = Range(s)
  <2>1. \A x \in Range(p) : x \in Range(s)
    BY <1>1, <1>2 DEF Range
  <2>2. \A x \in Range(q) : x \in Range(s)
    BY <1>1, <1>3 DEF Range
  <2>3. ASSUME NEW i \in 1..Len(s) PROVE s[i] \in Range(p) \cup Range(q)
    <3>1. CASE i <= n
      BY <1>1, <3>1 DEF Range
    <3>2. CASE i > n
      <4>1. i - n \in 1..Len(s) - n /\ n + (i - n) = i
        BY <1>1, <3>2
      <4> QED
        BY <1>1, <4>1 DEF Range
    <3> QED
      BY <1>1, <3>1, <3>2
  <2> QED
    BY <2>1, <2>2, <2>3 DEF Range
<1> QED
  BY <1>1, <1>4, <1>5, <1>6, <1>7 DEF p, q

\* Responses and the calls they belong to.
LEMMA WhoOf ==
    ASSUME NEW s \in Seq(Response), NEW t \in Seq(Response),
           NEW c \in Calls, NEW kind \in Kinds
    PROVE  /\ Who(s) \in Seq(Calls)
           /\ Who(Append(s, <<c, kind>>)) = Append(Who(s), c)
           /\ Who(s \o t) = Who(s) \o Who(t)
           /\ Who(<<>>) = <<>>
           /\ s # <<>> => /\ Who(Tail(s)) = Tail(Who(s)) /\ Head(s)[1] = Head(Who(s))
                          /\ Who(s) # <<>>
<1>1. \A r \in Response : r[1] \in Calls
  BY DEF Response
<1>2. Who(s) \in Seq(Calls) /\ Who(t) \in Seq(Calls) /\ Len(Who(s)) = Len(s)
  BY <1>1 DEF Who
<1>3. Who(Append(s, <<c, kind>>)) = Append(Who(s), c)
  <2>1. <<c, kind>> \in Response
    BY DEF Response
  <2> QED
    BY <1>2, <2>1 DEF Who
<1>4. Who(s \o t) = Who(s) \o Who(t)
  BY <1>2 DEF Who
<1>5. Who(<<>>) = <<>>
  BY DEF Who
<1>6. s # <<>> => /\ Who(Tail(s)) = Tail(Who(s)) /\ Head(s)[1] = Head(Who(s))
                  /\ Who(s) # <<>>
  BY <1>2 DEF Who
<1> QED
  BY <1>2, <1>3, <1>4, <1>5, <1>6

-----------------------------------------------------------------------------
(* A request is in one place of its way, and its callback is installed *)

Outputs == Range(outputbuffer_)
Sent    == Range(c2s)
Coming  == Range(Who(s2c))
Read    == Range(Who(inputbuffer_))

\* Five places, of which a call is in one at most, and once.
WayInv ==
    /\ Once(outputbuffer_) /\ Once(c2s) /\ Once(Who(s2c)) /\ Once(Who(inputbuffer_))
    /\ Outputs \cap Sent = {} /\ Outputs \cap serving = {} /\ Outputs \cap Coming = {}
    /\ Outputs \cap Read = {} /\ Sent \cap serving = {} /\ Sent \cap Coming = {}
    /\ Sent \cap Read = {} /\ serving \cap Coming = {} /\ serving \cap Read = {}
    /\ Coming \cap Read = {}
    /\ Outputs \cup Sent \cup serving \cup Coming \cup Read \subseteq read_dones_

wayVars == <<outputbuffer_, c2s, serving, s2c, inputbuffer_, read_dones_>>

\* The types that the way needs.
LEMMA WayTypes ==
    ASSUME TypeOK
    PROVE  /\ outputbuffer_ \in Seq(Calls) /\ c2s \in Seq(Calls) /\ write_dones_ \in Seq(Calls)
           /\ s2c \in Seq(Response) /\ inputbuffer_ \in Seq(Response)
           /\ Who(s2c) \in Seq(Calls) /\ Who(inputbuffer_) \in Seq(Calls)
           /\ serving \in SUBSET Calls /\ read_dones_ \in SUBSET Calls
<1>1. /\ outputbuffer_ \in Seq(Calls) /\ c2s \in Seq(Calls) /\ write_dones_ \in Seq(Calls)
      /\ s2c \in Seq(Response) /\ inputbuffer_ \in Seq(Response)
      /\ serving \in SUBSET Calls /\ read_dones_ \in SUBSET Calls
  BY DEF TypeOK, ConnTypeOK, NetTypeOK
<1>2. \A r \in Response : r[1] \in Calls
  BY DEF Response
<1> QED
  BY <1>1, <1>2 DEF Who

\* A step that leaves the way alone.
LEMMA WayUnchanged == WayInv /\ UNCHANGED wayVars => WayInv'
<1> SUFFICES ASSUME WayInv, UNCHANGED wayVars PROVE WayInv'
  OBVIOUS
<1>1. UNCHANGED <<outputbuffer_, c2s, serving, s2c, inputbuffer_, read_dones_>>
  BY DEF wayVars
<1>2. Outputs' = Outputs /\ Sent' = Sent /\ Coming' = Coming /\ Read' = Read
  BY <1>1 DEF Outputs, Sent, Coming, Read
<1> QED
  BY <1>1, <1>2 DEF WayInv

\* sendMessage puts a request on its way together with its callback.
LEMMA DrainWay == ASSUME TypeOK, ClosureInv, WayInv, DrainOne PROVE WayInv'
<1> DEFINE c == Head(write_dones_)
<1>1. /\ outputbuffer_' = Append(outputbuffer_, c) /\ read_dones_' = read_dones_ \cup {c}
      /\ UNCHANGED <<c2s, serving, s2c, inputbuffer_>> /\ write_dones_ # <<>>
  BY DEF DrainOne, ReadDonesWith, netVars
<1>2. c \in Calls /\ c = write_dones_[1] /\ 1 \in 1..Len(write_dones_)
  BY <1>1, WayTypes, TailElements
<1>3. c \notin read_dones_
  BY <1>2 DEF ClosureInv, OnePlace
<1> HIDE DEF c
<1>4. c \notin Outputs
  BY <1>3 DEF WayInv
<1>5. Once(outputbuffer_') /\ Outputs' = Outputs \cup {c}
  BY <1>1, <1>2, <1>4, WayTypes, OnceAppend, AppendElements DEF WayInv, Outputs
<1>6. Sent' = Sent /\ Coming' = Coming /\ Read' = Read
  BY <1>1 DEF Sent, Coming, Read
<1> QED
  BY <1>1, <1>3, <1>5, <1>6 DEF WayInv

\* What sendMessage writes leaves the buffer, and nothing else does.
LEMMA WriteWay == ASSUME TypeOK, WayInv, Write PROVE WayInv'
<1> DEFINE p == SubSeq(outputbuffer_, 1, Writable)
           q == SubSeq(outputbuffer_, Writable + 1, Len(outputbuffer_))
<1>1. /\ c2s' = c2s \o p /\ outputbuffer_' = q
      /\ UNCHANGED <<serving, s2c, inputbuffer_, read_dones_>>
  BY DEF Write, Unwritten
<1>2. Writable \in 0..Len(outputbuffer_)
  BY SndCapAssumption DEF Writable, TypeOK, ConnTypeOK, NetTypeOK
<1>3. /\ p \in Seq(Calls) /\ q \in Seq(Calls) /\ Once(p) /\ Once(q)
      /\ Range(p) \cap Range(q) = {} /\ Range(p) \cup Range(q) = Range(outputbuffer_)
  BY <1>2, WayTypes, OnceSplit DEF WayInv
<1> HIDE DEF p, q
<1>4. Range(c2s) \cap Range(p) = {}
  BY <1>3 DEF WayInv, Outputs, Sent
<1>5. Once(c2s \o p) /\ Range(c2s \o p) = Range(c2s) \cup Range(p)
  BY <1>3, <1>4, WayTypes, OnceConcat DEF WayInv
<1>6. /\ Once(outputbuffer_') /\ Once(c2s')
      /\ Outputs' = Range(q) /\ Sent' = Sent \cup Range(p) /\ Coming' = Coming /\ Read' = Read
  BY <1>1, <1>3, <1>5 DEF Outputs, Sent, Coming, Read
<1>7. Outputs = Range(p) \cup Range(q)
  BY <1>3 DEF Outputs
<1> QED
  BY <1>1, <1>3, <1>6, <1>7 DEF WayInv

\* onMessage reads everything that has come.
LEMMA ReadWay == ASSUME TypeOK, WayInv, OnMessage \/ OnMessageEof PROVE WayInv'
<1>1. /\ inputbuffer_' = inputbuffer_ \o s2c /\ s2c' = <<>>
      /\ UNCHANGED <<outputbuffer_, c2s, serving, read_dones_>>
  BY DEF OnMessage, OnMessageEof
<1>2. Range(Who(inputbuffer_)) \cap Range(Who(s2c)) = {}
  BY DEF WayInv, Read, Coming
<1>3. /\ Once(Who(inputbuffer_) \o Who(s2c))
      /\ Range(Who(inputbuffer_) \o Who(s2c)) = Range(Who(inputbuffer_)) \cup Range(Who(s2c))
  BY <1>2, WayTypes, OnceConcat DEF WayInv
<1>4. Who(inputbuffer_ \o s2c) = Who(inputbuffer_) \o Who(s2c)
  BY WayTypes DEF Who
<1>5. Once(Who(s2c')) /\ Range(Who(s2c')) = {}
  BY <1>1 DEF Once, Who, Range
<1>6. /\ Once(Who(inputbuffer_')) /\ Read' = Read \cup Coming /\ Coming' = {}
      /\ Outputs' = Outputs /\ Sent' = Sent
  BY <1>1, <1>3, <1>4, <1>5 DEF Read, Coming, Outputs, Sent
<1> QED
  BY <1>1, <1>5, <1>6 DEF WayInv

\* parseMsg takes the response off its way together with the callback.
LEMMA ParseWay == ASSUME TypeOK, WayInv, ParseOne PROVE WayInv'
<1> DEFINE c == Head(inputbuffer_)[1]
<1>1. /\ inputbuffer_ # <<>> /\ inputbuffer_' = Tail(inputbuffer_)
      /\ UNCHANGED <<outputbuffer_, c2s, serving, s2c>>
      /\ c \in read_dones_ => read_dones_' = read_dones_ \ {c}
      /\ c \notin read_dones_ => read_dones_' = read_dones_
  BY DEF ParseOne, netVars
<1>2. /\ Who(Tail(inputbuffer_)) = Tail(Who(inputbuffer_)) /\ c = Head(Who(inputbuffer_))
      /\ Who(inputbuffer_) # <<>>
  <2>1. c \in Calls /\ "ok" \in Kinds
    BY <1>1, WayTypes DEF Response, Kinds
  <2> QED
    BY <1>1, <2>1, WayTypes, WhoOf
<1> HIDE DEF c
<1>3. /\ Once(Tail(Who(inputbuffer_))) /\ Range(Tail(Who(inputbuffer_))) = Read \ {c}
      /\ c \in Read
  BY <1>2, WayTypes, OnceTail, TailElements DEF WayInv, Read
<1>4. /\ Once(Who(inputbuffer_')) /\ Read' = Read \ {c}
      /\ Outputs' = Outputs /\ Sent' = Sent /\ Coming' = Coming
  BY <1>1, <1>2, <1>3 DEF Read, Outputs, Sent, Coming
<1>5. read_dones_' = read_dones_ \ {c}
  BY <1>1, <1>3 DEF WayInv
<1> QED
  BY <1>1, <1>3, <1>4, <1>5 DEF WayInv

\* The server and the network move requests on, or lose them.
LEMMA NetworkWay == ASSUME TypeOK, WayInv, NetworkStep PROVE WayInv'
<1>1. CASE ServerTake
  <2> DEFINE c == Head(c2s)
  <2>1. /\ c2s # <<>> /\ c2s' = Tail(c2s) /\ serving' = serving \cup {c}
        /\ UNCHANGED <<outputbuffer_, s2c, inputbuffer_, read_dones_>>
    BY <1>1 DEF ServerTake, connVars
  <2>2. Once(c2s') /\ Sent' = Sent \ {c} /\ c \in Sent
    BY <2>1, WayTypes, OnceTail, TailElements DEF WayInv, Sent
  <2>3. Outputs' = Outputs /\ Coming' = Coming /\ Read' = Read
    BY <2>1 DEF Outputs, Coming, Read
  <2> HIDE DEF c
  <2> QED
    BY <2>1, <2>2, <2>3 DEF WayInv
<1>2. ASSUME NEW c \in Calls, NEW kind \in Kinds, ServerReply(c, kind) PROVE WayInv'
  <2>1. /\ c \in serving /\ serving' = serving \ {c} /\ s2c' = Append(s2c, <<c, kind>>)
        /\ UNCHANGED <<outputbuffer_, c2s, inputbuffer_, read_dones_>>
    BY <1>2 DEF ServerReply, connVars
  <2>2. Who(s2c') = Append(Who(s2c), c)
    BY <2>1, WayTypes, WhoOf
  <2>3. c \notin Range(Who(s2c))
    BY <2>1 DEF WayInv, Coming
  <2>4. Once(Who(s2c')) /\ Coming' = Coming \cup {c}
    BY <2>2, <2>3, WayTypes, OnceAppend, AppendElements DEF WayInv, Coming
  <2>5. Outputs' = Outputs /\ Sent' = Sent /\ Read' = Read
    BY <2>1 DEF Outputs, Sent, Read
  <2> QED
    BY <2>1, <2>4, <2>5 DEF WayInv
<1>3. CASE PeerFin
  BY <1>3, WayUnchanged DEF PeerFin, connVars, wayVars
<1>4. CASE PeerReset
  <2>1. c2s' = <<>> /\ UNCHANGED <<outputbuffer_, serving, s2c, inputbuffer_, read_dones_>>
    BY <1>4 DEF PeerReset, connVars
  <2>2. Once(c2s') /\ Sent' = {}
    BY <2>1 DEF Once, Sent, Range
  <2>3. Outputs' = Outputs /\ Coming' = Coming /\ Read' = Read
    BY <2>1 DEF Outputs, Coming, Read
  <2> QED
    BY <2>1, <2>2, <2>3 DEF WayInv
<1> QED
  BY <1>1, <1>2, <1>3, <1>4 DEF NetworkStep

\* Every step of the program and of its environment keeps a request in one
\* place and its callback installed.
LEMMA StepWayInv == TypeOK /\ ClosureInv /\ WayInv /\ [Next]_vars => WayInv'
<1> SUFFICES ASSUME TypeOK, ClosureInv, WayInv, [Next]_vars PROVE WayInv'
  OBVIOUS
<1>1. ASSUME NEW t \in Threads, InChannel(t) PROVE WayInv'
  BY <1>1, WayUnchanged DEF InChannel, connVars, netVars, wayVars
<1>2. ASSUME NEW c \in Calls, CallerStep(c) \/ OnTime(c) PROVE WayInv'
  BY <1>2, WayUnchanged DEF CallerStep, CallFails, CallAddTimer, CallPush, CallEnableWriting,
     OnTime, connVars, netVars, wayVars
<1>3. CASE EpollWait \/ SendMessage \/ ErrorCallback \/ Close \/ DrainDone \/ WriteReset \/ ParseDone
  BY <1>3, WayUnchanged DEF EpollWait, SendMessage, ErrorCallback, Close, DrainDone,
     WriteReset, ParseDone, connVars, netVars, wayVars
<1>4. CASE Quiescent \/ UNCHANGED vars
  BY <1>4, WayUnchanged DEF Quiescent, vars, connVars, netVars, wayVars
<1> QED
  BY <1>1, <1>2, <1>3, <1>4, DrainWay, WriteWay, ReadWay, ParseWay, NetworkWay
  DEF Next, ServeStep

\* The inductive invariant of the client so far.
WayCorrect == TypeOK /\ ClosureInv /\ WayInv

\* The invariant holds of every behaviour of the client.
LEMMA AlwaysWayCorrect == Spec => []WayCorrect
<1>1. Init => ClosureInv
  BY DEF Init, ClosureInv, OnePlace, NotRunYet, ClosureAtMostOnce, Range
<1>2. Init => WayInv
  BY DEF Init, WayInv, Outputs, Sent, Coming, Read, Once, Who, Range
<1> QED
  BY <1>1, <1>2, InitTypeOK, StepTypeOK, StepClosureInv, StepWayInv, PTL DEF Spec, WayCorrect

\* A response finds its callback whatever calls, timeouts and responses come
\* between: sendMessage installs it before the first byte can leave, and only
\* the response removes it.
THEOREM CallbackInstalled == Spec => []ResponseExpected
<1>1. WayCorrect => ResponseExpected
  <2> SUFFICES ASSUME WayCorrect PROVE ResponseExpected
    OBVIOUS
  <2>1. {r[1] : r \in Range(s2c) \cup Range(inputbuffer_)} \subseteq Coming \cup Read
    <3>1. \A r \in Range(s2c) : r[1] \in Coming
      BY WayTypes DEF WayCorrect, Coming, Who, Range
    <3>2. \A r \in Range(inputbuffer_) : r[1] \in Read
      BY WayTypes DEF WayCorrect, Read, Who, Range
    <3> QED
      BY <3>1, <3>2
  <2> QED
    BY <2>1 DEF WayCorrect, WayInv, ResponseExpected, InFlight, Outputs, Sent
<1> QED
  BY <1>1, AlwaysWayCorrect, PTL

-----------------------------------------------------------------------------
(* The server gets a request at most once *)

\* Calls whose request has not reached the server: not pushed, or waiting on
\* this side or in the socket.
NotTaken ==
    {c \in Calls : \/ c \in Outputs \cup Sent \cup Range(write_dones_)
                   \/ cpc[c] \in {"start", "push", "failed"}}

ExecInv == \A c \in Calls : executions[c] <= 1 /\ (c \in NotTaken => executions[c] = 0)

\* Only the server's taking changes the executions; no other step brings a
\* request back to where the server could take it again.
LEMMA NotTakenShrinks ==
    ASSUME WayCorrect, [Next]_vars, ~ServerTake
    PROVE  executions' = executions /\ NotTaken' \subseteq NotTaken
<1> USE DEF WayCorrect
<1>1. ASSUME UNCHANGED <<outputbuffer_, c2s, write_dones_, cpc>>
      PROVE  NotTaken' \subseteq NotTaken
  BY <1>1 DEF NotTaken, Outputs, Sent
<1>2. ASSUME NEW t \in Threads, InChannel(t)
      PROVE  executions' = executions /\ NotTaken' \subseteq NotTaken
  BY <1>1, <1>2 DEF InChannel, callVars, connVars, netVars
<1>3. ASSUME NEW c \in Calls, CallFails(c) \/ CallAddTimer(c) \/ CallEnableWriting(c)
      PROVE  executions' = executions /\ NotTaken' \subseteq NotTaken
  <2>1. UNCHANGED <<executions, outputbuffer_, c2s, write_dones_>>
    BY <1>3 DEF CallFails, CallAddTimer, CallEnableWriting, connVars, netVars
  <2>2. \A d \in Calls : cpc'[d] \in {"start", "push", "failed"}
                             => cpc[d] \in {"start", "push", "failed"}
    BY <1>3 DEF CallFails, CallAddTimer, CallEnableWriting, CallAt, TypeOK, CallTypeOK
  <2> QED
    BY <2>1, <2>2 DEF NotTaken, Outputs, Sent
<1>4. ASSUME NEW c \in Calls, CallPush(c)
      PROVE  executions' = executions /\ NotTaken' \subseteq NotTaken
  <2>1. /\ UNCHANGED <<executions, outputbuffer_, c2s>> /\ cpc[c] = "push"
        /\ write_dones_' = Append(write_dones_, c) /\ cpc' = [cpc EXCEPT ![c] = "enable"]
    BY <1>4 DEF CallPush, CallAt, netVars
  <2>2. Range(write_dones_') = Range(write_dones_) \cup {c}
    BY <2>1, WayTypes, AppendElements
  <2>3. \A d \in Calls : cpc'[d] \in {"start", "push", "failed"}
                             => cpc[d] \in {"start", "push", "failed"}
    BY <2>1 DEF TypeOK, CallTypeOK
  <2> QED
    BY <2>1, <2>2, <2>3 DEF NotTaken, Outputs, Sent
<1>5. ASSUME NEW c \in Calls, OnTime(c)
      PROVE  executions' = executions /\ NotTaken' \subseteq NotTaken
  BY <1>1, <1>5 DEF OnTime, connVars, netVars
<1>6. CASE DrainOne
  <2>1. /\ UNCHANGED <<executions, c2s, cpc>> /\ write_dones_ # <<>>
        /\ write_dones_' = Tail(write_dones_)
        /\ outputbuffer_' = Append(outputbuffer_, Head(write_dones_))
    BY <1>6 DEF DrainOne, callVars, netVars
  <2>2. /\ Range(write_dones_') \subseteq Range(write_dones_) /\ Head(write_dones_) \in Calls
        /\ Head(write_dones_) \in Range(write_dones_)
    BY <2>1, WayTypes, TailElements
  <2>3. Range(outputbuffer_') = Range(outputbuffer_) \cup {Head(write_dones_)}
    BY <2>1, <2>2, WayTypes, AppendElements
  <2> QED
    BY <2>1, <2>2, <2>3 DEF NotTaken, Outputs, Sent
<1>7. CASE Write
  <2>1. /\ UNCHANGED <<executions, write_dones_, cpc>>
        /\ c2s' = c2s \o SubSeq(outputbuffer_, 1, Writable)
        /\ outputbuffer_' = SubSeq(outputbuffer_, Writable + 1, Len(outputbuffer_))
    BY <1>7 DEF Write, Unwritten, callVars
  <2>2. Writable \in 0..Len(outputbuffer_)
    BY SndCapAssumption DEF Writable, TypeOK, ConnTypeOK, NetTypeOK
  <2>3. /\ SubSeq(outputbuffer_, 1, Writable) \in Seq(Calls)
        /\ Once(SubSeq(outputbuffer_, 1, Writable))
        /\ Range(SubSeq(outputbuffer_, 1, Writable)) \subseteq Outputs
        /\ Range(outputbuffer_') \subseteq Outputs
    BY <2>1, <2>2, WayTypes, OnceSplit DEF WayInv, Outputs
  <2>4. Range(c2s') \subseteq Sent \cup Outputs
    <3>1. Range(c2s) \cap Range(SubSeq(outputbuffer_, 1, Writable)) = {}
      BY <2>3 DEF WayInv, Sent
    <3>2. Range(c2s') = Range(c2s) \cup Range(SubSeq(outputbuffer_, 1, Writable))
      BY <2>1, <2>3, <3>1, WayTypes, OnceConcat DEF WayInv
    <3> QED
      BY <2>3, <3>2 DEF Sent
  <2>5. Outputs' \subseteq Outputs /\ Sent' \subseteq Sent \cup Outputs
    BY <2>3, <2>4 DEF Outputs, Sent
  <2> QED
    BY <2>1, <2>5 DEF NotTaken
<1>8. CASE EpollWait \/ OnMessage \/ OnMessageEof \/ SendMessage \/ ErrorCallback \/ Close
           \/ DrainDone \/ WriteReset \/ ParseOne \/ ParseDone
  BY <1>1, <1>8 DEF EpollWait, OnMessage, OnMessageEof, SendMessage, ErrorCallback, Close,
     DrainDone, WriteReset, ParseOne, ParseDone, callVars, connVars, netVars
<1>9. ASSUME NEW c \in Calls, NEW kind \in Kinds, ServerReply(c, kind)
      PROVE  executions' = executions /\ NotTaken' \subseteq NotTaken
  BY <1>1, <1>9 DEF ServerReply, callVars, connVars
<1>10. CASE PeerFin
  BY <1>1, <1>10 DEF PeerFin, callVars, connVars
<1>11. CASE PeerReset
  <2>1. c2s' = <<>> /\ UNCHANGED <<executions, outputbuffer_, write_dones_, cpc>>
    BY <1>11 DEF PeerReset, callVars, connVars
  <2>2. Range(c2s') = {}
    BY <2>1 DEF Range
  <2> QED
    BY <2>1, <2>2 DEF NotTaken, Outputs, Sent
<1>12. CASE Quiescent \/ UNCHANGED vars
  BY <1>1, <1>12 DEF Quiescent, vars, callVars, connVars, netVars
<1> QED
  BY <1>2, <1>3, <1>4, <1>5, <1>6, <1>7, <1>8, <1>9, <1>10, <1>11, <1>12
  DEF Next, CallerStep, ServeStep, NetworkStep

\* The server executes a request at most once, and none that CallMethod gave up
\* before it was pushed, although the socket may take the requests in pieces.
THEOREM RequestOnce == Spec => []ExecutedAtMostOnce
<1>1. Init => ExecInv
  BY DEF Init, ExecInv
<1>2. WayCorrect /\ ExecInv /\ [Next]_vars => ExecInv'
  <2> SUFFICES ASSUME WayCorrect, ExecInv, [Next]_vars PROVE ExecInv'
    OBVIOUS
  <2>1. executions \in [Calls -> Nat]
    BY DEF WayCorrect, TypeOK, NetTypeOK
  <2>2. CASE ~ServerTake
    BY <2>2, NotTakenShrinks DEF ExecInv
  <2>3. CASE ServerTake
    <3> DEFINE c == Head(c2s)
    <3>1. /\ c2s # <<>> /\ c2s' = Tail(c2s) /\ executions' = [executions EXCEPT ![c] = @ + 1]
          /\ UNCHANGED <<outputbuffer_, write_dones_, cpc>>
      BY <2>3 DEF ServerTake, callVars, connVars
    <3>2. c \in Calls /\ c \in Sent /\ Sent' = Sent \ {c}
      BY <3>1, WayTypes, OnceTail, TailElements DEF WayCorrect, WayInv, Sent
    <3>3. c \in NotTaken /\ c \in read_dones_ /\ c \notin Outputs
      BY <3>2 DEF NotTaken, WayCorrect, WayInv
    <3>4. c \notin Range(write_dones_) /\ cpc[c] \notin {"start", "push", "failed"}
      BY <3>2, <3>3 DEF WayCorrect, ClosureInv, OnePlace, Range
    <3> HIDE DEF c
    <3>5. NotTaken' \subseteq NotTaken \ {c}
      BY <3>1, <3>2, <3>3, <3>4 DEF NotTaken, Outputs
    <3>6. executions[c] = 0 /\ executions'[c] = 1 /\ \A d \in Calls : d # c => executions'[d] = executions[d]
      BY <2>1, <3>1, <3>2, <3>3 DEF ExecInv
    <3> QED
      BY <3>5, <3>6 DEF ExecInv
  <2> QED
    BY <2>2, <2>3
<1>3. WayCorrect /\ ExecInv => ExecutedAtMostOnce
  <2> SUFFICES ASSUME WayCorrect, ExecInv, NEW c \in Calls
               PROVE  executions[c] <= IF cpc[c] \in {"enable", "returned"} THEN 1 ELSE 0
    BY DEF ExecutedAtMostOnce
  <2>1. CASE cpc[c] \in {"enable", "returned"}
    BY <2>1 DEF ExecInv
  <2>2. CASE cpc[c] \notin {"enable", "returned"}
    <3>1. cpc[c] \in {"start", "push", "failed"}
      BY <2>2 DEF WayCorrect, TypeOK, CallTypeOK
    <3>2. executions[c] = 0
      BY <3>1 DEF ExecInv, NotTaken
    <3> QED
      BY <2>2, <3>2
  <2> QED
    BY <2>1, <2>2
<1> QED
  BY <1>1, <1>2, <1>3, AlwaysWayCorrect, PTL DEF Spec

-----------------------------------------------------------------------------
(* What the closure sees *)

\* A response on its way is what the server replied, and a call that timed out
\* keeps an error: no response brings the code back to "none".
OutcomeInv ==
    /\ \A r \in Range(s2c) \cup Range(inputbuffer_) : replied[r[1]] = r[2]
    /\ \A c \in Calls : is_cancle_[c] => error_code_[c] # "none"
    /\ SuccessIsServed

\* A concatenation has no elements of its own.
LEMMA ConcatElements ==
    ASSUME NEW S, NEW s \in Seq(S), NEW t \in Seq(S)
    PROVE  Range(s \o t) \subseteq Range(s) \cup Range(t)
<1>1. /\ Len(s \o t) = Len(s) + Len(t) /\ Len(s) \in Nat /\ Len(t) \in Nat
      /\ \A i \in 1..Len(s) : (s \o t)[i] = s[i]
      /\ \A i \in Len(s) + 1..Len(s \o t) : (s \o t)[i] = t[i - Len(s)] /\ i - Len(s) \in 1..Len(t)
  OBVIOUS
<1>2. \A i \in 1..Len(s \o t) : i \in 1..Len(s) \/ i \in Len(s) + 1..Len(s \o t)
  BY <1>1
<1> QED
  BY <1>1, <1>2 DEF Range

\* Steps that change neither the outcome of a call nor what the server replied,
\* and put no response on the way.
LEMMA OutcomeUnchanged ==
    ASSUME OutcomeInv, UNCHANGED <<is_cancle_, error_code_, runs, replied>>,
           Range(s2c') \cup Range(inputbuffer_') \subseteq Range(s2c) \cup Range(inputbuffer_)
    PROVE  OutcomeInv'
  BY DEF OutcomeInv, SuccessIsServed

\* A call that the server is working on has not been reported as a success.
LEMMA ReplyOutcome ==
    ASSUME WayCorrect, OutcomeInv, NEW c \in Calls, NEW kind \in Kinds, ServerReply(c, kind)
    PROVE  OutcomeInv'
<1>1. /\ c \in serving /\ s2c' = Append(s2c, <<c, kind>>) /\ inputbuffer_' = inputbuffer_
      /\ replied' = [replied EXCEPT ![c] = kind]
      /\ UNCHANGED <<is_cancle_, error_code_, runs>>
  BY DEF ServerReply, callVars, connVars
<1>2. /\ s2c \in Seq(Response) /\ inputbuffer_ \in Seq(Response) /\ <<c, kind>> \in Response
      /\ replied \in [Calls -> Kinds \cup {"none"}] /\ runs \in [Calls -> Nat]
  BY WayTypes DEF WayCorrect, Response, TypeOK, NetTypeOK, CallTypeOK
<1>3. Range(s2c') = Range(s2c) \cup {<<c, kind>>}
  BY <1>1, <1>2, AppendElements
<1>4. c \notin Coming /\ c \notin Read /\ c \in read_dones_
  BY <1>1 DEF WayCorrect, WayInv
<1>5. \A r \in Range(s2c) \cup Range(inputbuffer_) : r[1] # c /\ r[1] \in Calls
  <2>1. \A r \in Range(s2c) : r[1] \in Coming
    BY <1>2 DEF Coming, Who, Range
  <2>2. \A r \in Range(inputbuffer_) : r[1] \in Read
    BY <1>2 DEF Read, Who, Range
  <2>3. Coming \cup Read \subseteq Calls
    BY WayTypes DEF WayCorrect, WayInv
  <2> QED
    BY <1>4, <2>1, <2>2, <2>3
<1>6. \A r \in Range(s2c') \cup Range(inputbuffer_') : replied'[r[1]] = r[2]
  <2>1. replied'[c] = kind
    BY <1>1, <1>2
  <2>2. \A r \in Range(s2c) \cup Range(inputbuffer_) : replied'[r[1]] = r[2]
    BY <1>1, <1>2, <1>5 DEF OutcomeInv
  <2> QED
    BY <1>1, <1>3, <2>1, <2>2
<1>7. runs[c] > 0 => error_code_[c] # "none"
  <2>1. CASE is_cancle_[c]
    BY <2>1 DEF OutcomeInv
  <2>2. CASE ~is_cancle_[c]
    BY <1>4, <2>2 DEF WayCorrect, ClosureInv, NotRunYet
  <2> QED
    BY <2>1, <2>2
<1>8. SuccessIsServed'
  BY <1>1, <1>2, <1>7 DEF OutcomeInv, SuccessIsServed
<1> QED
  BY <1>1, <1>6, <1>8 DEF OutcomeInv

\* The response callback reports what the server replied.
LEMMA ParseOutcome ==
    ASSUME WayCorrect, OutcomeInv, ParseOne
    PROVE  OutcomeInv'
<1> DEFINE c == Head(inputbuffer_)[1]
           kind == Head(inputbuffer_)[2]
<1>1. /\ inputbuffer_ # <<>> /\ inputbuffer_' = Tail(inputbuffer_)
      /\ UNCHANGED <<s2c, is_cancle_, replied>>
      /\ inputbuffer_ \in Seq(Response)
  BY WayTypes DEF ParseOne, netVars, WayCorrect
<1>2. /\ Head(inputbuffer_) \in Response /\ Head(inputbuffer_) \in Range(inputbuffer_)
      /\ Range(inputbuffer_') \subseteq Range(inputbuffer_)
  BY <1>1, TailElements
<1>3. c \in Calls /\ kind \in Kinds /\ replied[c] = kind
  BY <1>2 DEF Response, OutcomeInv
<1>4. CASE UNCHANGED <<error_code_, runs>>
  BY <1>1, <1>2, <1>4, OutcomeUnchanged
<1>5. CASE ResponseCallback(c, kind)
  <2> HIDE DEF c, kind
  <2>1. /\ error_code_' = [error_code_ EXCEPT ![c] = ErrorOf(c, kind)]
        /\ \A d \in Calls : d # c => runs'[d] = runs[d]
    BY <1>5 DEF ResponseCallback, SetError, WayCorrect, TypeOK, CallTypeOK
  <2>2. \A d \in Calls : error_code_'[d] = IF d = c THEN ErrorOf(c, kind) ELSE error_code_[d]
    BY <2>1 DEF WayCorrect, TypeOK, CallTypeOK
  <2>3. ErrorOf(c, kind) = "none" => kind = "ok" /\ error_code_[c] = "none"
    BY <1>3 DEF ErrorOf, Kinds
  <2>4. \A d \in Calls : is_cancle_'[d] => error_code_'[d] # "none"
    BY <1>1, <2>2, <2>3 DEF OutcomeInv
  <2>5. SuccessIsServed'
    BY <1>1, <1>3, <2>1, <2>2, <2>3 DEF OutcomeInv, SuccessIsServed
  <2> QED
    BY <1>1, <1>2, <2>4, <2>5 DEF OutcomeInv
<1> QED
  BY <1>4, <1>5 DEF ParseOne

\* The timeout callback reports an error.
LEMMA TimeOutcome ==
    ASSUME WayCorrect, OutcomeInv, NEW c \in Calls, OnTime(c)
    PROVE  OutcomeInv'
<1>1. UNCHANGED <<s2c, inputbuffer_, replied>>
  BY DEF OnTime, connVars, netVars
<1>2. CASE UNCHANGED <<is_cancle_, error_code_, runs>>
  BY <1>1, <1>2, OutcomeUnchanged
<1>3. CASE TimeoutCallback(c)
  <2>1. /\ error_code_' = [error_code_ EXCEPT ![c] = "timeout"]
        /\ is_cancle_' = [is_cancle_ EXCEPT ![c] = TRUE]
        /\ \A d \in Calls : d # c => runs'[d] = runs[d]
    BY <1>3 DEF TimeoutCallback, SetError, StartCancel, WayCorrect, TypeOK, CallTypeOK
  <2>2. error_code_'[c] = "timeout" /\ \A d \in Calls : d # c => error_code_'[d] = error_code_[d]
                                                          /\ is_cancle_'[d] = is_cancle_[d]
    BY <2>1 DEF WayCorrect, TypeOK, CallTypeOK
  <2> QED
    BY <1>1, <2>1, <2>2 DEF OutcomeInv, SuccessIsServed
<1> QED
  BY <1>2, <1>3 DEF OnTime

\* An early return of CallMethod only ever sets an error.
LEMMA FailOutcome ==
    ASSUME WayCorrect, OutcomeInv, NEW c \in Calls, CallFails(c)
    PROVE  OutcomeInv'
<1>1. UNCHANGED <<s2c, inputbuffer_, replied, is_cancle_, runs>>
  BY DEF CallFails, connVars, netVars
<1>2. CASE UNCHANGED error_code_
  BY <1>1, <1>2, OutcomeUnchanged
<1>3. ASSUME NEW e \in {"connect", "init", "serialize"}, SetError(c, e) PROVE OutcomeInv'
  <2>1. error_code_'[c] # "none" /\ \A d \in Calls : d # c => error_code_'[d] = error_code_[d]
    BY <1>3 DEF SetError, WayCorrect, TypeOK, CallTypeOK
  <2> QED
    BY <1>1, <2>1 DEF OutcomeInv, SuccessIsServed
<1> QED
  BY <1>2, <1>3 DEF CallFails

\* Every step keeps OutcomeInv.
LEMMA StepOutcomeInv == WayCorrect /\ OutcomeInv /\ [Next]_vars => OutcomeInv'
<1> SUFFICES ASSUME WayCorrect, OutcomeInv, [Next]_vars PROVE OutcomeInv'
  OBVIOUS
<1>1. ASSUME UNCHANGED <<s2c, inputbuffer_, is_cancle_, error_code_, runs, replied>>
      PROVE  OutcomeInv'
  BY <1>1, OutcomeUnchanged
<1>2. ASSUME NEW t \in Threads, InChannel(t) PROVE OutcomeInv'
  BY <1>1, <1>2 DEF InChannel, callVars, connVars, netVars
<1>3. ASSUME NEW c \in Calls, CallAddTimer(c) \/ CallPush(c) \/ CallEnableWriting(c)
      PROVE  OutcomeInv'
  BY <1>1, <1>3 DEF CallAddTimer, CallPush, CallEnableWriting, connVars, netVars
<1>4. CASE OnMessage \/ OnMessageEof
  <2>1. /\ inputbuffer_' = inputbuffer_ \o s2c /\ s2c' = <<>>
        /\ UNCHANGED <<is_cancle_, error_code_, runs, replied>>
    BY <1>4 DEF OnMessage, OnMessageEof, callVars
  <2>2. Range(inputbuffer_') \subseteq Range(inputbuffer_) \cup Range(s2c)
    BY <2>1, WayTypes, ConcatElements DEF WayCorrect
  <2>3. Range(s2c') = {}
    BY <2>1 DEF Range
  <2> QED
    BY <2>1, <2>2, <2>3, OutcomeUnchanged
<1>5. CASE EpollWait \/ SendMessage \/ ErrorCallback \/ Close \/ DrainOne \/ DrainDone
           \/ Write \/ WriteReset \/ ParseDone
  BY <1>1, <1>5 DEF EpollWait, SendMessage, ErrorCallback, Close, DrainOne, DrainDone,
     Write, WriteReset, ParseDone, callVars, connVars, netVars
<1>6. CASE ServerTake \/ PeerFin \/ PeerReset
  BY <1>1, <1>6 DEF ServerTake, PeerFin, PeerReset, callVars, connVars
<1>7. CASE Quiescent \/ UNCHANGED vars
  BY <1>1, <1>7 DEF Quiescent, vars, callVars, connVars, netVars
<1> QED
  BY <1>2, <1>3, <1>4, <1>5, <1>6, <1>7, ReplyOutcome, ParseOutcome, TimeOutcome, FailOutcome
  DEF Next, CallerStep, ServeStep, NetworkStep

\* Both invariants hold of every behaviour of the client.
LEMMA AlwaysOutcomeInv == Spec => [](WayCorrect /\ OutcomeInv)
<1>1. Init => OutcomeInv
  BY DEF Init, OutcomeInv, SuccessIsServed, Range
<1> QED
  BY <1>1, AlwaysWayCorrect, StepOutcomeInv, PTL DEF Spec

\* A closure of CallMethod that finds error code 0 was run by a response with
\* which the server reported success.
THEOREM SuccessTruthful == Spec => []SuccessIsServed
<1>1. OutcomeInv => SuccessIsServed
  BY DEF OutcomeInv
<1> QED
  BY <1>1, AlwaysOutcomeInv, PTL

\* Success or failure, as the closure saw it, is never turned round: the late
\* response of a call that timed out leaves an error, if perhaps another one,
\* and no timer fires after the response.
THEOREM OutcomeStays == Spec => OutcomeFinal
<1> DEFINE Stays == \A c \in Calls : runs[c] > 0 =>
                        (error_code_[c] = "none" <=> error_code_'[c] = "none")
<1>1. WayCorrect /\ OutcomeInv /\ [Next]_vars => [Stays]_vars
  <2> SUFFICES ASSUME WayCorrect, OutcomeInv, [Next]_vars PROVE Stays
    OBVIOUS
  <2>1. ASSUME UNCHANGED error_code_ PROVE Stays
    BY <2>1
  <2>2. ASSUME NEW c \in Calls, NEW e, error_code_' = [error_code_ EXCEPT ![c] = e],
               runs[c] > 0 => error_code_[c] # "none" /\ e # "none"
        PROVE  Stays
    BY <2>2 DEF WayCorrect, TypeOK, CallTypeOK
  <2>3. ASSUME NEW c \in Calls, CallFails(c) PROVE Stays
    <3>1. runs[c] = 0
      BY <2>3 DEF CallFails, CallAt, WayCorrect, ClosureInv, NotRunYet
    <3> QED
      BY <2>1, <2>2, <2>3, <3>1 DEF CallFails, SetError
  <2>4. ASSUME NEW c \in Calls, OnTime(c) PROVE Stays
    <3>1. CASE ~Fires(c)
      BY <2>1, <2>4, <3>1 DEF OnTime
    <3>2. CASE Fires(c)
      <4>1. runs[c] = 0
        BY <2>4, <3>2 DEF OnTime, Fires, WayCorrect, ClosureInv, NotRunYet
      <4>2. error_code_' = [error_code_ EXCEPT ![c] = "timeout"]
        BY <2>4, <3>2 DEF OnTime, TimeoutCallback, SetError
      <4> QED
        BY <2>2, <4>1, <4>2
    <3> QED
      BY <3>1, <3>2
  <2>5. CASE ParseOne
    <3> DEFINE c == Head(inputbuffer_)[1]
               kind == Head(inputbuffer_)[2]
    <3>1. CASE c \notin read_dones_
      BY <2>1, <2>5, <3>1 DEF ParseOne
    <3>2. CASE c \in read_dones_
      <4>1. error_code_' = [error_code_ EXCEPT ![c] = ErrorOf(c, kind)]
        BY <2>5, <3>2 DEF ParseOne, ResponseCallback, SetError
      <4>2. c \in Calls /\ kind \in Kinds
        BY <2>5, WayTypes DEF ParseOne, WayCorrect, Response
      <4> HIDE DEF c, kind
      <4>3. runs[c] > 0 => is_cancle_[c]
        BY <3>2, <4>2 DEF WayCorrect, ClosureInv, NotRunYet
      <4>4. is_cancle_[c] => error_code_[c] # "none" /\ ErrorOf(c, kind) # "none"
        BY <4>2 DEF OutcomeInv, ErrorOf, Kinds
      <4> QED
        BY <2>2, <4>1, <4>2, <4>3, <4>4
    <3> QED
      BY <3>1, <3>2
  <2>6. ASSUME NEW c \in Calls, CallAddTimer(c) \/ CallPush(c) \/ CallEnableWriting(c)
        PROVE  Stays
    BY <2>1, <2>6 DEF CallAddTimer, CallPush, CallEnableWriting
  <2>7. ASSUME NEW t \in Threads, InChannel(t) PROVE Stays
    BY <2>1, <2>7 DEF InChannel, callVars
  <2>8. CASE EpollWait \/ OnMessage \/ OnMessageEof \/ SendMessage \/ ErrorCallback \/ Close
             \/ DrainOne \/ DrainDone \/ Write \/ WriteReset \/ ParseDone
    BY <2>1, <2>8 DEF EpollWait, OnMessage, OnMessageEof, SendMessage, ErrorCallback, Close,
       DrainOne, DrainDone, Write, WriteReset, ParseDone, callVars
  <2>9. CASE NetworkStep
    BY <2>1, <2>9 DEF NetworkStep, ServerTake, ServerReply, PeerFin, PeerReset, callVars
  <2>10. CASE Quiescent \/ UNCHANGED vars
    BY <2>1, <2>10 DEF Quiescent, vars, callVars
  <2> QED
    BY <2>3, <2>4, <2>5, <2>6, <2>7, <2>8, <2>9, <2>10 DEF Next, CallerStep, ServeStep
<1> QED
  BY <1>1, AlwaysOutcomeInv, PTL DEF Spec, OutcomeFinal
=============================================================================
