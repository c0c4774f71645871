------------------------- MODULE ServerLookupProofs -------------------------
(****************************************************************************)
(* How a client finds a server: the list of servers that it learns from     *)
(* etcd (RpcServerList) and the cache of connections that getConnection     *)
(* looks in first (TcpClient).                                              *)
(*                                                                          *)
(* For any set of servers and any number of events under way, as long as    *)
(* the watch works, what etcd holds is listed or about to be, and a query   *)
(* finds an address once one of its servers is.  For any number of callers  *)
(* and connections, the keepalive task gives a connection up only after     *)
(* three rounds without any answer, or with answers that all came too late  *)
(* for their callback.                                                      *)
(****************************************************************************)
EXTENDS RpcServerList, TcpClient, TLAPS

-----------------------------------------------------------------------------
(* The list of servers *)

Types ==
    /\ events \in Seq(Event)
    /\ dpc \in {"ls", "list", "watch", "create"}
    /\ usage \in [Keys -> Usages \cup {NoUsage}]

\* Inside a put callBack is still at its event: reports only join at the end.
CreateHandlesPut == dpc = "create" => known /\ events # <<>> /\ Head(events).type = "PUT"

\* A server is only listed in the ServerNodeManager of its service, and the
\* first one after the manager is made.
ListedIsKnown == Listed # {} => known /\ dpc # "create"

IInv == Types /\ CreateHandlesPut /\ ListedIsKnown

\* RpcServerList begins without services.
LEMMA InitIInv == Init => IInv
BY DEF Init, IInv, Types, CreateHandlesPut, ListedIsKnown, Listed, DirInit

\* A put event names a server and its usage; a delete event names none.
LEMMA ParseukvType ==
    ASSUME NEW e \in Event
    PROVE  /\ e.type = "PUT" => Parseukv(e) \in Keys /\ e.val \in Usages
           /\ e.type = "DELETE" => Parseukv(e) \notin Keys
BY DirectoryAssumption DEF Event, Parseukv

\* upsertNode lists its server and takes no other off the list.
LEMMA ReportLists ==
    ASSUME Types, NEW s \in Keys, NEW u \in Usages, Report(s, u)
    PROVE  usage' \in [Keys -> Usages \cup {NoUsage}] /\ s \in Listed'
BY DirectoryAssumption DEF Types, Report, Listed

\* etcd's report joins the events at the end.
LEMMA NotifyAppends ==
    ASSUME events \in Seq(Event), CreateHandlesPut, dpc' = dpc, known' = known,
           NEW e \in Event, events' \in {events, Append(events, e)}
    PROVE  events' \in Seq(Event) /\ CreateHandlesPut'
<1>1. CASE events' = events
  BY <1>1 DEF CreateHandlesPut
<1>2. CASE events' = Append(events, e)
  <2>1. events' \in Seq(Event) /\ events' # <<>>
    BY <1>2
  <2>2. events # <<>> => Head(events') = Head(events)
    BY <1>2
  <2> QED
    BY <2>1, <2>2 DEF CreateHandlesPut
<1> QED
  BY <1>1, <1>2

\* Servers and etcd do not touch the client's list.
LEMMA ServersKeepIInv ==
    ASSUME IInv, NEW s \in Keys, RegisterService(s) \/ ServerEnds(s) \/ LeaseExpires(s)
    PROVE  IInv'
<1>1. UNCHANGED <<dpc, known, usage>>
  BY DEF RegisterService, ServerEnds, LeaseExpires, dirVars
<1>2. \E e \in Event : events' \in {events, Append(events, e)}
  <2>1. CASE RegisterService(s)
    <3>1. PICK u \in Usages : Registry(s, u)
      BY <2>1 DEF RegisterService, GetCpuUsage, CpuUsage
    <3>2. [type |-> "PUT", key |-> s, val |-> u] \in Event
      BY DEF Event
    <3> QED
      BY <3>1, <3>2 DEF Registry, Notify
  <2>2. CASE ServerEnds(s)
    <3>1. [type |-> "DELETE", key |-> s, val |-> NoUsage] \in Event
      BY DEF Event
    <3> QED
      BY <2>2, <3>1 DEF ServerEnds
  <2>3. CASE LeaseExpires(s)
    <3>1. [type |-> "DELETE", key |-> s, val |-> NoUsage] \in Event
      BY DEF Event
    <3> QED
      BY <2>3, <3>1 DEF LeaseExpires, Notify
  <2> QED
    BY <2>1, <2>2, <2>3
<1>3. events' \in Seq(Event) /\ CreateHandlesPut'
  BY <1>1, <1>2, NotifyAppends DEF IInv, Types
<1> QED
  BY <1>1, <1>3 DEF IInv, Types, ListedIsKnown, Listed

\* The listing of the constructor makes the service of each server known.
LEMMA ConstructorKeepsIInv ==
    ASSUME IInv, Constructor PROVE IInv'
<1>1. CASE Ls \/ WatchBegins
  BY <1>1 DEF Ls, WatchBegins, IInv, Types, CreateHandlesPut, ListedIsKnown, Listed, dirVars
<1>2. ASSUME NEW s \in Keys, NEW u \in Usages, ListPut(s, u) PROVE IInv'
  <2>1. s \in Listed' /\ usage' \in [Keys -> Usages \cup {NoUsage}]
    BY <1>2, ReportLists DEF IInv, ListPut
  <2> QED
    BY <1>2, <2>1 DEF ListPut, IInv, Types, CreateHandlesPut, ListedIsKnown
<1> QED
  BY <1>1, <1>2 DEF Constructor

\* The callbacks of the watch: a put lists its server, and a delete, which
\* carries no value, takes nobody off the list.
LEMMA CallbackKeepsIInv ==
    ASSUME IInv, Callback PROVE IInv'
<1>1. CASE PutCreates
  BY <1>1 DEF PutCreates, Handling, IInv, Types, CreateHandlesPut, ListedIsKnown, Listed, dirVars
<1>2. CASE PutUpserts
  <2>1. events # <<>> /\ Head(events).type = "PUT"
    BY <1>2 DEF PutUpserts, Handling, IInv, CreateHandlesPut
  <2>2. Head(events) \in Event /\ Tail(events) \in Seq(Event)
    BY <2>1 DEF IInv, Types
  <2>3. Parseukv(Head(events)) \in Keys /\ Head(events).val \in Usages
    BY <2>1, <2>2, ParseukvType
  <2>4. usage' \in [Keys -> Usages \cup {NoUsage}] /\ Listed' # {}
    BY <1>2, <2>3, ReportLists DEF PutUpserts, IInv
  <2> QED
    BY <1>2, <2>2, <2>4 DEF PutUpserts, IInv, Types, CreateHandlesPut, ListedIsKnown
<1>3. CASE DelServerNode
  <2>1. Head(events) \in Event /\ Tail(events) \in Seq(Event) /\ dpc = "watch"
    BY <1>3 DEF DelServerNode, Handling, IInv, Types
  <2>2. Parseukv(Head(events)) \notin Keys
    BY <1>3, <2>1, ParseukvType DEF DelServerNode, Handling
  <2>3. usage' = usage
    BY <1>3, <2>2 DEF DelServerNode, dirVars
  <2> QED
    BY <1>3, <2>1, <2>3 DEF DelServerNode, IInv, Types, CreateHandlesPut, ListedIsKnown, Listed
<1> QED
  BY <1>1, <1>2, <1>3 DEF Callback

\* A broken watch loses the latest events; callBack still has the one it is at.
LEMMA WatchBreaksKeepsIInv ==
    ASSUME IInv, WatchBreaks PROVE IInv'
<1>1. PICK n \in 0 .. Len(events) : (dpc = "create" => n > 0) /\ events' = SubSeq(events, 1, n)
  BY DEF WatchBreaks
<1>2. UNCHANGED <<dpc, known, usage>>
  BY DEF WatchBreaks, dirVars
<1>3. events \in Seq(Event)
  BY DEF IInv, Types
<1>4. events' \in Seq(Event) /\ (n > 0 => events' # <<>> /\ Head(events') = Head(events))
  BY <1>1, <1>3
<1> QED
  BY <1>1, <1>2, <1>4 DEF IInv, Types, CreateHandlesPut, ListedIsKnown, Listed

\* Every step of servers, etcd and client keeps the invariant.
LEMMA AlwaysIInv == Spec => []IInv
<1>1. IInv /\ [Next]_vars => IInv'
  <2> SUFFICES ASSUME IInv, [Next]_vars PROVE IInv'
    OBVIOUS
  <2>1. ASSUME NEW s \in Keys, RegisterService(s) \/ ServerEnds(s) \/ LeaseExpires(s)
        PROVE  IInv'
    BY <2>1, ServersKeepIInv
  <2>2. CASE Constructor
    BY <2>2, ConstructorKeepsIInv
  <2>3. CASE Callback
    BY <2>3, CallbackKeepsIInv
  <2>4. CASE WatchBreaks
    BY <2>4, WatchBreaksKeepsIInv
  <2>6. CASE AtRest \/ UNCHANGED vars
    BY <2>6 DEF AtRest, vars, dirVars, IInv, Types, CreateHandlesPut, ListedIsKnown, Listed
  <2>5. CASE GetServerAddr
    <3>1. UNCHANGED <<usage, events, dpc, known>>
      BY <2>5 DEF GetServerAddr, Query
    <3> QED
      BY <3>1 DEF IInv, Types, CreateHandlesPut, ListedIsKnown, Listed
  <2> QED
    BY <2>1, <2>2, <2>3, <2>4, <2>5, <2>6 DEF Next
<1> QED
  BY <1>1, InitIInv, PTL DEF Spec

-----------------------------------------------------------------------------
(* What is in etcd reaches the list *)

\* A report joins at the end: it is the last put of its own server and leaves
\* the last put of every other as it was.
LEMMA AppendedPut ==
    ASSUME NEW q \in Seq(Event), NEW e \in Event, NEW s, NEW u
    PROVE  /\ PutOf(e, s) /\ e.val = u => LastPut(Append(q, e), s, u)
           /\ ~PutOf(e, s) /\ LastPut(q, s, u) => LastPut(Append(q, e), s, u)
           /\ ~PutOf(e, s) /\ NoPut(q, s) => NoPut(Append(q, e), s)
<1> DEFINE r == Append(q, e)
<1>1. /\ Len(r) = Len(q) + 1 /\ Len(q) \in Nat /\ r[Len(q) + 1] = e
      /\ \A i \in 1 .. Len(q) : r[i] = q[i]
  OBVIOUS
<1> HIDE DEF r
<1>2. PutOf(e, s) /\ e.val = u => LastPut(r, s, u)
  BY <1>1 DEF LastPut
<1>3. ASSUME ~PutOf(e, s), LastPut(q, s, u) PROVE LastPut(r, s, u)
  <2>1. PICK i \in 1 .. Len(q) :
          PutOf(q[i], s) /\ q[i].val = u /\ \A j \in i + 1 .. Len(q) : ~PutOf(q[j], s)
    BY <1>3 DEF LastPut
  <2>2. i \in 1 .. Len(r) /\ r[i] = q[i]
    BY <1>1
  <2>3. ASSUME NEW j \in i + 1 .. Len(r) PROVE ~PutOf(r[j], s)
    <3>1. j = Len(q) + 1 \/ (j \in i + 1 .. Len(q) /\ j \in 1 .. Len(q))
      BY <1>1
    <3> QED
      BY <1>1, <1>3, <2>1, <3>1
  <2> QED
    BY <2>1, <2>2, <2>3 DEF LastPut
<1>4. ~PutOf(e, s) /\ NoPut(q, s) => NoPut(r, s)
  BY <1>1 DEF NoPut
<1> QED
  BY <1>2, <1>3, <1>4 DEF r

\* When the oldest event is handled, the last put of a server stays what it was
\* or is the one handled.
LEMMA HandledPut ==
    ASSUME NEW q \in Seq(Event), q # <<>>, NEW s, NEW u
    PROVE  /\ NoPut(q, s) => NoPut(Tail(q), s) /\ ~PutOf(Head(q), s)
           /\ LastPut(q, s, u) =>
                \/ LastPut(Tail(q), s, u)
                \/ NoPut(Tail(q), s) /\ PutOf(Head(q), s) /\ Head(q).val = u
<1> DEFINE r == Tail(q)
<1>1. /\ Len(r) = Len(q) - 1 /\ Len(q) \in Nat \ {0} /\ Head(q) = q[1]
      /\ \A i \in 1 .. Len(r) : r[i] = q[i + 1]
  OBVIOUS
<1> HIDE DEF r
<1>2. \A i \in 1 .. Len(r) : i + 1 \in 1 .. Len(q)
  BY <1>1
<1>3. NoPut(q, s) => NoPut(r, s) /\ ~PutOf(Head(q), s)
  BY <1>1, <1>2 DEF NoPut
<1>4. ASSUME LastPut(q, s, u)
      PROVE  LastPut(r, s, u) \/ (NoPut(r, s) /\ PutOf(Head(q), s) /\ Head(q).val = u)
  <2>1. PICK i \in 1 .. Len(q) :
          PutOf(q[i], s) /\ q[i].val = u /\ \A j \in i + 1 .. Len(q) : ~PutOf(q[j], s)
    BY <1>4 DEF LastPut
  <2>2. CASE i = 1
    <3>1. ASSUME NEW j \in 1 .. Len(r) PROVE ~PutOf(r[j], s)
      <4>1. j + 1 \in i + 1 .. Len(q)
        BY <1>1, <2>2
      <4> QED
        BY <1>1, <2>1, <4>1
    <3> QED
      BY <1>1, <2>1, <2>2, <3>1 DEF NoPut
  <2>3. CASE i # 1
    <3>1. i - 1 \in 1 .. Len(r) /\ (i - 1) + 1 = i
      BY <1>1, <2>3
    <3>2. r[i - 1] = q[i]
      BY <1>1, <3>1
    <3>3. ASSUME NEW j \in (i - 1) + 1 .. Len(r) PROVE ~PutOf(r[j], s)
      <4>1. j + 1 \in i + 1 .. Len(q) /\ j \in 1 .. Len(r)
        BY <1>1
      <4> QED
        BY <1>1, <2>1, <4>1
    <3> QED
      BY <2>1, <3>1, <3>2, <3>3 DEF LastPut
  <2> QED
    BY <2>2, <2>3
<1> QED
  BY <1>3, <1>4 DEF r

\* The client lists server s with usage u once it has handled the listing.
WillList(s, u) ==
    \/ <<s, u>> \in listing
    \/ usage[s] = u /\ \A v \in Usages : <<s, v>> \notin listing

\* There are no events before the watch begins; until then what etcd holds is
\* listed or still in the listing, once, and while the watch works in the
\* events.
ReflectInv ==
    /\ store \in [Keys -> Usages \cup {NoUsage}]
    /\ dpc \in {"ls", "list"} => ~watching /\ events = <<>>
    /\ \A s \in Keys, u, v \in Usages : <<s, u>> \in listing /\ <<s, v>> \in listing => u = v
    /\ dpc = "list" => \A s \in Keys \ missed : store[s] # NoUsage => WillList(s, store[s])
    /\ watching => \A s \in Keys \ missed : store[s] # NoUsage => WillHave(s, store[s])

\* A server that registers is reported, or counted as missed.
LEMMA RegisterReflected ==
    ASSUME IInv, ReflectInv, NEW s \in Keys, RegisterService(s) PROVE ReflectInv'
<1>1. PICK u \in Usages : Registry(s, u)
  BY DEF RegisterService, GetCpuUsage, CpuUsage
<1>2. UNCHANGED <<watching, dpc, listing, usage>>
  BY DEF RegisterService, dirVars
<1>3. CASE UNCHANGED <<store, events, missed>>
  BY <1>2, <1>3 DEF ReflectInv, WillList, WillHave
<1> DEFINE e == [type |-> "PUT", key |-> s, val |-> u]
<1>4. CASE /\ store' = [store EXCEPT ![s] = u]
           /\ Notify(e)
           /\ missed' = IF watching \/ dpc = "ls" THEN missed \ {s} ELSE missed \cup {s}
  <2>1. /\ e \in Event /\ PutOf(e, s) /\ e.val = u
        /\ \A r : r # s => ~PutOf(e, r)
    BY DEF Event, PutOf
  <2>2. /\ store' \in [Keys -> Usages \cup {NoUsage}] /\ store'[s] = u
        /\ \A r \in Keys : r # s => store'[r] = store[r]
    BY <1>4 DEF ReflectInv
  <2>3. \A r \in Keys \ missed' : r # s => r \in Keys \ missed
    BY <1>4
  <2>4. CASE ~watching
    <3>1. events' = events /\ (dpc # "ls" => s \in missed')
      BY <1>4, <2>4 DEF Notify
    <3> QED
      BY <1>2, <2>2, <2>3, <2>4, <3>1 DEF ReflectInv, WillList, WillHave, IInv, Types
  <2>5. CASE watching
    <3>1. events' = Append(events, e) /\ events \in Seq(Event) /\ dpc \notin {"ls", "list"}
      BY <1>4, <2>5 DEF Notify, ReflectInv, IInv, Types
    <3> HIDE DEF e
    <3>2. LastPut(events', s, u)
      BY <2>1, <3>1, AppendedPut
    <3>3. ASSUME NEW r \in Keys \ missed', r # s, store'[r] # NoUsage
          PROVE  WillHave(r, store[r])'
      <4>1. WillHave(r, store[r]) /\ ~PutOf(e, r)
        BY <2>1, <2>2, <2>3, <2>5, <3>3 DEF ReflectInv
      <4>2. /\ LastPut(events, r, store[r]) => LastPut(events', r, store[r])
            /\ NoPut(events, r) => NoPut(events', r)
        BY <2>1, <3>1, <4>1, AppendedPut
      <4> QED
        BY <1>2, <2>2, <3>3, <4>1, <4>2 DEF WillHave
    <3> QED
      BY <1>2, <2>2, <3>1, <3>2, <3>3 DEF ReflectInv, WillHave
  <2> QED
    BY <2>4, <2>5
<1> QED
  BY <1>1, <1>3, <1>4 DEF Registry

\* The report of a key that is gone changes no put.
LEMMA ExpiryReflected ==
    ASSUME IInv, ReflectInv, NEW s \in Keys, LeaseExpires(s) PROVE ReflectInv'
<1> DEFINE e == [type |-> "DELETE", key |-> s, val |-> NoUsage]
<1>1. e \in Event /\ \A r : ~PutOf(e, r)
  BY DEF Event, PutOf
<1>2. /\ UNCHANGED <<watching, dpc, listing, usage, missed>>
      /\ store' \in [Keys -> Usages \cup {NoUsage}] /\ store'[s] = NoUsage
      /\ \A r \in Keys : r # s => store'[r] = store[r]
  BY DEF LeaseExpires, dirVars, ReflectInv
<1>3. events' = (IF watching THEN Append(events, e) ELSE events) /\ events \in Seq(Event)
  BY DEF LeaseExpires, Notify, IInv, Types
<1> HIDE DEF e
<1>4. ASSUME NEW r, NEW u
      PROVE  /\ LastPut(events, r, u) => LastPut(events', r, u)
             /\ NoPut(events, r) => NoPut(events', r)
  BY <1>1, <1>3, AppendedPut
<1>5. ASSUME NEW r \in Keys \ missed', store'[r] # NoUsage, watching
      PROVE  WillHave(r, store[r])'
  <2>1. r \in Keys \ missed /\ store'[r] = store[r] /\ WillHave(r, store[r])
    BY <1>2, <1>5 DEF ReflectInv
  <2> QED
    BY <1>2, <1>4, <2>1 DEF WillHave
<1> QED
  BY <1>2, <1>3, <1>5 DEF ReflectInv, WillList

\* The constructor takes every pair of the listing into the list and then has
\* the watch begin.
LEMMA ConstructorReflected ==
    ASSUME IInv, ReflectInv, Constructor PROVE ReflectInv'
<1>1. CASE Ls
  <2>1. /\ UNCHANGED <<store, watching, events, usage>> /\ dpc = "ls" /\ dpc' = "list"
        /\ store \in [Keys -> Usages \cup {NoUsage}] /\ ~watching /\ events = <<>>
    BY <1>1 DEF Ls, dirVars, ReflectInv
  <2>2. CASE listing' = {<<s, store[s]>> : s \in {r \in Keys : store[r] # NoUsage}}
    <3>1. \A s \in Keys, u \in Usages : <<s, u>> \in listing' <=> store[s] # NoUsage /\ u = store[s]
      BY <2>2
    <3>2. \A s \in Keys : store'[s] # NoUsage => <<s, store'[s]>> \in listing'
      BY <2>1, <2>2
    <3> QED
      BY <2>1, <3>1, <3>2 DEF ReflectInv, WillList
  <2>3. CASE listing' = {} /\ missed' = {r \in Keys : store[r] # NoUsage}
    BY <2>1, <2>3 DEF ReflectInv, WillList
  <2> QED
    BY <1>1, <2>2, <2>3 DEF Ls
<1>2. ASSUME NEW s \in Keys, NEW u \in Usages, ListPut(s, u) PROVE ReflectInv'
  <2>1. /\ dpc = "list" /\ dpc' = dpc /\ <<s, u>> \in listing /\ listing' = listing \ {<<s, u>>}
        /\ UNCHANGED <<store, watching, missed, events>>
        /\ usage'[s] = u /\ \A r \in Keys : r # s => usage'[r] = usage[r]
    BY <1>2 DEF ListPut, Report, etcdVars, IInv, Types
  <2>2. ASSUME NEW r \in Keys \ missed, store[r] # NoUsage PROVE WillList(r, store[r])'
    <3>1. WillList(r, store[r]) /\ store[r] \in Usages
      BY <2>1, <2>2 DEF ReflectInv
    <3>2. CASE r = s
      <4>1. store[r] = u
        BY <2>1, <3>1, <3>2 DEF WillList, ReflectInv
      <4>2. \A v \in Usages : <<s, v>> \notin listing'
        BY <2>1 DEF ReflectInv
      <4> QED
        BY <2>1, <3>2, <4>1, <4>2 DEF WillList
    <3>3. CASE r # s
      BY <2>1, <3>1, <3>3 DEF WillList
    <3> QED
      BY <3>2, <3>3
  <2> QED
    BY <2>1, <2>2 DEF ReflectInv
<1>3. CASE WatchBegins
  <2>1. /\ dpc = "list" /\ listing = {} /\ dpc' = "watch" /\ events = <<>>
        /\ UNCHANGED <<store, missed, events, listing, usage>>
    BY <1>3 DEF WatchBegins, dirVars, ReflectInv
  <2>2. \A s : NoPut(events, s)
    BY <2>1 DEF NoPut
  <2> QED
    BY <2>1, <2>2 DEF ReflectInv, WillList, WillHave
<1> QED
  BY <1>1, <1>2, <1>3 DEF Constructor

\* callBack moves a put from the events into the list.
LEMMA CallbackReflected ==
    ASSUME IInv, ReflectInv, Callback PROVE ReflectInv'
<1>1. CASE PutCreates
  BY <1>1 DEF PutCreates, Handling, ReflectInv, WillHave, etcdVars, dirVars
<1>2. ASSUME events # <<>>, events' = Tail(events), dpc \in {"watch", "create"}, dpc' = "watch",
             UNCHANGED <<store, watching, missed, listing>>,
             \A s \in Keys :
                usage'[s] = IF PutOf(Head(events), s) THEN Head(events).val ELSE usage[s]
      PROVE  ReflectInv'
  <2>1. ASSUME NEW s \in Keys \ missed, store[s] # NoUsage, watching
        PROVE  WillHave(s, store[s])'
    <3>1. WillHave(s, store[s]) /\ store[s] \in Usages /\ events \in Seq(Event)
      BY <1>2, <2>1 DEF ReflectInv, IInv, Types
    <3>2. /\ NoPut(events, s) => NoPut(events', s) /\ ~PutOf(Head(events), s)
          /\ LastPut(events, s, store[s]) =>
                \/ LastPut(events', s, store[s])
                \/ NoPut(events', s) /\ PutOf(Head(events), s) /\ Head(events).val = store[s]
      BY <1>2, <3>1, HandledPut
    <3> QED
      BY <1>2, <3>1, <3>2 DEF WillHave
  <2> QED
    BY <1>2, <2>1 DEF ReflectInv
<1>3. CASE PutUpserts
  <2>1. /\ events # <<>> /\ Head(events).type = "PUT" /\ dpc \in {"watch", "create"}
        /\ events' = Tail(events) /\ dpc' = "watch"
        /\ UNCHANGED <<store, watching, missed, listing>>
    BY <1>3 DEF PutUpserts, Handling, IInv, CreateHandlesPut, etcdVars
  <2>2. Head(events) \in Event
    BY <2>1 DEF IInv, Types
  <2>3. Parseukv(Head(events)) = Head(events).key /\ Head(events).key \in Keys
    BY <2>1, <2>2, DirectoryAssumption DEF Event, Parseukv
  <2>4. \A s \in Keys : usage'[s] = IF PutOf(Head(events), s) THEN Head(events).val ELSE usage[s]
    BY <1>3, <2>1, <2>3 DEF PutUpserts, Report, PutOf, IInv, Types
  <2> QED
    BY <1>2, <2>1, <2>4
<1>4. CASE DelServerNode
  <2>1. /\ events # <<>> /\ Head(events).type = "DELETE" /\ dpc = "watch"
        /\ events' = Tail(events) /\ dpc' = "watch"
        /\ UNCHANGED <<store, watching, missed, listing>>
    BY <1>4 DEF DelServerNode, Handling, etcdVars
  <2>2. Head(events) \in Event
    BY <2>1 DEF IInv, Types
  <2>3. Parseukv(Head(events)) \notin Keys
    BY <2>1, <2>2, ParseukvType
  <2>4. usage' = usage
    BY <1>4, <2>3 DEF DelServerNode, dirVars
  <2>5. \A s : ~PutOf(Head(events), s)
    BY <2>1 DEF PutOf
  <2> QED
    BY <1>2, <2>1, <2>4, <2>5
<1> QED
  BY <1>1, <1>3, <1>4 DEF Callback

\* Listing, watch and callbacks keep the list in step with etcd.
LEMMA AlwaysReflectInv == Spec => []ReflectInv
<1>1. Init => ReflectInv
  BY DEF Init, ReflectInv
<1>2. IInv /\ ReflectInv /\ [Next]_vars => ReflectInv'
  <2> SUFFICES ASSUME IInv, ReflectInv, [Next]_vars PROVE ReflectInv'
    OBVIOUS
  <2>1. ASSUME NEW s \in Keys, RegisterService(s) \/ LeaseExpires(s) PROVE ReflectInv'
    BY <2>1, RegisterReflected, ExpiryReflected
  <2>2. CASE Constructor \/ Callback
    BY <2>2, ConstructorReflected, CallbackReflected
  <2>3. ASSUME UNCHANGED <<store, missed, events, dpc, listing, usage>>, watching' => watching
        PROVE  ReflectInv'
    BY <2>3 DEF ReflectInv, WillList, WillHave
  <2>4. ASSUME NEW s \in Keys, ServerEnds(s) PROVE ReflectInv'
    BY <2>3, <2>4 DEF ServerEnds, dirVars
  <2>5. CASE AtRest \/ UNCHANGED vars
    BY <2>3, <2>5 DEF AtRest, vars, etcdVars, dirVars
  <2>7. CASE WatchBreaks
    BY <2>7 DEF WatchBreaks, ReflectInv, WillList, dirVars
  <2>6. CASE GetServerAddr
    BY <2>3, <2>6 DEF GetServerAddr, Query, etcdVars
  <2> QED
    BY <2>1, <2>2, <2>4, <2>5, <2>6, <2>7 DEF Next
<1> QED
  BY <1>1, <1>2, AlwaysIInv, PTL DEF Spec

\* While the watch works, every server in etcd that was listed or reported is in
\* the client's list with its last usage, or a report of it is on its way, in
\* whatever order servers come and go and events are handled.
THEOREM EtcdReflected == Spec => []StoreReflected
<1>1. ReflectInv => StoreReflected
  BY DEF ReflectInv, StoreReflected
<1> QED
  BY <1>1, AlwaysReflectInv, PTL

\* While the watch works, getServerAddr finds an address and dereferences no
\* null node whenever a server in etcd was listed or its report handled: its
\* put made the service known and listed it, and no delete undoes either.
THEOREM RegisteredFound == Spec => RegisteredIsFound
<1> DEFINE Found == GetServerAddr /\ watching
                        /\ (\E s \in Keys \ missed : store[s] # NoUsage /\ NoPut(events, s))
                        => answer' # NoServer /\ ~dead'
<1>1. IInv /\ ReflectInv => Found
  <2> SUFFICES ASSUME IInv, ReflectInv, GetServerAddr, watching,
                      NEW s \in Keys \ missed, store[s] # NoUsage, NoPut(events, s)
               PROVE  answer' # NoServer /\ ~dead'
    OBVIOUS
  <2>1. WillHave(s, store[s]) /\ ~LastPut(events, s, store[s])
    BY DEF ReflectInv, NoPut, LastPut
  <2>2. s \in Listed /\ Listed \subseteq Keys
    BY <2>1 DEF WillHave, Listed
  <2>3. known /\ dpc # "create"
    BY <2>2 DEF IInv, ListedIsKnown
  <2>4. Query /\ dead' = (Listed = {})
    BY <2>3 DEF GetServerAddr
  <2> QED
    BY <2>2, <2>4, DirectoryAssumption DEF Query
<1>2. IInv /\ ReflectInv => [Found]_vars
  BY <1>1
<1> QED
  BY <1>2, AlwaysIInv, AlwaysReflectInv, PTL DEF RegisteredIsFound

-----------------------------------------------------------------------------
(* The cache of connections *)

CallerPcs == {"start", "connect", "insert", "got", "pushed", "returned", "failed"}

\* The part of the types that the argument needs.
CacheTypes ==
    /\ server_conns_ \in Conns \cup {NoConn}
    /\ keepalive_count_ \in Int
    /\ silent \in 0 .. MaxSilent
    /\ cpc \in [Callers -> CallerPcs]
    /\ conn \in [Callers -> Conns \cup {NoConn}]

\* A caller about to insert has opened its connection.
InsertsConnection == \A c \in Callers : cpc[c] = "insert" => conn[c] \in Conns

\* Between the second loop and the critical section nobody else erases.
CountsEntry == kpc \in {"pop", "count"} => server_conns_ # NoConn

\* The count never runs ahead of the silence of the connection that is cached,
\* except when an answer came too late to be noticed: an insertion resets both,
\* an answer that is noticed resets both, and one on another connection only
\* lowers the count.
CountIsSilence ==
    server_conns_ # NoConn => /\ keepalive_count_ < MaxSilent
                              /\ late \/ keepalive_count_ <= silent

CacheInv == CacheTypes /\ InsertsConnection /\ CountsEntry /\ CountIsSilence

\* The empty cache of TcpClient's constructor satisfies the invariant.
LEMMA CacheInitInv == CacheInit => CacheInv
<1> HAVE CacheInit
<1>1. CacheTypes
  BY DEF CacheInit, CacheTypes, CallerPcs, MaxSilent
<1> QED
  BY <1>1 DEF CacheInit, CacheInv, InsertsConnection, CountsEntry, CountIsSilence

\* The locked insertion of getConnection keeps the invariant.
LEMMA InsertCacheInv == ASSUME CacheInv, NEW c \in Callers, Insert(c) PROVE CacheInv'
<1>1. conn[c] \in Conns /\ conn[c] # NoConn
  BY NoConnAssumption DEF CacheInv, InsertsConnection, Insert, CallerAt
<1>2. CacheTypes'
  BY <1>1 DEF CacheInv, CacheTypes, CallerPcs, Insert, MaxSilent, taskVars, connVars
<1>3. InsertsConnection'
  BY DEF CacheInv, CacheTypes, InsertsConnection, Insert
<1>4. CountsEntry'
  BY <1>1 DEF Insert, CountsEntry
<1>5. CountIsSilence'
  BY <1>1 DEF CacheInv, CacheTypes, CountIsSilence, Insert, MaxSilent
<1> QED
  BY <1>2, <1>3, <1>4, <1>5 DEF CacheInv

\* Steps of a caller that leave the cache alone keep the invariant.
LEMMA CallerCacheInv == ASSUME CacheInv, NEW c \in Callers, Caller(c) PROVE CacheInv'
<1>1. CASE Insert(c)
  BY <1>1, InsertCacheInv
<1>2. CASE Connect(c)
  <2>1. PICK k \in Conns : conn' = [conn EXCEPT ![c] = k]
    BY <1>2 DEF Connect
  <2>2. CacheTypes'
    BY <1>2, <2>1 DEF CacheInv, CacheTypes, CallerPcs, Connect, mapVars, ghostVars
  <2>3. InsertsConnection'
    BY <1>2, <2>1 DEF CacheInv, CacheTypes, InsertsConnection, Connect
  <2> QED
    BY <1>2, <2>2, <2>3 DEF CacheInv, CountsEntry, CountIsSilence, Connect, mapVars, taskVars, ghostVars
<1>3. CASE GetCached(c) \/ GetMissing(c) \/ ConnectFails(c) \/ CallFails(c)
           \/ CallPushes(c) \/ CallEnables(c)
  <2>1. UNCHANGED <<mapVars, taskVars, silent, late>>
    BY <1>3 DEF ghostVars, GetCached, GetMissing, ConnectFails, CallFails, CallPushes, CallEnables
  <2>2. /\ cpc' \in [Callers -> CallerPcs]
        /\ conn' \in [Callers -> Conns \cup {NoConn}]
    BY <1>3 DEF CacheInv, CacheTypes, CallerPcs, GetCached, GetMissing, ConnectFails, CallFails, CallPushes, CallEnables
  <2>3. InsertsConnection'
    BY <1>3 DEF CacheInv, CacheTypes, InsertsConnection,
                GetCached, GetMissing, ConnectFails, CallFails, CallPushes, CallEnables
  <2> QED
    BY <2>1, <2>2, <2>3 DEF CacheInv, CacheTypes, CountsEntry, CountIsSilence, mapVars, taskVars
<1> QED
  BY <1>1, <1>2, <1>3 DEF Caller

\* The keepalive task keeps the invariant; what it erases was silent for three
\* rounds, or answered too late.
LEMMA TaskCacheInv ==
    ASSUME CacheInv, Task
    PROVE  /\ CacheInv'
           /\ server_conns_ # NoConn /\ server_conns_' = NoConn
                => silent' >= MaxSilent \/ late
<1>1. CASE TaskBegins \/ TaskPushes \/ TaskWakes \/ TaskPops
  <2>1. UNCHANGED <<mapVars, callVars, silent, late>>
    BY <1>1 DEF ghostVars, TaskBegins, TaskPushes, TaskWakes, TaskPops
  <2>2. CountsEntry'
    BY <1>1, <2>1 DEF CacheInv, CountsEntry, TaskBegins, TaskPushes, TaskWakes, TaskPops, TaskAt, mapVars
  <2> QED
    BY <2>1, <2>2 DEF CacheInv, CacheTypes, InsertsConnection, CountIsSilence, mapVars, callVars
<1>2. CASE TaskCounts
  <2>1. server_conns_ \in Conns
    BY <1>2 DEF CacheInv, CacheTypes, CountsEntry, TaskCounts, TaskAt
  <2>2. /\ silent' \in 0 .. MaxSilent /\ late' = late
        /\ silent' = IF silent < MaxSilent THEN silent + 1 ELSE silent
    BY <1>2 DEF CacheInv, CacheTypes, TaskCounts, MaxSilent
  <2>3. keepalive_count_ < MaxSilent /\ (late \/ keepalive_count_ <= silent)
    BY <2>1, NoConnAssumption DEF CacheInv, CountIsSilence
  <2>4. UNCHANGED <<cpc, conn>> /\ kpc' = "idle"
    BY <1>2 DEF TaskCounts, callVars
  <2>5. CASE server_conns_' = NoConn /\ keepalive_count_' = 0 /\ GivesUp(keepalive_count_ + 1)
    <3>1. silent' >= MaxSilent \/ late
      BY <2>1, <2>2, <2>3, <2>5 DEF CacheInv, CacheTypes, GivesUp, MaxSilent
    <3> QED
      BY <2>2, <2>4, <2>5, <3>1 DEF CacheInv, CacheTypes, InsertsConnection, CountsEntry, CountIsSilence
  <2>6. CASE server_conns_' = server_conns_ /\ keepalive_count_' = keepalive_count_ + 1
             /\ ~GivesUp(keepalive_count_ + 1)
    <3>1. keepalive_count_' \in Int /\ keepalive_count_' < MaxSilent
          /\ (late \/ keepalive_count_' <= silent')
      BY <2>1, <2>2, <2>3, <2>6 DEF CacheInv, CacheTypes, GivesUp, MaxSilent
    <3>2. server_conns_' # NoConn
      BY <2>1, <2>6, NoConnAssumption
    <3> QED
      BY <2>2, <2>4, <2>6, <3>1, <3>2 DEF CacheInv, CacheTypes, InsertsConnection, CountsEntry, CountIsSilence
  <2> QED
    BY <1>2, <2>5, <2>6 DEF TaskCounts
<1> QED
  BY <1>1, <1>2 DEF Task

\* The loop of a connection keeps the invariant: an answer that runs its
\* callback, on whichever connection, only lowers the count, and one that does
\* not is late.
LEMMA LoopCacheInv == ASSUME CacheInv, NEW k \in Conns, LoopThread(k) PROVE CacheInv'
<1>1. CASE SendMessage(k) \/ CloseCallback(k)
  BY <1>1 DEF SendMessage, CloseCallback, CacheInv, CacheTypes, InsertsConnection, CountsEntry,
              CountIsSilence, mapVars, taskVars, callVars, ghostVars
<1>2. ASSUME NEW m \in Keepalives, OnMessage(k, m) PROVE CacheInv'
  <2>1. UNCHANGED <<server_conns_, kpc, cpc, conn>>
    BY <1>2 DEF OnMessage, taskVars, callVars
  <2>2. \/ /\ keepalive_count_' = -1
           /\ (silent' = 0 /\ late' = FALSE) \/ UNCHANGED <<silent, late>>
        \/ /\ keepalive_count_' = keepalive_count_
           /\ (silent' = 0 /\ late' = TRUE) \/ UNCHANGED <<silent, late>>
    BY <1>2 DEF OnMessage, Answered, ghostVars
  <2>3. CacheTypes' /\ CountIsSilence'
    BY <2>1, <2>2 DEF CacheInv, CacheTypes, CountIsSilence, MaxSilent
  <2> QED
    BY <2>1, <2>3 DEF CacheInv, InsertsConnection, CountsEntry
<1> QED
  BY <1>1, <1>2 DEF LoopThread

\* The keepalive task of TcpClient gives a connection up only after three rounds
\* in which no answer came on it at all, or after an answer that came when its
\* callback had been popped, however callers, answers and the task's unlocked
\* loops interleave.
THEOREM OnlySilentDropped == CacheSpec => DropsOnlySilent
<1> DEFINE Keeps == server_conns_ # NoConn /\ server_conns_' = NoConn
                        => silent' >= MaxSilent \/ late
<1>1. CacheInv /\ [CacheNext]_cacheVars => CacheInv' /\ [Keeps]_cacheVars
  <2> SUFFICES ASSUME CacheInv, [CacheNext]_cacheVars PROVE CacheInv' /\ Keeps
    OBVIOUS
  <2>1. ASSUME NEW c \in Callers, Caller(c) PROVE CacheInv' /\ Keeps
    <3>1. server_conns_' = server_conns_ \/ (Insert(c) /\ server_conns_' = conn[c])
      BY <2>1 DEF Caller, GetCached, GetMissing, ConnectFails, Connect, Insert, CallFails,
                  CallPushes, CallEnables, mapVars
    <3>2. Insert(c) => conn[c] # NoConn
      BY NoConnAssumption DEF CacheInv, InsertsConnection, Insert, CallerAt
    <3> QED
      BY <2>1, <3>1, <3>2, CallerCacheInv
  <2>2. CASE Task
    BY <2>2, TaskCacheInv
  <2>3. ASSUME NEW k \in Conns, LoopThread(k) PROVE CacheInv' /\ Keeps
    <3>1. server_conns_' = server_conns_
      BY <2>3 DEF LoopThread, SendMessage, CloseCallback, OnMessage, mapVars
    <3> QED
      BY <2>3, <3>1, LoopCacheInv
  <2>4. CASE StopLoop \/ CacheAtRest \/ UNCHANGED cacheVars \/ \E k \in Conns : PeerDown(k)
    BY <2>4 DEF StopLoop, CacheAtRest, PeerDown, cacheVars, mapVars, taskVars, callVars, connVars,
                ghostVars, CacheInv, CacheTypes, InsertsConnection, CountsEntry, CountIsSilence
  <2> QED
    BY <2>1, <2>2, <2>3, <2>4 DEF CacheNext
<1> QED
  BY <1>1, CacheInitInv, PTL DEF CacheSpec, DropsOnlySilent
=============================================================================
