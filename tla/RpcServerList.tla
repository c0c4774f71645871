---------------------------- MODULE RpcServerList ----------------------------
(****************************************************************************)
(* How a client learns which servers there are: servers register in etcd    *)
(* (RpcDispatcher::registerService, src/common/RpcRegistry.h), the client   *)
(* lists and then watches the directory (src/common/RpcDiscovery.h) and     *)
(* keeps a ServerNodeManager per service (src/common/RpcServerList.cpp).    *)
(*                                                                          *)
(* The model follows one service.  Its ServerNodeManager is taken at its    *)
(* specification, NodeDirectory, whose operations are steps of this module. *)
(* etcd and its client library (store, watching, events) are external: keys *)
(* vanish with their lease, a watch reports what happens after it began,    *)
(* and a delete event carries the key without a value.                      *)
(****************************************************************************)
EXTENDS NodeDirectory, Sequences

CONSTANTS
    MaxStarts,      \* bound: how often servers are started
    MaxEvents       \* bound: events under way

ASSUME DirectoryAssumption == NoUsage \notin Usages /\ NoServer \notin Keys
ASSUME BoundsAssumption == MaxStarts \in Nat /\ MaxEvents \in Nat \ {0}

VARIABLES
    running,        \* servers whose process runs
    starts,         \* how many were started
    store,          \* the usage in each server's key, NoUsage without a key
    watching,       \* etcd reports to the watch
    events,         \* reported and not yet handled by callBack
    dpc,            \* RpcDiscovery: "ls", "list", "watch", or "create" inside a put
    listing,        \* pairs of the listing still to be handled
    known,          \* server_list has the service
    missed,         \* ghost: servers whose last put was neither listed nor reported
    dead            \* a null node was dereferenced

etcdVars == <<running, starts, store, watching, missed>>
vars     == <<etcdVars, events, dpc, listing, known, dead, dirVars>>

Event == [type : {"PUT"}, key : Keys, val : Usages]
         \cup [type : {"DELETE"}, key : Keys, val : {NoUsage}]

TypeOK ==
    /\ running \in SUBSET Keys
    /\ starts \in 0 .. MaxStarts
    /\ store \in [Keys -> Usages \cup {NoUsage}]
    /\ watching \in BOOLEAN
    /\ events \in Seq(Event) /\ Len(events) <= MaxEvents
    /\ dpc \in {"ls", "list", "watch", "create"}
    /\ listing \in SUBSET (Keys \X Usages)
    /\ known \in BOOLEAN
    /\ missed \in SUBSET Keys
    /\ dead \in BOOLEAN
    /\ usage \in [Keys -> Usages \cup {NoUsage}]
    /\ answer \in Keys \cup {NoServer}

Init ==
    /\ running = {} /\ starts = 0
    /\ store = [s \in Keys |-> NoUsage]
    /\ watching = FALSE /\ missed = {}
    /\ events = <<>> /\ listing = {}
    /\ dpc = "ls"
    /\ known = FALSE /\ dead = FALSE
    /\ DirInit

-----------------------------------------------------------------------------
(* Servers and etcd *)

\* etcd reports a change of the directory, if there is a watch.
Notify(e) == events' = IF watching THEN Append(events, e) ELSE events

\* The share of busy time in /proc/stat since the call before: anything, as far
\* as the list is concerned.
CpuUsage == Usages

\* Two samples, three seconds apart; the first one is dropped.
GetCpuUsage == CpuUsage

\* RpcRegistry::registry puts the key with the lease, or fails.
Registry(s, u) ==
    \/ /\ store' = [store EXCEPT ![s] = u]
       /\ Notify([type |-> "PUT", key |-> s, val |-> u])
       /\ missed' = IF watching \/ dpc = "ls" THEN missed \ {s} ELSE missed \cup {s}
    \/ UNCHANGED <<store, events, missed>>

\* registerService, once per process; the server runs even if it fails.
RegisterService(s) ==
    /\ s \notin running /\ starts < MaxStarts /\ Len(events) < MaxEvents
    /\ running' = running \cup {s}
    /\ starts' = starts + 1
    /\ \E u \in GetCpuUsage : Registry(s, u)
    /\ UNCHANGED <<watching, dpc, listing, known, dead, dirVars>>

\* The process ends: the lease is no longer kept alive.
ServerEnds(s) ==
    /\ s \in running
    /\ running' = running \ {s}
    /\ UNCHANGED <<starts, store, watching, missed, events, dpc, listing, known, dead, dirVars>>

\* The lease of the key runs out, after the server has ended or because its
\* keepalive was late; nobody puts the key again.
LeaseExpires(s) ==
    /\ store[s] # NoUsage /\ Len(events) < MaxEvents
    /\ store' = [store EXCEPT ![s] = NoUsage]
    /\ Notify([type |-> "DELETE", key |-> s, val |-> NoUsage])
    /\ UNCHANGED <<running, starts, watching, missed, dpc, listing, known, dead, dirVars>>

-----------------------------------------------------------------------------
(* RpcDiscovery and the callbacks of RpcServerList *)

\* The constructor lists the directory; a failed listing is empty.
Ls ==
    /\ dpc = "ls"
    /\ dpc' = "list"
    /\ \/ /\ listing' = {<<s, store[s]>> : s \in {r \in Keys : store[r] # NoUsage}}
          /\ UNCHANGED missed
       \/ /\ listing' = {}
          /\ missed' = {r \in Keys : store[r] # NoUsage}
    /\ UNCHANGED <<running, starts, store, watching, events, known, dead, dirVars>>

\* getServerNodeCallBack from the constructor, while nobody has the singleton.
ListPut(s, u) ==
    /\ dpc = "list" /\ <<s, u>> \in listing
    /\ listing' = listing \ {<<s, u>>}
    /\ known' = TRUE
    /\ Report(s, u)
    /\ UNCHANGED <<etcdVars, events, dpc, dead>>

\* The watch begins with what happens from now on, not with the listing.
WatchBegins ==
    /\ dpc = "list" /\ listing = {}
    /\ dpc' = "watch"
    /\ watching' = TRUE
    /\ UNCHANGED <<running, starts, store, missed, events, listing, known, dead, dirVars>>

\* The watch ends with an error, which callBack only logs; nobody begins it
\* again.  Events that have not reached the client, any number of the latest,
\* are lost; the one inside callBack is there.
WatchBreaks ==
    /\ watching /\ ~dead
    /\ watching' = FALSE
    /\ \E n \in 0 .. Len(events) :
        /\ dpc = "create" => n > 0
        /\ events' = SubSeq(events, 1, n)
    /\ UNCHANGED <<running, starts, store, missed, dpc, listing, known, dead, dirVars>>

Handling(type) == dpc = "watch" /\ ~dead /\ events # <<>> /\ Head(events).type = type

\* parseukv: ip and port come from the value; without one they stay unset, and
\* name no server.
Parseukv(e) == IF e.val = NoUsage THEN NoServer ELSE e.key

\* Mutant: the first node of a service is not put.
PutCreatesOnly ==
    /\ Handling("PUT") /\ ~known
    /\ known' = TRUE
    /\ dpc' = "watch"
    /\ events' = Tail(events)
    /\ UNCHANGED <<etcdVars, listing, dead, dirVars>>

\* The first put of the service makes its ServerNodeManager, ...
PutCreates ==
    /\ Handling("PUT") /\ ~known
    /\ known' = TRUE
    /\ dpc' = "create"
    /\ UNCHANGED <<etcdVars, events, listing, dead, dirVars>>

\* ... and then, like every later put, upserts the node.
PutUpserts ==
    /\ ~dead
    /\ dpc = "create" \/ (Handling("PUT") /\ known)
    /\ Report(Parseukv(Head(events)), Head(events).val)
    /\ events' = Tail(events)
    /\ dpc' = "watch"
    /\ UNCHANGED <<etcdVars, listing, known, dead>>

\* Mutant: a delete takes the whole service off server_list.
DelServerNodeErases ==
    /\ Handling("DELETE")
    /\ known' = FALSE
    /\ usage' = [s \in Keys |-> NoUsage]
    /\ events' = Tail(events)
    /\ UNCHANGED <<etcdVars, dpc, listing, dead, answer>>

\* delServerNodeCallBack: removeNode finds a node only for a server.
DelServerNode ==
    /\ Handling("DELETE")
    /\ IF known /\ Parseukv(Head(events)) \in Keys
       THEN Withdraw(Parseukv(Head(events)))
       ELSE UNCHANGED dirVars
    /\ events' = Tail(events)
    /\ UNCHANGED <<etcdVars, dpc, listing, known, dead>>

-----------------------------------------------------------------------------
\* getServerAddr, in any thread of the client once the singleton exists: no
\* address for an unknown service; otherwise the node found is dereferenced.
\* server_list has no lock: a lookup may miss an entry that is being made.
GetServerAddr ==
    /\ dpc \in {"watch", "create"} /\ ~dead
    /\ \/ /\ ~known \/ dpc = "create"
          /\ answer' = NoServer
          /\ UNCHANGED <<usage, dead>>
       \/ /\ known
          /\ Query
          /\ dead' = (Listed = {})
    /\ UNCHANGED <<etcdVars, events, dpc, listing, known>>

\* The client's process has ended; servers may go on.
AtRest == dead /\ UNCHANGED vars

Callback == PutCreates \/ PutUpserts \/ DelServerNode

Constructor == Ls \/ (\E s \in Keys, u \in Usages : ListPut(s, u)) \/ WatchBegins

Next ==
    \/ \E s \in Keys : RegisterService(s) \/ ServerEnds(s) \/ LeaseExpires(s)
    \/ Constructor
    \/ Callback
    \/ WatchBreaks
    \/ GetServerAddr
    \/ AtRest

Spec == Init /\ [][Next]_vars

FairSpec == Spec /\ WF_vars(Constructor) /\ WF_vars(Callback)

-----------------------------------------------------------------------------
(* Properties *)

PutOf(e, s) == e.type = "PUT" /\ e.key = s

\* The last put of server s among the events q says u.
LastPut(q, s, u) ==
    \E i \in 1 .. Len(q) :
        PutOf(q[i], s) /\ q[i].val = u /\ \A j \in i + 1 .. Len(q) : ~PutOf(q[j], s)

NoPut(q, s) == \A i \in 1 .. Len(q) : ~PutOf(q[i], s)

\* The client lists server s with usage u once it has handled what is reported.
WillHave(s, u) == LastPut(events, s, u) \/ (NoPut(events, s) /\ usage[s] = u)

\* While the watch works, the client has or is about to have the usage of every
\* server in etcd, except for puts in the gap between listing and watch and
\* after a failed listing.
StoreReflected ==
    watching => \A s \in Keys \ missed : store[s] # NoUsage => WillHave(s, store[s])

\* While the watch works, getServerAddr finds an address, and dereferences no
\* null node, whenever some server in etcd was listed or its report handled,
\* whatever deletes and relistings came between.
RegisteredIsFound ==
    [][GetServerAddr /\ watching
        /\ (\E s \in Keys \ missed : store[s] # NoUsage /\ NoPut(events, s))
        => answer' # NoServer /\ ~dead']_vars

\* A server that registers while the client watches is listed in the end, in
\* whatever order registrations, expiries and queries come, unless the watch
\* breaks before: what was under way then may never arrive.
NewServerListed ==
    \A s \in Keys :
        [](watching /\ store[s] # NoUsage /\ s \notin missed
            => <>(s \in Listed \/ dead \/ ~watching))

-----------------------------------------------------------------------------
(* What the source says and the model refutes *)

\* "server {} down" (RpcServerList.cpp:53): the callback for a server whose key
\* is gone takes it out of the list.
DownIsDelisted == [][DelServerNode => usage'[Head(events).key] = NoUsage]_vars

\* RpcServerList.cpp:19 takes it that there is a node.
NodeNeverNull == ~dead

\* RpcDiscovery's constructor leaves nobody out.
NoneMissed == watching => missed = {}
=============================================================================
