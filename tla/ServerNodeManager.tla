------------------------- MODULE ServerNodeManager -------------------------
(****************************************************************************)
(* ServerNodeManager (src/common/ServerNode.h): a map from server to node   *)
(* and a min-heap of nodes ordered by CPU usage, from which replaced and    *)
(* removed nodes are deleted lazily.                                        *)
(*                                                                          *)
(* A NodePtr is a record with an id, since two nodes with the same fields   *)
(* are different pointers.  The heap is the set of the pointers it holds;   *)
(* its top is any one with the least usage.  Every method runs under        *)
(* rwMutex, so upsertNode and removeNode are one step each;                 *)
(* getLowestCPUNode is one step per turn of its loop, during which `busy`   *)
(* (the lock) keeps the others out.                                         *)
(****************************************************************************)
EXTENDS Naturals, FiniteSets

CONSTANTS
    Keys, Usages, NoUsage, NoServer,
    staleCountThreshold,
    MaxNodes            \* bound: nodes ever allocated

ASSUME UsagesAssumption == Usages \subseteq Nat /\ NoUsage \notin Usages
ASSUME KeysAssumption == IsFiniteSet(Keys) /\ NoServer \notin Keys
ASSUME ThresholdAssumption == staleCountThreshold \in Nat \ {0}

VARIABLES
    minHeap,        \* pointers in the heap
    nodeMap,        \* pointers of the listed servers, the values of the map
    staleCount,
    busy,           \* a call of getLowestCPUNode holds rwMutex
    lowest,         \* server returned by its last call
    allocated       \* nodes allocated so far

vars == <<minHeap, nodeMap, staleCount, busy, lowest, allocated>>

NodePtr == [id : Nat, key : Keys, cpu_usage : Usages]

TypeOK ==
    /\ minHeap \in SUBSET NodePtr
    /\ nodeMap \in SUBSET NodePtr
    /\ staleCount \in Nat
    /\ busy \in BOOLEAN
    /\ lowest \in Keys \cup {NoServer}
    /\ allocated \in Nat

Init ==
    /\ minHeap = {}
    /\ nodeMap = {}
    /\ staleCount = 0
    /\ busy = FALSE
    /\ lowest = NoServer
    /\ allocated = 0

-----------------------------------------------------------------------------
\* nodeMap.find(key), as the set of pointers found: none or one.
Find(key) == {n \in nodeMap : n.key = key}

\* removeNodeInternal: the pair of what it leaves in nodeMap and staleCount.
RemoveNodeInternal(key) ==
    [map |-> nodeMap \ Find(key),
     stale |-> IF Find(key) = {} THEN staleCount ELSE staleCount + 1]

\* Mutant: one stale node too late.
NeedsRebuildLate(stale) == stale > staleCountThreshold

NeedsRebuild(stale) == stale >= staleCountThreshold

\* rebuildHeap: the nodes of the map, and nothing stale.
RebuildHeap(map) == [heap |-> map, stale |-> 0]

\* Mutant: the heap is rebuilt before the map has the new node.
UpsertNodeMapLast(key, cpu) ==
    LET newNode == [id |-> allocated, key |-> key, cpu_usage |-> cpu]
        removed == RemoveNodeInternal(key)
        rebuild == NeedsRebuild(removed.stale)
    IN /\ ~busy
       /\ allocated < MaxNodes
       /\ allocated' = allocated + 1
       /\ nodeMap' = removed.map \cup {newNode}
       /\ minHeap' = IF rebuild THEN RebuildHeap(removed.map).heap ELSE minHeap \cup {newNode}
       /\ staleCount' = IF rebuild THEN RebuildHeap(removed.map).stale ELSE removed.stale
       /\ UNCHANGED <<busy, lowest>>

\* The heap has just got newNode, so `!minHeap.empty()` holds.
UpsertNode(key, cpu) ==
    LET newNode == [id |-> allocated, key |-> key, cpu_usage |-> cpu]
        removed == RemoveNodeInternal(key)
        map     == removed.map \cup {newNode}
        rebuild == NeedsRebuild(removed.stale)
    IN /\ ~busy
       /\ allocated < MaxNodes
       /\ allocated' = allocated + 1
       /\ nodeMap' = map
       /\ minHeap' = IF rebuild THEN RebuildHeap(map).heap ELSE minHeap \cup {newNode}
       /\ staleCount' = IF rebuild THEN RebuildHeap(map).stale ELSE removed.stale
       /\ UNCHANGED <<busy, lowest>>

RemoveNode(key) ==
    /\ ~busy
    /\ nodeMap' = RemoveNodeInternal(key).map
    /\ staleCount' = RemoveNodeInternal(key).stale
    /\ UNCHANGED <<minHeap, busy, lowest, allocated>>

-----------------------------------------------------------------------------
(* getLowestCPUNode *)

Top(n) == n \in minHeap /\ \A m \in minHeap : n.cpu_usage <= m.cpu_usage

\* Mutant: a node is valid when its server is listed.
ValidByKey(n) == Find(n.key) # {}

\* The map has this very pointer for the node's key.
Valid(n) == n \in Find(n.key)

\* Mutant: the loop does not pop.
NotPopped(n) == minHeap

Popped(n) == minHeap \ {n}

GetBegin ==
    /\ ~busy
    /\ busy' = TRUE
    /\ UNCHANGED <<minHeap, nodeMap, staleCount, lowest, allocated>>

\* The top is no longer valid: pop it.
GetPop(n) ==
    /\ busy
    /\ Top(n)
    /\ ~Valid(n)
    /\ minHeap' = Popped(n)
    /\ UNCHANGED <<nodeMap, staleCount, busy, lowest, allocated>>

GetReturn(n) ==
    /\ busy
    /\ Top(n)
    /\ Valid(n)
    /\ lowest' = n.key
    /\ busy' = FALSE
    /\ UNCHANGED <<minHeap, nodeMap, staleCount, allocated>>

GetReturnNull ==
    /\ busy
    /\ minHeap = {}
    /\ lowest' = NoServer
    /\ busy' = FALSE
    /\ UNCHANGED <<minHeap, nodeMap, staleCount, allocated>>

Next ==
    \/ \E key \in Keys, cpu \in Usages : UpsertNode(key, cpu)
    \/ \E key \in Keys : RemoveNode(key)
    \/ GetBegin
    \/ \E n \in minHeap : GetPop(n) \/ GetReturn(n)
    \/ GetReturnNull

Spec == Init /\ [][Next]_vars

FairSpec == Spec /\ WF_vars(\E n \in minHeap : GetPop(n) \/ GetReturn(n)) /\ WF_vars(GetReturnNull)

-----------------------------------------------------------------------------
(* Properties *)

\* Lazy deletion keeps the heap small however long servers are reported and
\* withdrawn: replaced nodes wait in the heap, but never staleCountThreshold
\* of them beyond the number of servers.
HeapBounded == Cardinality(minHeap) < Cardinality(Keys) + staleCountThreshold

\* The current node of every listed server is in the heap, so that a query can
\* find it: upsertNode pushes it, a rebuild takes it over, and the query pops
\* nodes only after they were replaced or removed.
ListedInHeap == nodeMap \subseteq minHeap

\* The usages the map stands for.
UsageOf == [k \in Keys |-> IF Find(k) = {} THEN NoUsage
                           ELSE (CHOOSE n \in nodeMap : n.key = k).cpu_usage]

Directory == INSTANCE NodeDirectory WITH usage <- UsageOf, answer <- lowest

\* Lazy deletion is invisible: getLowestCPUNode returns a listed server whose
\* last reported usage is the least, or none when none is listed.
ImplementsDirectory == Directory!DirSpec

\* A query returns: its loop pops only nodes that are not listed, and ends.
QueryReturns == busy ~> ~busy
=============================================================================
