----------------------- MODULE ServerNodeManagerProofs -----------------------
(****************************************************************************)
(* Lazy deletion in ServerNodeManager is correct for any servers, usages    *)
(* and threshold: each listed node is in the heap, the queries are those of *)
(* NodeDirectory, and the heap stays bounded.                               *)
(****************************************************************************)
EXTENDS ServerNodeManager, FiniteSetTheorems, TLAPS

\* The fields of ServerNodeManager keep their types.
LEMMA TypeCorrect == Spec => []TypeOK
<1>1. Init => TypeOK
  <2>1. Init => minHeap \in SUBSET NodePtr /\ nodeMap \in SUBSET NodePtr
    BY DEF Init
  <2>2. Init => staleCount \in Nat /\ allocated \in Nat
    BY DEF Init
  <2>3. Init => busy \in BOOLEAN /\ lowest \in Keys \cup {NoServer}
    BY DEF Init
  <2> QED
    BY <2>1, <2>2, <2>3 DEF TypeOK
<1>2. TypeOK /\ [Next]_vars => TypeOK'
  <2> SUFFICES ASSUME TypeOK, [Next]_vars PROVE TypeOK'
    OBVIOUS
  <2>1. ASSUME NEW key \in Keys, NEW cpu \in Usages, UpsertNode(key, cpu) PROVE TypeOK'
    <3>1. [id |-> allocated, key |-> key, cpu_usage |-> cpu] \in NodePtr
      BY DEF TypeOK, NodePtr
    <3> QED
      BY <2>1, <3>1 DEF TypeOK, UpsertNode, RemoveNodeInternal, RebuildHeap, Find
  <2>2. ASSUME NEW key \in Keys, RemoveNode(key) PROVE TypeOK'
    BY <2>2 DEF TypeOK, RemoveNode, RemoveNodeInternal, Find
  <2>3. CASE GetBegin \/ GetReturnNull \/ UNCHANGED vars
    BY <2>3 DEF TypeOK, GetBegin, GetReturnNull, vars
  <2>4. ASSUME NEW n \in minHeap, GetPop(n) \/ GetReturn(n) PROVE TypeOK'
    BY <2>4 DEF TypeOK, GetPop, GetReturn, Popped, NodePtr
  <2> QED
    BY <2>1, <2>2, <2>3, <2>4 DEF Next
<1> QED
  BY <1>1, <1>2, PTL DEF Spec

\* nodeMap stands for a map: it has one node per server.
OneNode == \A n, m \in nodeMap : n.key = m.key => n = m

ListInv == ListedInHeap /\ OneNode

\* One step of ServerNodeManager keeps every listed node in the heap: only
\* getLowestCPUNode takes nodes out, and those are not listed.
LEMMA ListedStep == TypeOK /\ ListInv /\ [Next]_vars => ListInv'
<1> SUFFICES ASSUME TypeOK, ListInv, [Next]_vars PROVE ListInv'
  OBVIOUS
<1>1. ASSUME NEW key \in Keys, NEW cpu \in Usages, UpsertNode(key, cpu) PROVE ListInv'
  BY <1>1 DEF UpsertNode, RemoveNodeInternal, RebuildHeap, Find, ListInv, ListedInHeap, OneNode
<1>2. ASSUME NEW key \in Keys, RemoveNode(key) PROVE ListInv'
  BY <1>2 DEF RemoveNode, RemoveNodeInternal, Find, ListInv, ListedInHeap, OneNode
<1>3. ASSUME NEW n \in minHeap, GetPop(n) \/ GetReturn(n) PROVE ListInv'
  BY <1>3 DEF GetPop, GetReturn, Popped, Valid, Find, ListInv, ListedInHeap, OneNode
<1>4. CASE GetBegin \/ GetReturnNull \/ UNCHANGED vars
  BY <1>4 DEF GetBegin, GetReturnNull, vars, ListInv, ListedInHeap, OneNode
<1> QED
  BY <1>1, <1>2, <1>3, <1>4 DEF Next

\* Every state of ServerNodeManager has its listed nodes in the heap, one per
\* server.
LEMMA AlwaysListInv == Spec => []ListInv
<1>1. Init => ListInv
  BY DEF Init, ListInv, ListedInHeap, OneNode
<1> QED
  BY <1>1, ListedStep, TypeCorrect, PTL DEF Spec

\* Every listed server has its current node in the heap, so that a query of
\* getLowestCPUNode can find it.
THEOREM ListedFound == Spec => []ListedInHeap
<1>1. ListInv => ListedInHeap
  BY DEF ListInv
<1> QED
  BY <1>1, AlwaysListInv, PTL

-----------------------------------------------------------------------------
(* Refinement of NodeDirectory *)

\* The usages are a function on the servers, before and after a step.
LEMMA UsageOfFunction ==
    /\ UsageOf = [k \in Keys |-> UsageOf[k]]
    /\ UsageOf' = [k \in Keys |-> UsageOf'[k]]
<1>1. UsageOf = [k \in Keys |-> UsageOf[k]]
  BY DEF UsageOf
<1>2. UsageOf' = [k \in Keys |-> UsageOf'[k]]
  BY DEF UsageOf
<1> QED
  BY <1>1, <1>2

\* What the map says of a server that it lists, and of one that it does not.
LEMMA UsageOfFound ==
    ASSUME TypeOK, ListInv
    PROVE  /\ \A n \in nodeMap : UsageOf[n.key] = n.cpu_usage
           /\ \A k \in Keys : Find(k) = {} => UsageOf[k] = NoUsage
           /\ \A k \in Keys : UsageOf[k] # NoUsage => \E n \in nodeMap : n.key = k
<1>1. ASSUME NEW n \in nodeMap PROVE UsageOf[n.key] = n.cpu_usage
  <2>1. n.key \in Keys /\ n \in Find(n.key)
    BY DEF TypeOK, NodePtr, Find
  <2>2. (CHOOSE m \in nodeMap : m.key = n.key) = n
    BY DEF ListInv, ListedInHeap, OneNode
  <2> QED
    BY <2>1, <2>2 DEF UsageOf
<1> QED
  BY <1>1 DEF UsageOf, Find

\* A step that leaves the nodes of a server in the map leaves its usage.
LEMMA UsageOfSame ==
    ASSUME NEW k \in Keys,
           \A n : n \in nodeMap' /\ n.key = k <=> n \in nodeMap /\ n.key = k
    PROVE  UsageOf'[k] = UsageOf[k]
<1>1. (CHOOSE n \in nodeMap' : n.key = k) = (CHOOSE n \in nodeMap : n.key = k)
  OBVIOUS
<1>2. Find(k)' = Find(k)
  BY DEF Find
<1>3. UsageOf[k] = IF Find(k) = {} THEN NoUsage
                   ELSE (CHOOSE n \in nodeMap : n.key = k).cpu_usage
  BY DEF UsageOf
<1>4. UsageOf'[k] = IF Find(k)' = {} THEN NoUsage
                    ELSE (CHOOSE n \in nodeMap' : n.key = k).cpu_usage
  BY DEF UsageOf
<1> QED
  BY <1>1, <1>2, <1>3, <1>4

\* upsertNode reports the usage of one server and changes no other's.
LEMMA UpsertReports ==
    ASSUME TypeOK, TypeOK', ListInv, ListInv',
           NEW key \in Keys, NEW cpu \in Usages, UpsertNode(key, cpu)
    PROVE  Directory!Report(key, cpu)
<1> DEFINE newNode == [id |-> allocated, key |-> key, cpu_usage |-> cpu]
<1>1. nodeMap' = (nodeMap \ Find(key)) \cup {newNode} /\ lowest' = lowest
  BY DEF UpsertNode, RemoveNodeInternal
<1>2. UsageOf'[key] = cpu
  <2>1. newNode \in nodeMap' /\ newNode.key = key /\ newNode.cpu_usage = cpu
    BY <1>1
  <2>2. (CHOOSE m \in nodeMap' : m.key = key) = newNode
    BY <2>1 DEF ListInv, ListedInHeap, OneNode
  <2>3. Find(key)' # {}
    BY <2>1 DEF Find
  <2> QED
    BY <2>1, <2>2, <2>3 DEF UsageOf
<1>3. ASSUME NEW k \in Keys, k # key PROVE UsageOf'[k] = UsageOf[k]
  BY <1>1, <1>3, UsageOfSame DEF Find
<1>4. UsageOf' = [UsageOf EXCEPT ![key] = cpu]
  BY <1>2, <1>3, UsageOfFunction
<1> QED
  BY <1>1, <1>4 DEF Directory!Report

\* removeNode withdraws one server and changes no other's usage.
LEMMA RemoveWithdraws ==
    ASSUME NEW key \in Keys, RemoveNode(key)
    PROVE  Directory!Withdraw(key)
<1>1. nodeMap' = nodeMap \ Find(key) /\ lowest' = lowest
  BY DEF RemoveNode, RemoveNodeInternal
<1>2. UsageOf'[key] = NoUsage
  <2>1. Find(key)' = {}
    BY <1>1 DEF Find
  <2> QED
    BY <2>1 DEF UsageOf
<1>3. ASSUME NEW k \in Keys, k # key PROVE UsageOf'[k] = UsageOf[k]
  BY <1>1, <1>3, UsageOfSame DEF Find
<1>4. UsageOf' = [UsageOf EXCEPT ![key] = NoUsage]
  BY <1>2, <1>3, UsageOfFunction
<1> QED
  BY <1>1, <1>4 DEF Directory!Withdraw

\* getLowestCPUNode returns a listed server with the least usage: the top of
\* the heap is below every node of the map, since they are all in the heap.
LEMMA ReturnQueries ==
    ASSUME TypeOK, ListInv, NEW n \in minHeap, GetReturn(n)
    PROVE  Directory!Query
<1>1. n \in nodeMap /\ lowest' = n.key /\ nodeMap' = nodeMap
  BY DEF GetReturn, Valid, Find
<1>2. UsageOf' = UsageOf
  BY <1>1 DEF UsageOf, Find
<1>3. n.key \in Keys /\ n.cpu_usage \in Usages /\ UsageOf[n.key] = n.cpu_usage
  BY <1>1, UsageOfFound DEF TypeOK, NodePtr
<1>4. n.key \in Directory!Listed
  BY <1>3, UsagesAssumption DEF Directory!Listed
<1>5. ASSUME NEW j \in Directory!Listed PROVE UsageOf[n.key] <= UsageOf[j]
  <2>1. PICK m \in nodeMap : m.key = j
    BY <1>5, UsageOfFound DEF Directory!Listed
  <2>2. m \in minHeap /\ UsageOf[j] = m.cpu_usage
    BY <2>1, UsageOfFound DEF ListInv, ListedInHeap, OneNode
  <2> QED
    BY <1>3, <2>2 DEF GetReturn, Top
<1> QED
  BY <1>1, <1>2, <1>4, <1>5 DEF Directory!Query

\* getLowestCPUNode returns null only when no server is listed.
LEMMA ReturnNullQueries ==
    ASSUME TypeOK, ListInv, GetReturnNull
    PROVE  Directory!Query
<1>1. nodeMap = {} /\ nodeMap' = nodeMap /\ lowest' = NoServer
  BY DEF GetReturnNull, ListInv, ListedInHeap, OneNode
<1>2. UsageOf' = UsageOf
  BY <1>1 DEF UsageOf, Find
<1>3. Directory!Listed = {}
  BY <1>1 DEF Directory!Listed, UsageOf, Find
<1> QED
  BY <1>1, <1>2, <1>3 DEF Directory!Query

\* ServerNodeManager with its lazy deletion implements NodeDirectory: replaced
\* and removed nodes that wait in the heap are invisible to the callers of
\* getLowestCPUNode.
THEOREM LazyDeletionInvisible == Spec => ImplementsDirectory
<1>1. Init => Directory!DirInit
  <2> HAVE Init
  <2>1. UsageOf = [k \in Keys |-> NoUsage]
    BY DEF Init, UsageOf, Find
  <2> QED
    BY <2>1 DEF Init, Directory!DirInit
<1>2. TypeOK /\ TypeOK' /\ ListInv /\ ListInv' /\ [Next]_vars
        => [Directory!DirNext]_(Directory!dirVars)
  <2> SUFFICES ASSUME TypeOK, TypeOK', ListInv, ListInv', [Next]_vars
               PROVE  Directory!DirNext \/ UNCHANGED Directory!dirVars
    OBVIOUS
  <2>1. ASSUME NEW key \in Keys, NEW cpu \in Usages, UpsertNode(key, cpu)
        PROVE  Directory!DirNext
    BY <2>1, UpsertReports DEF Directory!DirNext
  <2>2. ASSUME NEW key \in Keys, RemoveNode(key) PROVE Directory!DirNext
    BY <2>2, RemoveWithdraws DEF Directory!DirNext
  <2>3. ASSUME NEW n \in minHeap, GetReturn(n) PROVE Directory!DirNext
    BY <2>3, ReturnQueries DEF Directory!DirNext
  <2>4. CASE GetReturnNull
    BY <2>4, ReturnNullQueries DEF Directory!DirNext
  <2>5. CASE GetBegin \/ UNCHANGED vars \/ \E n \in minHeap : GetPop(n)
    <3>1. nodeMap' = nodeMap /\ lowest' = lowest
      BY <2>5 DEF GetBegin, GetPop, vars
    <3>2. UsageOf' = UsageOf
      BY <3>1 DEF UsageOf, Find
    <3> QED
      BY <3>1, <3>2 DEF Directory!dirVars
  <2> QED
    BY <2>1, <2>2, <2>3, <2>4, <2>5 DEF Next
<1> QED
  BY <1>1, <1>2, TypeCorrect, AlwaysListInv, PTL DEF Spec, ImplementsDirectory, Directory!DirSpec

-----------------------------------------------------------------------------
(* The bound on the heap *)

\* The nodes in the heap that are not listed are counted by staleCount; those
\* that getLowestCPUNode pops leave the count too high, never too low.
StaleCounted ==
    /\ IsFiniteSet(minHeap)
    /\ Cardinality(minHeap \ nodeMap) <= staleCount

\* Nodes with different servers are at most as many as the servers.
LEMMA OnePerServer ==
    ASSUME NEW S \in SUBSET NodePtr, \A n, m \in S : n.key = m.key => n = m
    PROVE  IsFiniteSet(S) /\ Cardinality(S) <= Cardinality(Keys)
<1> DEFINE f == [n \in S |-> n.key]
<1>1. f \in Injection(S, Keys)
  BY DEF Injection, IsInjective, NodePtr
<1> QED
  BY <1>1, FS_Injection, KeysAssumption

\* removeNodeInternal makes at most one more node stale, and counts it.
LEMMA RemovedIsCounted ==
    ASSUME TypeOK, ListInv, StaleCounted, NEW key \in Keys,
           NEW D \in SUBSET ((minHeap \ nodeMap) \cup Find(key))
    PROVE  IsFiniteSet(D) /\ Cardinality(D) \in Nat
           /\ Cardinality(D) <= RemoveNodeInternal(key).stale
<1> DEFINE S == minHeap \ nodeMap
<1>1. IsFiniteSet(S) /\ Cardinality(S) \in Nat /\ Cardinality(S) <= staleCount
  BY FS_Difference, FS_CardinalityType DEF StaleCounted
<1>2. CASE Find(key) = {}
  <2>1. D \in SUBSET S
    BY <1>2
  <2>2. IsFiniteSet(D) /\ Cardinality(D) <= Cardinality(S) /\ Cardinality(D) \in Nat
    BY <1>1, <2>1, FS_Subset, FS_CardinalityType
  <2> QED
    BY <1>1, <1>2, <2>2 DEF RemoveNodeInternal, TypeOK
<1>3. CASE Find(key) # {}
  <2>1. PICK o : Find(key) = {o} /\ o \notin S
    BY <1>3 DEF Find, ListInv, ListedInHeap, OneNode
  <2>2. IsFiniteSet(S \cup {o}) /\ Cardinality(S \cup {o}) = Cardinality(S) + 1
    BY <1>1, <2>1, FS_AddElement
  <2>3. D \in SUBSET (S \cup {o})
    BY <2>1
  <2>4. IsFiniteSet(D) /\ Cardinality(D) <= Cardinality(S) + 1 /\ Cardinality(D) \in Nat
    BY <2>2, <2>3, FS_Subset, FS_CardinalityType
  <2> QED
    BY <1>1, <1>3, <2>4 DEF RemoveNodeInternal, TypeOK
<1> QED
  BY <1>2, <1>3

\* upsertNode rebuilds the heap before the stale nodes reach the threshold.
LEMMA UpsertBounded ==
    ASSUME TypeOK, TypeOK', ListInv, ListInv', StaleCounted,
           NEW key \in Keys, NEW cpu \in Usages, UpsertNode(key, cpu)
    PROVE  StaleCounted' /\ HeapBounded'
<1> DEFINE stale == RemoveNodeInternal(key).stale
<1>1. IsFiniteSet(nodeMap') /\ Cardinality(nodeMap') <= Cardinality(Keys)
      /\ Cardinality(nodeMap') \in Nat /\ Cardinality(Keys) \in Nat
  BY OnePerServer, FS_CardinalityType, KeysAssumption DEF TypeOK, ListInv, ListedInHeap, OneNode
<1>2. CASE NeedsRebuild(stale)
  <2>1. minHeap' = nodeMap' /\ staleCount' = 0
    BY <1>2 DEF UpsertNode, RebuildHeap
  <2>2. Cardinality(minHeap' \ nodeMap') = 0
    BY <2>1, FS_EmptySet
  <2> QED
    BY <1>1, <2>1, <2>2, ThresholdAssumption DEF StaleCounted, HeapBounded
<1>3. CASE ~NeedsRebuild(stale)
  <2> DEFINE D == minHeap' \ nodeMap'
  <2>1. staleCount' = stale /\ stale < staleCountThreshold /\ stale \in Nat
    BY <1>3, ThresholdAssumption DEF UpsertNode, NeedsRebuild, TypeOK, RemoveNodeInternal
  <2>2. D \in SUBSET ((minHeap \ nodeMap) \cup Find(key))
    BY <1>3 DEF UpsertNode, RemoveNodeInternal
  <2>3. IsFiniteSet(D) /\ Cardinality(D) \in Nat /\ Cardinality(D) <= stale
    BY <2>2, RemovedIsCounted
  <2>4. minHeap' = nodeMap' \cup D /\ nodeMap' \cap D = {}
    BY DEF ListInv, ListedInHeap, OneNode
  <2>5. IsFiniteSet(minHeap')
        /\ Cardinality(minHeap') = Cardinality(nodeMap') + Cardinality(D)
    <3>1. Cardinality(nodeMap' \cap D) = 0
      BY <2>4, FS_EmptySet
    <3> HIDE DEF D
    <3>2. IsFiniteSet(nodeMap' \cup D) /\ Cardinality(nodeMap' \cup D)
            = Cardinality(nodeMap') + Cardinality(D) - Cardinality(nodeMap' \cap D)
      BY <1>1, <2>3, FS_Union
    <3> QED
      BY <1>1, <2>3, <2>4, <3>1, <3>2
  <2> QED
    BY <1>1, <2>1, <2>3, <2>5, ThresholdAssumption DEF StaleCounted, HeapBounded
<1> QED
  BY <1>2, <1>3

\* However long servers report and are withdrawn, the heap never holds more
\* nodes than there are servers plus the threshold of ServerNode.h.
THEOREM HeapStaysBounded == Spec => []HeapBounded
<1> DEFINE HInv == StaleCounted /\ HeapBounded
<1>1. Init => HInv
  <2> HAVE Init
  <2>1. Cardinality(minHeap) = 0 /\ Cardinality(minHeap \ nodeMap) = 0 /\ IsFiniteSet(minHeap)
    BY FS_EmptySet DEF Init
  <2>2. Cardinality(Keys) \in Nat
    BY KeysAssumption, FS_CardinalityType
  <2> QED
    BY <2>1, <2>2, ThresholdAssumption DEF Init, StaleCounted, HeapBounded
<1>2. TypeOK /\ TypeOK' /\ ListInv /\ ListInv' /\ HInv /\ [Next]_vars => HInv'
  <2> SUFFICES ASSUME TypeOK, TypeOK', ListInv, ListInv', HInv, [Next]_vars
               PROVE  HInv'
    OBVIOUS
  <2>1. ASSUME NEW key \in Keys, NEW cpu \in Usages, UpsertNode(key, cpu) PROVE HInv'
    BY <2>1, UpsertBounded
  <2>2. ASSUME NEW key \in Keys, RemoveNode(key) PROVE HInv'
    <3>1. minHeap' = minHeap /\ staleCount' = RemoveNodeInternal(key).stale
          /\ nodeMap' = nodeMap \ Find(key)
      BY <2>2 DEF RemoveNode, RemoveNodeInternal
    <3>2. minHeap' \ nodeMap' \in SUBSET ((minHeap \ nodeMap) \cup Find(key))
      BY <3>1
    <3> QED
      BY <3>1, <3>2, RemovedIsCounted DEF StaleCounted, HeapBounded
  <2>3. ASSUME NEW n \in minHeap, GetPop(n) PROVE HInv'
    <3>1. minHeap' \in SUBSET minHeap /\ nodeMap' = nodeMap /\ staleCount' = staleCount
      BY <2>3 DEF GetPop, Popped
    <3>2. IsFiniteSet(minHeap') /\ Cardinality(minHeap') <= Cardinality(minHeap)
          /\ Cardinality(minHeap') \in Nat /\ Cardinality(minHeap) \in Nat
      BY <3>1, FS_Subset, FS_CardinalityType DEF StaleCounted
    <3>3. IsFiniteSet(minHeap \ nodeMap) /\ Cardinality(minHeap \ nodeMap) \in Nat
      BY FS_Difference, FS_CardinalityType DEF StaleCounted
    <3>4. (minHeap' \ nodeMap') \in SUBSET (minHeap \ nodeMap)
      BY <3>1
    <3>5. Cardinality(minHeap' \ nodeMap') <= Cardinality(minHeap \ nodeMap)
          /\ Cardinality(minHeap' \ nodeMap') \in Nat
      BY <3>3, <3>4, FS_Subset, FS_CardinalityType
    <3>6. Cardinality(Keys) \in Nat
      BY KeysAssumption, FS_CardinalityType
    <3> QED
      BY <3>1, <3>2, <3>3, <3>5, <3>6, ThresholdAssumption DEF StaleCounted, HeapBounded, TypeOK
  <2>4. CASE GetBegin \/ GetReturnNull \/ UNCHANGED vars \/ \E n \in minHeap : GetReturn(n)
    BY <2>4 DEF GetBegin, GetReturnNull, GetReturn, vars, StaleCounted, HeapBounded
  <2> QED
    BY <2>1, <2>2, <2>3, <2>4 DEF Next
<1> QED
  BY <1>1, <1>2, TypeCorrect, AlwaysListInv, PTL DEF Spec
=============================================================================
