---------------------------- MODULE FlowPlanProofs ----------------------------
(***************************************************************************)
(* Theorems about FlowPlan, for every set of flow definitions: any size,   *)
(* any cycles, any parallel edges.                                         *)
(***************************************************************************)
EXTENDS FlowPlan, FlowGraphProofs, FiniteSetTheorems, SequenceTheorems

\* A flow has finitely many edges, so they can be counted.
LEMMA EdgesAreFinite ==
  ASSUME NEW f, IsFlow(f), NEW n
  PROVE  IsFiniteSet(Into(f, n)) /\ Cardinality(Into(f, n)) \in Nat
<1> DEFINE Pair == NodesOf(f) \X NodesOf(f)
           Triple == Pair \X Ports
           Edge == [from : NodesOf(f), to : NodesOf(f), port : Ports]
           g == [p \in Triple |-> [from |-> p[1][1], to |-> p[1][2], port |-> p[2]]]
<1>1. IsFiniteSet(NodesOf(f))
  BY FS_Interval DEF NodesOf, IsFlow
<1>2. IsFiniteSet(Ports)
  <2>1. Ports = (({"none"} \cup {"true"}) \cup ({"false"} \cup {"error"})) \cup {"ref"}
    BY DEF Ports
  <2> QED
    BY <2>1, FS_Singleton, FS_Union
<1>3. IsFiniteSet(Triple)
  BY <1>1, <1>2, FS_Product
<1>4. g \in Surjection(Triple, Edge)
  <2>1. g \in [Triple -> Edge]
    OBVIOUS
  <2>2. ASSUME NEW e \in Edge PROVE \E p \in Triple : g[p] = e
    <3>1. <<<<e.from, e.to>>, e.port>> \in Triple
      OBVIOUS
    <3>2. g[<<<<e.from, e.to>>, e.port>>] = e
      BY <3>1
    <3> QED
      BY <3>1, <3>2
  <2> QED
    BY <2>1, <2>2 DEF Surjection
<1>5. IsFiniteSet(Edge)
  BY <1>3, <1>4, FS_Surjection
<1>6. Into(f, n) \in SUBSET Edge
  BY DEF Into, ExecEdges, IsFlow
<1> QED
  BY <1>5, <1>6, FS_Subset, FS_CardinalityType

\* What depends on the flow alone stays.
LEMMA PlanFlowStays ==
  ASSUME flow' = flow
  PROVE  Looped' = Looped /\ Runnable(flow)' = Runnable(flow)
BY DEF Looped

\* A node is appended to the plan: it was not in it, and either all its inputs are,
\* or it is looped.
LEMMA AppendedKeeps ==
  ASSUME PlanTypeOK, PlanInv, flow' = flow, NEW n \in Runnable(flow), n \notin Ordered,
         orderedIDs' = Append(orderedIDs, n),
         n \in Looped \/ Unplanned(n) = {}
  PROVE  /\ orderedIDs' \in Seq(Runnable(flow))
         /\ Ordered' = Ordered \cup {n}
         /\ NoDuplicates' /\ PlanIsTopological'
<1> DEFINE k == Len(orderedIDs)
<1>1. /\ k \in Nat /\ DOMAIN orderedIDs = 1..k
      /\ orderedIDs' \in Seq(Runnable(flow))
      /\ DOMAIN orderedIDs' = 1..(k + 1)
      /\ \A i \in 1..k : orderedIDs'[i] = orderedIDs[i]
      /\ orderedIDs'[k + 1] = n
  <2>1. orderedIDs \in Seq(Runnable(flow))
    BY DEF PlanTypeOK
  <2>2. k \in Nat /\ DOMAIN orderedIDs = 1..k
    BY <2>1, LenProperties
  <2>3. /\ orderedIDs' \in Seq(Runnable(flow)) /\ Len(orderedIDs') = k + 1
        /\ \A i \in 1..k : orderedIDs'[i] = orderedIDs[i]
        /\ orderedIDs'[k + 1] = n
    BY <2>1, AppendProperties
  <2> QED
    BY <2>2, <2>3, LenProperties
<1> HIDE DEF k
<1>2. \A i \in 1..(k + 1) : i \in 1..k \/ i = k + 1
  BY <1>1
<1>3. Ordered' = Ordered \cup {n}
  <2>1. \A i \in 1..k : i \in 1..(k + 1)
    BY <1>1
  <2>2. k + 1 \in 1..(k + 1)
    BY <1>1
  <2> QED
    BY <1>1, <1>2, <2>1, <2>2 DEF Ordered
<1>4. \A i \in 1..k : orderedIDs[i] # n
  BY <1>1 DEF Ordered
<1>5. NoDuplicates'
  BY <1>1, <1>2, <1>4 DEF PlanInv, PlanIsSound, NoDuplicates
<1>6. PlanIsTopological'
  <2> SUFFICES ASSUME NEW e \in ExecEdges(flow), e.to \notin Looped,
                      NEW j \in 1..(k + 1), orderedIDs'[j] = e.to
               PROVE  \E i \in 1..(j - 1) : orderedIDs'[i] = e.from
    BY <1>1, PlanFlowStays DEF PlanIsTopological
  <2>1. CASE j = k + 1
    <3>1. e \in Into(flow, n) /\ e \notin Unplanned(n)
      BY <1>1, <2>1 DEF Into
    <3>2. e.from \in Ordered
      BY <3>1 DEF Unplanned
    <3>3. PICK i \in 1..k : orderedIDs[i] = e.from
      BY <1>1, <3>2 DEF Ordered
    <3>4. i \in 1..(j - 1)
      BY <1>1, <2>1
    <3> QED
      BY <1>1, <3>3, <3>4
  <2>2. CASE j \in 1..k
    <3>1. PICK i \in 1..(j - 1) : orderedIDs[i] = e.from
      BY <1>1, <2>2 DEF PlanInv, PlanIsSound, PlanIsTopological
    <3>2. i \in 1..k
      BY <1>1, <2>2
    <3> QED
      BY <1>1, <3>1, <3>2
  <2> QED
    BY <1>2, <2>1, <2>2
<1> QED
  BY <1>1, <1>3, <1>5, <1>6

\* A set of nodes that all have an edge from a node of the set is looped.
LEMMA LoopedIsLargest ==
  ASSUME NEW S \in SUBSET Runnable(flow), \A n \in S : \E e \in Into(flow, n) : e.from \in S
  PROVE  S \subseteq Looped
BY DEF Looped

\* When every node outside a set P has an edge from outside P, they are all looped.
LEMMA RestIsLooped ==
  ASSUME NEW P, \A n \in Runnable(flow) \ P : \E e \in Into(flow, n) : e.from \notin P
  PROVE  Runnable(flow) \ P \subseteq Looped
<1> DEFINE S == Runnable(flow) \ P
<1>1. \A n \in S : \E e \in Into(flow, n) : e.from \in S
  BY DEF Into, ExecEdges
<1> QED
  BY <1>1, LoopedIsLargest

\* The initial counts and the initial queue.
LEMMA InitPlan == PlanInit => PlanTypeOK /\ PlanInv
<1> SUFFICES ASSUME PlanInit PROVE PlanTypeOK /\ PlanInv
  OBVIOUS
<1>1. IsFlow(flow)
  BY FlowsAssumption DEF PlanInit
<1>2. \A n \in Runnable(flow) : /\ indegree[n] = Cardinality(Into(flow, n))
                                /\ indegree[n] \in Nat
                                /\ indegree[n] = 0 <=> n \in queue
  BY <1>1, EdgesAreFinite, FS_EmptySet DEF PlanInit, Roots
<1>3. Ordered = {}
  BY DEF PlanInit, Ordered
<1>4. \A n : Unplanned(n) = Into(flow, n)
  BY <1>3 DEF Unplanned
<1>5. PlanTypeOK
  <2>1. <<>> \in Seq(Runnable(flow))
    OBVIOUS
  <2> QED
    BY <1>1, <1>2, <2>1 DEF PlanInit, PlanTypeOK, Roots
<1>6. PlanIsSound
  BY DEF PlanInit, PlanIsSound, NoDuplicates, PlanIsComplete, PlanIsTopological
<1>7. queue = {} => Runnable(flow) \ Ordered \subseteq Looped
  <2>1. queue = {} => \A n \in Runnable(flow) \ {} : \E e \in Into(flow, n) : e.from \notin {}
    BY DEF PlanInit, Roots
  <2> QED
    BY <1>3, <2>1, RestIsLooped
<1> QED
  BY <1>2, <1>3, <1>4, <1>5, <1>6, <1>7 DEF PlanInv, PlanInit

\* The edges that do not count any more when a node is planned.
LEMMA UnplannedShrinks ==
  ASSUME PlanTypeOK, flow' = flow, NEW n, n \notin Ordered, Ordered' = Ordered \cup {n},
         NEW m \in Runnable(flow)
  PROVE  /\ IsFiniteSet(Unplanned(m)') /\ Cardinality(Unplanned(m)') \in Nat
         /\ Cardinality(Unplanned(m)')
              = Cardinality(Unplanned(m)) - Cardinality(OutOf(flow, n) \cap Into(flow, m))
         /\ Unplanned(m)' \subseteq Unplanned(m)
<1> DEFINE U == Unplanned(m)
           D == OutOf(flow, n) \cap Into(flow, m)
<1>1. IsFiniteSet(U)
  BY EdgesAreFinite, FS_Subset DEF Unplanned, PlanTypeOK
<1>2. Unplanned(m)' = U \ D
  BY DEF Unplanned, OutOf, Into
<1>3. U \cap D = D
  BY DEF Unplanned, OutOf, Into
<1> HIDE DEF U, D
<1>4. IsFiniteSet(U \ D) /\ Cardinality(U \ D) = Cardinality(U) - Cardinality(D)
  BY <1>1, <1>3, FS_Difference
<1> QED
  BY <1>2, <1>4, FS_CardinalityType DEF U, D

\* A node leaves the queue.
LEMMA PopKeeps == PlanTypeOK /\ PlanInv /\ Pop => PlanTypeOK' /\ PlanInv'
<1> SUFFICES ASSUME PlanTypeOK, PlanInv, Pop PROVE PlanTypeOK' /\ PlanInv'
  OBVIOUS
<1> DEFINE n == First(flow, queue)
           Joins == {m \in Runnable(flow) : indegree[m] > 0 /\ indegree'[m] = 0}
<1>1. /\ queue # {} /\ UNCHANGED <<flow, done>> /\ Relax(n)
      /\ orderedIDs' = Append(orderedIDs, n)
      /\ queue' = (queue \ {n}) \cup Joins
  BY DEF Pop
<1>2. n \in queue /\ n \in Runnable(flow)
  BY <1>1, FlowFacts, FirstIsFirst DEF PlanTypeOK
<1> HIDE DEF n
<1>3. \A m \in Runnable(flow) : /\ indegree[m] = Cardinality(Unplanned(m))
                                /\ indegree[m] \in Nat
                                /\ indegree[m] = 0 <=> m \in queue \cup Ordered
  BY <1>1 DEF PlanInv, PlanTypeOK
<1>4. n \notin Ordered
  BY <1>2 DEF PlanInv
<1>5. Unplanned(n) = {}
  <2>1. IsFiniteSet(Unplanned(n))
    BY EdgesAreFinite, FS_Subset DEF Unplanned, PlanTypeOK
  <2>2. Cardinality(Unplanned(n)) = 0
    BY <1>2, <1>3
  <2> QED
    BY <2>1, <2>2, FS_EmptySet
<1>6. /\ orderedIDs' \in Seq(Runnable(flow)) /\ Ordered' = Ordered \cup {n}
      /\ NoDuplicates' /\ PlanIsTopological'
  BY <1>1, <1>2, <1>4, <1>5, AppendedKeeps
<1>7. ASSUME NEW m \in Runnable(flow)
      PROVE  /\ indegree'[m] = Cardinality(Unplanned(m)')
             /\ indegree'[m] \in Nat /\ indegree'[m] <= indegree[m]
             /\ indegree'[m] = 0 <=> Unplanned(m)' = {}
  <2>1. indegree'[m] = indegree[m] - Cardinality(OutOf(flow, n) \cap Into(flow, m))
    BY <1>1 DEF Relax
  <2>2. /\ IsFiniteSet(Unplanned(m)') /\ Cardinality(Unplanned(m)') \in Nat
        /\ Cardinality(Unplanned(m)')
             = Cardinality(Unplanned(m)) - Cardinality(OutOf(flow, n) \cap Into(flow, m))
        /\ Unplanned(m)' \subseteq Unplanned(m)
    BY <1>1, <1>4, <1>6, UnplannedShrinks
  <2>3. IsFiniteSet(Unplanned(m))
    BY EdgesAreFinite, FS_Subset DEF Unplanned, PlanTypeOK
  <2>4. Cardinality(Unplanned(m)') <= Cardinality(Unplanned(m))
    BY <2>2, <2>3, FS_Subset
  <2> QED
    BY <1>3, <2>1, <2>2, <2>4, FS_EmptySet
<1>8. \A m \in Runnable(flow) : indegree'[m] = 0 <=> m \in queue' \cup Ordered'
  <2>1. ASSUME NEW m \in Runnable(flow), indegree[m] = 0
        PROVE  indegree'[m] = 0 /\ m \in queue' \cup Ordered'
    <3>1. indegree'[m] = 0
      BY <1>3, <1>7, <2>1
    <3>2. m \in queue \cup Ordered
      BY <1>3, <2>1
    <3> QED
      BY <1>1, <1>6, <3>1, <3>2
  <2>2. ASSUME NEW m \in Runnable(flow), indegree[m] # 0
        PROVE  indegree'[m] = 0 <=> m \in queue' \cup Ordered'
    <3>1. m \notin queue \cup Ordered /\ indegree[m] > 0 /\ m # n
      BY <1>2, <1>3, <2>2
    <3> QED
      BY <1>1, <1>6, <3>1
  <2> QED
    BY <2>1, <2>2
<1>9. queue' \cap Ordered' = {}
  BY <1>1, <1>2, <1>3, <1>6 DEF PlanInv
<1>10. PlanTypeOK'
  <2>1. indegree' \in [Runnable(flow) -> Nat]
    BY <1>1, <1>7 DEF Relax
  <2> QED
    BY <1>1, <1>6, <2>1 DEF PlanTypeOK
<1>11. queue' = {} => Runnable(flow) \ Ordered' \subseteq Looped
  <2>1. queue' = {} => \A m \in Runnable(flow) \ Ordered' : Unplanned(m)' # {}
    BY <1>7, <1>8
  <2>2. \A m : Unplanned(m)' = {e \in Into(flow, m) : e.from \notin Ordered'}
    BY <1>1 DEF Unplanned
  <2>3. queue' = {} =>
          \A m \in Runnable(flow) \ Ordered' : \E e \in Into(flow, m) : e.from \notin Ordered'
    BY <2>1, <2>2
  <2> QED
    BY <2>3, RestIsLooped
<1>12. ~done'
  BY <1>1 DEF PlanInv
<1> QED
  BY <1>1, <1>6, <1>7, <1>8, <1>9, <1>10, <1>11, <1>12, PlanFlowStays
     DEF PlanInv, PlanIsSound, PlanIsComplete

\* A node that the queue never reached is appended, or nothing is left.
LEMMA AppendRestKeeps == PlanTypeOK /\ PlanInv /\ AppendRest => PlanTypeOK' /\ PlanInv'
<1> SUFFICES ASSUME PlanTypeOK, PlanInv, AppendRest PROVE PlanTypeOK' /\ PlanInv'
  OBVIOUS
<1>1. queue = {} /\ ~done /\ UNCHANGED <<flow, indegree, queue>>
  BY DEF AppendRest
<1> DEFINE rest == Runnable(flow) \ Ordered
           n == First(flow, rest)
<1>2. CASE rest = {}
  <2>1. done' = TRUE /\ orderedIDs' = orderedIDs
    BY <1>2 DEF AppendRest
  <2>2. Ordered = Runnable(flow)
    <3>1. Ordered \subseteq Runnable(flow)
      BY DEF Ordered, PlanTypeOK
    <3> QED
      BY <1>2, <3>1
  <2>3. Ordered' = Ordered
    BY <2>1 DEF Ordered
  <2>4. PlanIsSound'
    BY <1>1, <2>1, <2>2, <2>3, PlanFlowStays
       DEF PlanInv, PlanIsSound, NoDuplicates, PlanIsComplete, PlanIsTopological
  <2>5. PlanTypeOK'
    BY <1>1, <2>1 DEF PlanTypeOK
  <2> QED
    BY <1>1, <2>2, <2>3, <2>4, <2>5 DEF PlanInv
<1>3. CASE rest # {}
  <2>1. orderedIDs' = Append(orderedIDs, n) /\ done' = done
    BY <1>3 DEF AppendRest
  <2>2. n \in rest
    BY <1>3, FlowFacts, FirstIsFirst DEF PlanTypeOK
  <2> HIDE DEF n
  <2>3. n \in Runnable(flow) /\ n \notin Ordered /\ n \in Looped
    BY <1>1, <2>2 DEF PlanInv
  <2>4. /\ orderedIDs' \in Seq(Runnable(flow)) /\ Ordered' = Ordered \cup {n}
        /\ NoDuplicates' /\ PlanIsTopological'
    BY <1>1, <2>1, <2>3, AppendedKeeps
  <2>5. PlanTypeOK'
    BY <1>1, <2>1, <2>4 DEF PlanTypeOK
  <2>6. (Runnable(flow) \ Ordered \subseteq Looped)'
    BY <1>1, <2>4, PlanFlowStays DEF PlanInv
  <2> QED
    BY <1>1, <2>1, <2>4, <2>5, <2>6 DEF PlanInv, PlanIsSound, PlanIsComplete
<1> QED
  BY <1>2, <1>3

\* The counts, the queue and the plan agree in every state.
THEOREM PlanInvariant == PlanSpec => [](PlanTypeOK /\ PlanInv)
<1>1. PlanTypeOK /\ PlanInv /\ UNCHANGED planVars => PlanTypeOK' /\ PlanInv'
  <2> SUFFICES ASSUME PlanTypeOK, PlanInv, UNCHANGED planVars PROVE PlanTypeOK' /\ PlanInv'
    OBVIOUS
  <2>1. PlanTypeOK' /\ Ordered' = Ordered /\ Looped' = Looped
    BY PlanFlowStays DEF planVars, PlanTypeOK, Ordered
  <2>2. PlanIsSound'
    BY <2>1 DEF planVars, PlanInv, PlanIsSound, NoDuplicates, PlanIsComplete, PlanIsTopological
  <2> QED
    BY <2>1, <2>2 DEF planVars, PlanInv, Unplanned
<1>2. PlanTypeOK /\ PlanInv /\ [PlanNext]_planVars => PlanTypeOK' /\ PlanInv'
  BY <1>1, PopKeeps, AppendRestKeeps DEF PlanNext
<1> QED
  BY InitPlan, <1>2, PTL DEF PlanSpec

\* The plan names every runnable node once, and where there is no cycle it is an
\* order of execution, for every flow.
THEOREM PlanIsSoundAlways == PlanSpec => []PlanIsSound
<1>1. PlanInv => PlanIsSound
  BY DEF PlanInv
<1> QED
  BY <1>1, PlanInvariant, PTL
==============================================================================
