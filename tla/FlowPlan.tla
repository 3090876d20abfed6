------------------------------- MODULE FlowPlan -------------------------------
(***************************************************************************)
(* The first part of ExecuteNodeActivity: Kahn's algorithm over the        *)
(* runnable nodes, with a queue that is sorted whenever a node joins it,   *)
(* so that it is a set from which the first node is taken.  What the queue *)
(* never reaches (nodes on cycles and behind them) is appended, sorted.    *)
(* The position of a node in orderedIDs becomes its step key.              *)
(***************************************************************************)
EXTENDS FlowGraph, Sequences, FiniteSets

VARIABLES
  indegree,     \* per runnable node
  queue,
  orderedIDs,
  done

planVars == <<flow, indegree, queue, orderedIDs, done>>

Ordered == {orderedIDs[i] : i \in DOMAIN orderedIDs}

PlanInit ==
  /\ flow \in Flows
  /\ indegree = [n \in Runnable(flow) |-> Cardinality(Into(flow, n))]
  /\ queue = Roots(flow)
  /\ orderedIDs = <<>>
  /\ done = FALSE

\* The edges of the node that leaves the queue do not count any more.
Relax(n) ==
  indegree' = [m \in Runnable(flow) |->
    indegree[m] - Cardinality(OutOf(flow, n) \cap Into(flow, m))]

\* The loop over the queue.
MutPop ==
  /\ queue # {}
  /\ LET n == First(flow, queue) IN
       /\ Relax(n)
       /\ orderedIDs' = Append(orderedIDs, n)
       /\ queue' = (queue \ {n}) \cup {e.to : e \in OutOf(flow, n)}
  /\ UNCHANGED <<flow, done>>

Pop ==
  /\ queue # {}
  /\ LET n == First(flow, queue) IN
       /\ Relax(n)
       /\ orderedIDs' = Append(orderedIDs, n)
       /\ queue' = (queue \ {n})
                     \cup {m \in Runnable(flow) : indegree[m] > 0 /\ indegree'[m] = 0}
  /\ UNCHANGED <<flow, done>>

\* Nodes that are left are appended one by one, in order.
AppendRest ==
  /\ queue = {} /\ ~done
  /\ LET rest == Runnable(flow) \ Ordered IN
       IF rest = {}
       THEN done' = TRUE /\ UNCHANGED orderedIDs
       ELSE orderedIDs' = Append(orderedIDs, First(flow, rest)) /\ UNCHANGED done
  /\ UNCHANGED <<flow, indegree, queue>>

PlanNext == Pop \/ AppendRest

PlanSpec == PlanInit /\ [][PlanNext]_planVars /\ WF_planVars(PlanNext)

------------------------------------------------------------------------------
(* Properties *)

\* No node is planned twice, in every state: step keys, from which the ids of
\* steps are derived, name one node each.
NoDuplicates ==
  \A i, j \in DOMAIN orderedIDs : orderedIDs[i] = orderedIDs[j] => i = j

\* Every runnable node is planned once, whatever cycles the flow has.
PlanIsComplete == done => Ordered = Runnable(flow)

\* The nodes on a cycle or behind one: the largest set of nodes that all have an
\* edge from a node of the set.
Looped ==
  UNION {S \in SUBSET Runnable(flow) :
           \A n \in S : \E e \in Into(flow, n) : e.from \in S}

\* Where there is no cycle the plan is topological: of two nodes that an edge
\* connects, the source has the smaller step key.
PlanIsTopological ==
  \A e \in ExecEdges(flow) :
    e.to \notin Looped =>
      \A j \in DOMAIN orderedIDs :
        orderedIDs[j] = e.to => \E i \in 1..(j - 1) : orderedIDs[i] = e.from

\* The steps of a run, shown in the order of their keys, are its nodes in an order
\* of execution.
PlanIsSound == NoDuplicates /\ PlanIsComplete /\ PlanIsTopological

\* Why, in inductive form.  As long as a node waits in the queue, every count is
\* that of the edges from nodes not planned yet, and it is zero for exactly the
\* nodes that are planned or wait; when none waits, the rest is looped.
PlanTypeOK ==
  /\ IsFlow(flow)
  /\ indegree \in [Runnable(flow) -> Nat]
  /\ queue \subseteq Runnable(flow)
  /\ orderedIDs \in Seq(Runnable(flow))
  /\ done \in BOOLEAN

Unplanned(n) == {e \in Into(flow, n) : e.from \notin Ordered}

PlanInv ==
  /\ queue \cap Ordered = {}
  /\ queue # {} => \A n \in Runnable(flow) :
                     /\ indegree[n] = Cardinality(Unplanned(n))
                     /\ indegree[n] = 0 <=> n \in queue \cup Ordered
  /\ queue = {} => Runnable(flow) \ Ordered \subseteq Looped
  /\ done => queue = {}
  /\ PlanIsSound
==============================================================================
