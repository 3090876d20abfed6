------------------------------ MODULE FlowGraph ------------------------------
(***************************************************************************)
(* A flow definition as ExecuteNodeActivity reads it, and the notions of   *)
(* it that planning (FlowPlan) and execution (FlowExecutor) share.         *)
(*                                                                         *)
(* A flow is a record.  Its nodes are the numbers 1..size: their index in  *)
(* the array reactflow.nodes, which the code compares wherever it needs an *)
(* order.  Its other fields:                                               *)
(*   kind       what data.nodeType means to the executor                   *)
(*   place      the position on the canvas, X then Y, as one number        *)
(*   edges      [from, to, port]; the port is the sourceHandle, or "ref"   *)
(*              when the targetHandle is model, memory or tool; "none" is  *)
(*              the empty or default handle                                *)
(*   continues, routes, branches                                           *)
(*              the nodes with continueOnFail, routeToErrorTrigger and     *)
(*              enableErrorBranch set                                      *)
(*   max        maxAttempts                                                *)
(* Ids that two nodes share, and edges to unknown ids, which the code      *)
(* drops, are left out: the builder makes neither.                         *)
(***************************************************************************)
EXTENDS Naturals

CONSTANT Flows     \* the flow definitions that may be executed

VARIABLE flow      \* the one that the activity was handed

Kinds == {"trigger", "errorTrigger", "plain", "if", "merge", "chatModel"}
Ports == {"none", "true", "false", "error", "ref"}

\* "trigger" stands for cron, webhook, httpTrigger and trigger, "plain" for the
\* nodes that act (httpRequest, aiAgent, gmail, gsheets, github, app).
NodesOf(f) == 1..f.size

IsFlow(f) ==
  /\ f.size \in Nat
  /\ f.kind \in [NodesOf(f) -> Kinds]
  /\ f.place \in [NodesOf(f) -> Nat]
  /\ f.edges \subseteq [from : NodesOf(f), to : NodesOf(f), port : Ports]
  /\ f.continues \subseteq NodesOf(f)
  /\ f.routes \subseteq NodesOf(f)
  /\ f.branches \subseteq NodesOf(f)
  /\ f.max \in [NodesOf(f) -> Nat]

ASSUME FlowsAssumption == \A f \in Flows : IsFlow(f)

\* isRunnableNodeType: chat models configure an agent, they are not executed.
Runnable(f) == {n \in NodesOf(f) : f.kind[n] # "chatModel"}

\* The edges that carry execution.
ExecEdges(f) ==
  {e \in f.edges : e.port # "ref" /\ e.from \in Runnable(f) /\ e.to \in Runnable(f)}

Into(f, n) == {e \in ExecEdges(f) : e.to = n}
OutOf(f, n) == {e \in ExecEdges(f) : e.from = n}

Roots(f) == {n \in Runnable(f) : Into(f, n) = {}}
Triggers(f) == {n \in NodesOf(f) : f.kind[n] = "trigger"}
ErrorTriggers(f) == {n \in NodesOf(f) : f.kind[n] = "errorTrigger"}

Least(S) == CHOOSE n \in S : \A m \in S : n <= m

\* errorTriggerID, of a flow that has one.
ErrorTrigger(f) == Least(ErrorTriggers(f))

\* The order sortQueue sorts by: triggers, then the position, then the index.
Rank(f, n) == IF n \in Triggers(f) THEN 0 ELSE 1

Before(f, a, b) ==
  \/ Rank(f, a) < Rank(f, b)
  \/ /\ Rank(f, a) = Rank(f, b)
     /\ \/ f.place[a] < f.place[b]
        \/ f.place[a] = f.place[b] /\ a < b

First(f, S) == CHOOSE a \in S : \A b \in S \ {a} : Before(f, a, b)

\* startIDs, as a set: the triggers; without any, the roots; without any, the
\* node planned first.
StartIDs(f) ==
  IF Triggers(f) # {} THEN Triggers(f)
  ELSE IF Roots(f) # {} THEN Roots(f)
  ELSE IF Runnable(f) # {} THEN {First(f, Runnable(f))}
  ELSE {}

\* The one of them that is started next: triggers by index, roots as sorted.
NextStartID(f, S) == IF Triggers(f) # {} THEN Least(S) ELSE First(f, S)
==============================================================================
