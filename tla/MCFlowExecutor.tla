---------------------------- MODULE MCFlowExecutor ----------------------------
(***************************************************************************)
(* An instance of ExecuteNodeActivity: its two parts over families of flow *)
(* definitions.  A behaviour is of one part, planning (of flows without a  *)
(* failure setting) or the walk, while the other stays in its initial      *)
(* state.                                                                  *)
(***************************************************************************)
EXTENDS ExecutorInRun, FlowPlan

VARIABLE focus  \* the part a behaviour is of

walkOnly == <<phase, step, visited, skipped, starts, doing, attempt, stack, outcome,
              dropped, handlerVars>>
planOnly == <<indegree, queue, orderedIDs, done>>
executorVars == <<vars, planVars, focus>>

\* An edge of a flow is made of an arc: source, target, and which port of the source.
Port(kind, i) == IF i = 3 THEN "ref"
                 ELSE IF kind = "if" THEN <<"true", "false">>[i]
                 ELSE IF kind = "plain" THEN <<"none", "error">>[i]
                 ELSE "none"

Forward(size) == {p \in (1..size) \X (1..size) : p[1] < p[2]}

\* The pairs of ahead carry no arc, one on the first or one on the second port of
\* their source; the pairs of back carry none or one on the first port.
Arcs(ahead, back) ==
  {{<<p[1], p[2], e[p]>> : p \in {p \in ahead : e[p] # 0}}
     \cup {<<p[1], p[2], 1>> : p \in b} : e \in [ahead -> 0..2], b \in SUBSET back}

\* Flows whose nodes have kind k.  All nodes have the same failure settings, mode (a
\* subset of {"continue", "route", "branch"}).
FlowsOf(k, places, arcs, mode, tries) ==
  LET nodes == DOMAIN k
      On(setting) == IF setting \in mode THEN nodes ELSE {}
  IN [size : {Cardinality(nodes)}, kind : {k}, place : places,
      edges : {{[from |-> a[1], to |-> a[2], port |-> Port(k[a[1]], a[3])] : a \in A} :
                 A \in arcs},
      continues : {On("continue")}, routes : {On("route")}, branches : {On("branch")},
      max : {[n \in nodes |-> tries]}]

\* Flows whose nodes have the kinds that kinds allows, with one of modes.
Family(kinds, places, arcs, modes, tries) ==
  UNION {FlowsOf(k, places, arcs, m, tries) :
           k \in {k \in [DOMAIN kinds -> Kinds] : \A n \in DOMAIN kinds : k[n] \in kinds[n]},
           m \in modes}

AnyMode == {{"continue"}, {"route"}, {"branch"}}
Flat(size) == {[n \in 1..size |-> 0]}

\* Three nodes, with a cycle.
Cyclic ==
  Family(<<{"trigger", "plain", "errorTrigger"}, {"plain", "if", "merge"},
           {"plain", "merge"}>>,
         Flat(3), Arcs(Forward(3), {<<3, 1>>}), AnyMode, 1)

\* Four nodes, acyclic, a merge at the end: branches that meet again.
Diamonds ==
  Family(<<{"trigger"}, {"plain", "if"}, {"plain", "errorTrigger"}, {"merge"}>>,
         Flat(4), Arcs(Forward(4) \ {<<1, 4>>}, {}), AnyMode, 1)

\* Three nodes, two attempts, a self loop and a loop of two.
Retries ==
  Family(<<{"trigger"}, {"plain", "if"}, {"plain", "errorTrigger", "merge"}>>,
         Flat(3), Arcs(Forward(3), {<<2, 2>>, <<3, 2>>}), {{"continue"}, {"route"}}, 2)

\* Three nodes to plan: every graph without self loops, and with one; canvases whose
\* places agree with the index, reverse it or tie; two parallel edges, or a
\* reference, from the last node to the first.
PlanArcs ==
  {{<<p[1], p[2], 1>> : p \in E} \cup {<<3, 1, i>> : i \in R} :
     E \in SUBSET ({p \in (1..3) \X (1..3) : p[1] # p[2]} \cup {<<2, 2>>}),
     R \in {{3}, {1, 2}}}

Plannable ==
  Family([n \in 1..3 |-> {"trigger", "plain", "chatModel"}],
         {<<0, 0, 0>>, <<2, 1, 0>>, <<1, 0, 1>>}, PlanArcs, {{}}, 1)

\* The flow without nodes.
EmptyFlow ==
  [size |-> 0, kind |-> <<>>, place |-> <<>>, edges |-> {}, continues |-> {},
   routes |-> {}, branches |-> {}, max |-> <<>>]

AllFlows ==
  Cyclic \cup Diamonds \cup Retries \cup Plannable \cup {EmptyFlow}

\* Two nodes that act and an error trigger, after a node of kind first.
HandlerFlows(first, mode) ==
  FlowsOf(<<first, "plain", "plain", "errorTrigger">>, Flat(4), Arcs(Forward(4), {}), mode, 1)

LenientFlows == HandlerFlows("trigger", {"continue"})

\* Without another trigger, and with one.
UntriggeredFlows == HandlerFlows("chatModel", {"route"})
TriggeredFlows == HandlerFlows("trigger", {"route"})

ASSUME SizeAssumption == SizeFits

------------------------------------------------------------------------------
ExecutorInit ==
  /\ Init /\ PlanInit
  /\ focus = IF flow.size > 0 /\ flow.continues \cup flow.routes \cup flow.branches = {}
             THEN "plan" ELSE "walk"

ExecutorNext ==
  /\ UNCHANGED focus
  /\ \/ focus = "plan" /\ PlanNext /\ UNCHANGED walkOnly
     \/ focus = "walk" /\ Next /\ UNCHANGED planOnly

ExecutorSpec ==
  /\ ExecutorInit /\ [][ExecutorNext]_executorVars
  /\ focus = "walk" => Fairness
==============================================================================
