----------------------------- MODULE FlowExecutor -----------------------------
(***************************************************************************)
(* The second part of ExecuteNodeActivity: the plan is stored, the start   *)
(* nodes are executed depth first by the recursive executeNode, and what   *)
(* was not reached is skipped.                                             *)
(*                                                                         *)
(* What a node does is external: it succeeds, fails, times out, or is      *)
(* interrupted by the end of the activity's context, at any attempt.       *)
(* Every write of a step may fail, before or after it took effect.  The    *)
(* order of the skips is left open.  One attempt of the activity is        *)
(* modelled: RunLifecycle shows that there is no other, and this module    *)
(* that it does what RunLifecycle says of it.                              *)
(***************************************************************************)
EXTENDS FlowGraph, Sequences

CONSTANT NoNode     \* no node is being executed

ASSUME NoNodeAssumption == NoNode \notin Nat

VARIABLES
  phase,     \* of the activity
  step,      \* run_steps.status, per planned node
  visited,
  skipped,   \* what the last loop has passed
  starts,    \* the start nodes that were not tried yet
  doing,     \* the node that executeStep runs
  attempt,   \* of the node doing
  stack,     \* the calls of executeNode that follow edges: node, targets left
  outcome,   \* how the execution of a node ended
  \* history
  dropped,   \* the error of a write was ignored, or the worker died
  rescued,   \* the failed node whose call executed the error trigger
  tooLate    \* the nodes routed to it when it had been executed already

handlerVars == <<rescued, tooLate>>
vars == <<flow, phase, step, visited, skipped, starts, doing, attempt, stack,
          outcome, dropped, handlerVars>>

\* The step of a flow without nodes: "Trigger: Manual".
Manual == 0

Planned(f) == IF f.size = 0 THEN {Manual} ELSE Runnable(f)

Passed == {"ok", "false", "caught", "continued"}
Outcomes == Passed \cup {"none", "routed", "timedOut", "error"}
StepStatus == {"absent", "queued", "running", "success", "failed", "canceled", "skipped"}
ClosedStep == {"success", "failed", "canceled", "skipped"}

TypeOK ==
  /\ IsFlow(flow)
  /\ phase \in {"planning", "running", "skipping", "ok", "error", "dead"}
  /\ step \in [Planned(flow) -> StepStatus]
  /\ visited \subseteq Runnable(flow)
  /\ skipped \subseteq Runnable(flow) \ visited
  /\ starts \subseteq StartIDs(flow)
  /\ doing \in Runnable(flow) \cup {NoNode}
  /\ attempt \in Nat
  /\ stack \in Seq([node : Runnable(flow), left : SUBSET Runnable(flow)])
  /\ outcome \in [Runnable(flow) -> Outcomes]
  /\ dropped \in BOOLEAN

HandlerTypeOK ==
  /\ rescued \in Runnable(flow) \cup {NoNode}
  /\ tooLate \subseteq Runnable(flow)

Init ==
  /\ flow \in Flows
  /\ phase = "planning"
  /\ step = [n \in Planned(flow) |-> "absent"]
  /\ visited = {}
  /\ skipped = {}
  /\ starts = StartIDs(flow)
  /\ doing = NoNode
  /\ attempt = 0
  /\ stack = <<>>
  /\ outcome = [n \in Runnable(flow) |-> "none"]
  /\ dropped = FALSE
  /\ rescued = NoNode
  /\ tooLate = {}

------------------------------------------------------------------------------
\* CreateMany stores the plan, or fails.  It stores nothing when nothing is
\* planned, and that is no error.
Plan ==
  /\ phase = "planning"
  /\ \/ /\ step' = [n \in Planned(flow) |-> "queued"]
        /\ phase' \in {"running", "error"}
     \/ phase' = "error" /\ UNCHANGED step
  /\ UNCHANGED <<flow, visited, skipped, starts, doing, attempt, stack, outcome,
                 dropped, handlerVars>>

\* mergeInputsReady.
MutInputsReady(n) == \E e \in Into(flow, n) : e.from \in visited

InputsReady(n) == \A e \in Into(flow, n) : e.from \in visited

\* executeNode goes on past its early returns.
MutEnterable(n) ==
  /\ n \in Runnable(flow)
  /\ flow.kind[n] = "merge" => InputsReady(n)

Enterable(n) ==
  /\ n \notin visited
  /\ n \in Runnable(flow)
  /\ flow.kind[n] = "merge" => InputsReady(n)

\* The node is marked visited and its step written running; the error of that
\* write is returned through all the calls of executeNode.
Enter(n) ==
  /\ visited' = visited \cup {n}
  /\ \/ /\ step' = [step EXCEPT ![n] = "running"]
        /\ phase' = phase
        /\ doing' = n
        /\ attempt' = 1
     \/ /\ step' \in {step, [step EXCEPT ![n] = "running"]}
        /\ phase' = "error"
        /\ UNCHANGED <<doing, attempt>>

\* A call of executeNode that executes the node, or returns at once.
Call(n) ==
  IF Enterable(n) THEN Enter(n)
  ELSE UNCHANGED <<visited, step, phase, doing, attempt>>

Idle == phase = "running" /\ doing = NoNode

\* The loop over startIDs.
StartNode ==
  /\ Idle
  /\ stack = <<>>
  /\ starts # {}
  /\ LET n == NextStartID(flow, starts) IN
       /\ starts' = starts \ {n}
       /\ Call(n)
  /\ UNCHANGED <<flow, skipped, stack, outcome, dropped, handlerVars>>

MutFollowEdge ==
  /\ Idle
  /\ stack # <<>>
  /\ LET top == stack[Len(stack)] IN
       /\ top.left # {}
       /\ Call(Least(top.left))
  /\ UNCHANGED <<flow, skipped, starts, stack, outcome, dropped, handlerVars>>

\* The loop over nextEdges, sorted by the index of the target, or the call of the
\* error trigger.
FollowEdge ==
  /\ Idle
  /\ stack # <<>>
  /\ LET top  == stack[Len(stack)]
         n    == Least(top.left) IN
       /\ top.left # {}
       /\ stack' = [stack EXCEPT ![Len(stack)].left = @ \ {n}]
       /\ Call(n)
       /\ rescued' = IF outcome[top.node] = "routed" /\ Enterable(n)
                     THEN top.node ELSE rescued
  /\ UNCHANGED <<flow, skipped, starts, outcome, dropped, tooLate>>

\* executeNode returns nil.
ReturnNode ==
  /\ Idle
  /\ stack # <<>>
  /\ stack[Len(stack)].left = {}
  /\ stack' = SubSeq(stack, 1, Len(stack) - 1)
  /\ UNCHANGED <<flow, phase, step, visited, skipped, starts, doing, attempt,
                 outcome, dropped, handlerVars>>

------------------------------------------------------------------------------
(* The node that is being executed. *)

\* executeMerge cannot fail, simulateStep only by an interruption.
Fallible(n) == flow.kind[n] \in {"plain", "if"}

\* maxAttempts, clamped to at least one.
Limit(n) == IF flow.max[n] < 1 THEN 1 ELSE flow.max[n]

HasErrorBranch(n) == \E e \in OutOf(flow, n) : e.port = "error"

\* routeToErrorTrigger, where there is an error trigger that is not the node.
Routed(n) ==
  /\ n \in flow.routes
  /\ ErrorTriggers(flow) # {}
  /\ ErrorTrigger(flow) # n

\* The edges followed after an outcome.  An if node follows "true" and unnamed
\* edges when its condition held and "false" edges otherwise, also when it failed.
NextEdges(f, n, o) ==
  IF f.kind[n] = "if"
  THEN {e \in OutOf(f, n) : e.port \in IF o = "ok" THEN {"true", "none"} ELSE {"false"}}
  ELSE IF n \in f.branches
  THEN {e \in OutOf(f, n) : (e.port = "error") = (o = "caught")}
  ELSE OutOf(f, n)

MutTargets(f, n, o) ==
  IF o = "routed" THEN {ErrorTrigger(f)} ELSE {e.to : e \in OutOf(f, n)}

\* Where executeNode goes on: along those edges, or in the error trigger.
Targets(f, n, o) ==
  IF o = "routed" THEN {ErrorTrigger(f)}
  ELSE {e.to : e \in NextEdges(f, n, o)}

\* The node is done; executeNode goes on from it.
GoOn(n, o) ==
  /\ outcome' = [outcome EXCEPT ![n] = o]
  /\ stack' = Append(stack, [node |-> n, left |-> Targets(flow, n, o)])
  /\ doing' = NoNode
  /\ UNCHANGED phase

\* executeNode returns an error, and so does every call below it.
Abort(n, o) ==
  /\ outcome' = [outcome EXCEPT ![n] = o]
  /\ phase' = "error"
  /\ doing' = NoNode
  /\ UNCHANGED stack

\* A write whose error is ignored.
WriteIgnored(n, s) ==
  \/ step' = [step EXCEPT ![n] = s] /\ UNCHANGED dropped
  \/ dropped' = TRUE /\ UNCHANGED step

Retry(n) ==
  /\ phase = "running" /\ doing = n
  /\ Fallible(n)
  /\ attempt < Limit(n)
  /\ attempt' = attempt + 1
  /\ step' \in {step, [step EXCEPT ![n] = "running"]}
  /\ UNCHANGED <<flow, phase, visited, skipped, starts, doing, stack, outcome,
                 dropped, handlerVars>>

Succeed(n) ==
  /\ phase = "running" /\ doing = n
  /\ \/ /\ step' = [step EXCEPT ![n] = "success"]
        /\ \/ GoOn(n, "ok")
           \/ flow.kind[n] = "if" /\ GoOn(n, "false")
           \/ Abort(n, "error")
     \/ UNCHANGED step /\ Abort(n, "error")
  /\ UNCHANGED <<flow, visited, skipped, starts, attempt, dropped, handlerVars>>

\* The last attempt failed.
MutFail(n) ==
  /\ phase = "running" /\ doing = n
  /\ Fallible(n)
  /\ attempt = Limit(n)
  /\ IF HasErrorBranch(n)
     THEN WriteIgnored(n, "success") /\ GoOn(n, "caught")
     ELSE /\ WriteIgnored(n, "failed")
          /\ IF Routed(n) THEN GoOn(n, "routed") ELSE GoOn(n, "continued")
  /\ UNCHANGED <<flow, visited, skipped, starts, attempt, handlerVars>>

Fail(n) ==
  /\ phase = "running" /\ doing = n
  /\ Fallible(n)
  /\ attempt = Limit(n)
  /\ IF HasErrorBranch(n)
     THEN WriteIgnored(n, "success") /\ GoOn(n, "caught")
     ELSE /\ WriteIgnored(n, "failed")
          /\ IF Routed(n) THEN GoOn(n, "routed")
             ELSE IF n \in flow.continues THEN GoOn(n, "continued")
             ELSE Abort(n, "error")
  /\ tooLate' = IF outcome'[n] = "routed" /\ ErrorTrigger(flow) \in visited
                THEN tooLate \cup {n} ELSE tooLate
  /\ UNCHANGED <<flow, visited, skipped, starts, attempt, rescued>>

\* The error is context.Canceled or DeadlineExceeded: no retry, no failure setting
\* applies.
Canceled(n, o) ==
  /\ phase = "running" /\ doing = n
  /\ WriteIgnored(n, "canceled")
  /\ Abort(n, o)
  /\ UNCHANGED <<flow, visited, skipped, starts, attempt, handlerVars>>

\* The context of the activity ended while the node ran, or between two attempts;
\* executeMerge and executeIf do not look at it.
Interrupt(n) ==
  /\ flow.kind[n] # "merge"
  /\ flow.kind[n] = "if" => attempt < Limit(n)
  /\ Canceled(n, "error")

\* The HTTP client's own timeout is a DeadlineExceeded as well.
TimeOut(n) ==
  /\ flow.kind[n] = "plain"
  /\ Canceled(n, "timedOut")

------------------------------------------------------------------------------
StartsDone ==
  /\ Idle
  /\ stack = <<>> /\ starts = {}
  /\ phase' = "skipping"
  /\ UNCHANGED <<flow, step, visited, skipped, starts, doing, attempt, stack,
                 outcome, dropped, handlerVars>>

\* The loop over what was planned; the manual step, which has no node, is passed.
MutSkip(n) ==
  /\ phase = "skipping"
  /\ n \in Runnable(flow) \ skipped
  /\ skipped' = skipped \cup {n}
  /\ WriteIgnored(n, "skipped")
  /\ UNCHANGED <<flow, phase, visited, starts, doing, attempt, stack, outcome,
                 handlerVars>>

Skip(n) ==
  /\ phase = "skipping"
  /\ n \in Runnable(flow) \ (visited \cup skipped)
  /\ skipped' = skipped \cup {n}
  /\ WriteIgnored(n, "skipped")
  /\ UNCHANGED <<flow, phase, visited, starts, doing, attempt, stack, outcome,
                 handlerVars>>

Done ==
  /\ phase = "skipping"
  /\ Runnable(flow) = visited \cup skipped
  /\ phase' = "ok"
  /\ UNCHANGED <<flow, step, visited, skipped, starts, doing, attempt, stack,
                 outcome, dropped, handlerVars>>

WorkerDies ==
  /\ phase \in {"planning", "running", "skipping"}
  /\ phase' = "dead"
  /\ doing' = NoNode
  /\ dropped' = TRUE
  /\ UNCHANGED <<flow, step, visited, skipped, starts, attempt, stack, outcome,
                 handlerVars>>

Node(n) == Succeed(n) \/ Fail(n) \/ Interrupt(n) \/ TimeOut(n)

Next ==
  \/ Plan \/ StartNode \/ FollowEdge \/ ReturnNode \/ StartsDone \/ Done \/ WorkerDies
  \/ \E n \in Runnable(flow) : Node(n) \/ Retry(n) \/ Skip(n)

Spec == Init /\ [][Next]_vars

\* The worker runs the activity, and every node ends: at the latest when the
\* start-to-close timeout of the activity ends its context.
Walk == Plan \/ StartNode \/ FollowEdge \/ ReturnNode \/ StartsDone \/ Done
          \/ \E n \in Runnable(flow) : Skip(n)

Fairness ==
  /\ WF_vars(Walk)
  /\ WF_vars(\E n \in Runnable(flow) : Node(n))

FairSpec == Spec /\ Fairness

------------------------------------------------------------------------------
(* Properties *)

\* The edge was among those its source, once executed, was to follow.
Followed(e) ==
  /\ outcome[e.from] \in Passed
  /\ e \in NextEdges(flow, e.from, outcome[e.from])

WasRouted == \E n \in Runnable(flow) : outcome[n] = "routed"

\* The exception: in a flow without another trigger the error triggers are start
\* nodes like all roots, and run although nothing failed.
StartedHandler(n) == flow.kind[n] = "errorTrigger" /\ n \in StartIDs(flow)

\* Nothing is executed but start nodes, what an executed node leads to under the
\* outcome it had, and the error trigger in the call by a node whose failure was
\* routed to it; or, by that exception, at the start.
OnlyReachedNodesRun ==
  \A n \in visited :
    \/ flow.kind[n] # "errorTrigger" /\ n \in StartIDs(flow)
    \/ \E e \in Into(flow, n) : Followed(e)
    \/ rescued # NoNode /\ outcome[rescued] = "routed" /\ n = ErrorTrigger(flow)
    \/ StartedHandler(n)

\* And everything is: a node is skipped only if no followed edge leads to it, or
\* if it is a merge and some edge into it was not followed.  In whatever order its
\* inputs arrive, a merge that all of them reach is executed.
SkippedForAReason ==
  phase = "ok" =>
    \A n \in Runnable(flow) \ visited :
      /\ n \notin StartIDs(flow) \/ flow.kind[n] = "merge"
      /\ \/ \A e \in Into(flow, n) : ~Followed(e)
         \/ flow.kind[n] = "merge" /\ \E e \in Into(flow, n) : ~Followed(e)

\* executeNode executes what the flow reaches, and nothing else but error triggers
\* without a failure where the flow has no other trigger.
ReachedIsExecuted == OnlyReachedNodesRun /\ SkippedForAReason

\* A merge is not entered before every node that leads to it has been executed to
\* its end, although those nodes are still on the call stack.
MergeAfterInputs ==
  \A n \in visited :
    flow.kind[n] = "merge" => \A e \in Into(flow, n) : outcome[e.from] # "none"

\* The activity returns nil only if every failure was one the flow tolerates: the
\* node continues on failure, or the error trigger was executed for this very node
\* and succeeded.  The exception: a failure that is routed to an error trigger which
\* was executed before (for another failure, as a start node, along an edge) is
\* dropped: nobody handles it, and the activity returns nil all the same.
SuccessMeansHandled ==
  phase = "ok" /\ ~dropped =>
    \A n \in Runnable(flow) :
      \/ step[n] \in {"success", "skipped"}
      \/ /\ step[n] = "failed"
         /\ \/ n \in flow.continues
            \/ rescued = n /\ step[ErrorTrigger(flow)] = "success"
            \/ n \in tooLate

\* Why these hold, in inductive form.  The phases agree on what is still to do; a
\* node has an outcome when executeNode is through with it; what the outcomes so
\* far lead to was executed or is owed by a call on the stack, a merge once all its
\* inputs lead to it; and the steps say what the walk did.
Alive == phase \in {"running", "skipping", "ok"}
Pending(n) == \E i \in DOMAIN stack : n \in stack[i].left

PhasesAgree ==
  /\ doing # NoNode => /\ phase = "running" /\ doing \in visited
                       /\ step[doing] = "running" /\ outcome[doing] = "none"
  /\ phase = "planning" => /\ visited = {} /\ stack = <<>> /\ starts = StartIDs(flow)
                           /\ \A n \in Planned(flow) : step[n] = "absent"
  /\ phase \in {"planning", "running"} => skipped = {}
  /\ phase \in {"skipping", "ok"} => stack = <<>> /\ starts = {}
  /\ phase = "ok" => Runnable(flow) = visited \cup skipped

OutcomesAreFinal ==
  /\ \A n \in Runnable(flow) \ visited : outcome[n] = "none"
  /\ Alive => \A n \in visited \ {doing} : outcome[n] \in Passed \cup {"routed"}
  /\ \A n \in Runnable(flow) : outcome[n] = "routed" => Routed(n)
  /\ \A i \in DOMAIN stack :
       stack[i].left \subseteq Targets(flow, stack[i].node, outcome[stack[i].node])
         /\ outcome[stack[i].node] \in Passed \cup {"routed"}

NothingIsForgotten ==
  /\ \A n \in StartIDs(flow) \ (visited \cup starts) : flow.kind[n] = "merge"
  /\ \A n \in Runnable(flow) \ visited :
       /\ flow.kind[n] # "merge" => \A e \in Into(flow, n) : Followed(e) => Pending(n)
       /\ Into(flow, n) # {} /\ (\A e \in Into(flow, n) : Followed(e)) => Pending(n)
  /\ WasRouted => ErrorTrigger(flow) \in visited \/ Pending(ErrorTrigger(flow))

\* A routed failure is followed by the call of the error trigger, before anything
\* else can execute it.
FailuresAreRouted ==
  /\ rescued # NoNode => outcome[rescued] = "routed" /\ ErrorTrigger(flow) \in visited
  /\ \A n \in Runnable(flow) :
       outcome[n] = "routed" /\ rescued # n /\ n \notin tooLate =>
         /\ stack # <<>> /\ doing = NoNode
         /\ stack[Len(stack)] = [node |-> n, left |-> {ErrorTrigger(flow)}]
         /\ ErrorTrigger(flow) \notin visited

Handled(n) ==
  \/ step[n] = "success"
  \/ /\ step[n] = "failed" /\ Fallible(n)
     /\ n \in flow.continues \/ outcome[n] = "routed"

StepsFollowWalk ==
  /\ phase \in {"running", "skipping"} =>
       \A n \in Runnable(flow) \ (visited \cup skipped) : step[n] = "queued"
  /\ Alive /\ ~dropped =>
       /\ \A n \in skipped : step[n] = "skipped"
       /\ \A n \in visited \ {doing} : Handled(n)

WalkInv ==
  /\ PhasesAgree /\ OutcomesAreFinal /\ MergeAfterInputs
  /\ Alive => NothingIsForgotten
  /\ StepsFollowWalk

HandlerInv == HandlerTypeOK /\ OnlyReachedNodesRun /\ FailuresAreRouted

\* A step that is closed is not written again: no node is executed twice, and the
\* last loop skips nothing that was executed.
StepsCloseOnce ==
  [][\A n \in Planned(flow) : step[n] \in ClosedStep => step'[n] = step[n]]_vars

\* The walk ends, whatever cycles the flow has.
ActivityEnds == (phase = "running") ~> (phase \in {"ok", "error", "dead"})

------------------------------------------------------------------------------
(* What the documentation says, and the code does not do. *)

\* The inspector's help says that with "Continue on fail" the workflow continues
\* even if the node errors.
ErrorsContinue ==
  \A n \in Runnable(flow) \cap flow.continues :
    outcome[n] = "timedOut" => phase # "error"

\* docs/node-connectors.md: "The Error Trigger does not run at the start of a
\* workflow."
ErrorTriggerNotAtStart ==
  \A n \in visited \cap ErrorTriggers(flow) :
    rescued # NoNode \/ \E e \in Into(flow, n) : Followed(e)

\* docs/node-connectors.md: "When a node has Route to error trigger enabled and it
\* fails, the workflow jumps to the Error Trigger branch."
RoutedFailuresJump ==
  phase = "ok" => \A n \in Runnable(flow) : outcome[n] = "routed" => rescued = n
==============================================================================
