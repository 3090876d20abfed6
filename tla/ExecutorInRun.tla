---------------------------- MODULE ExecutorInRun ----------------------------
(***************************************************************************)
(* FlowExecutor implements the abstract executor of RunLifecycle: whatever *)
(* the flow, the walk over its nodes writes steps only the way the run's   *)
(* safety properties rely on.                                              *)
(*                                                                         *)
(* The steps of RunLifecycle are a constant: here 0, the manual step, and  *)
(* the nodes of the largest flow; those a flow lacks have no step.  Row,   *)
(* server and API of the run do not move while the activity does.          *)
(***************************************************************************)
EXTENDS FlowExecutor

CONSTANT Size   \* of the largest flow

SizeFits == Size \in Nat /\ \A f \in Flows : f.size <= Size

TheRun(x) == [r \in {"run"} |-> x]

\* run_steps of the run.
StepRows == [s \in 0..Size |-> IF s \in Planned(flow) THEN step[s] ELSE "absent"]

Life == INSTANCE RunLifecycle WITH
  Runs <- {"run"}, Steps <- 0..Size, Manual <- Manual,
  Plans <- {Planned(f) : f \in Flows}, NoStep <- NoNode, MaxAttempts <- 3,
  status <- TheRun("running"), startedAt <- TheRun(TRUE), finishedAt <- TheRun(FALSE),
  step <- TheRun(StepRows), flowExists <- TRUE,
  wf <- TheRun("open"), cancelReq <- TheRun(FALSE), awaits <- TheRun("execute"),
  act <- TheRun("started"), attempt <- TheRun(1), late <- TheRun({}),
  exec <- TheRun(phase), planned <- TheRun(Planned(flow)),
  visited <- TheRun(visited \cup skipped), cur <- TheRun(doing),
  starter <- TheRun("done"), canceller <- TheRun("idle"),
  disturbed <- TheRun(FALSE), dropped <- TheRun(dropped)

\* The executor begins where AttemptStarts leaves the run, and every step of it is
\* a step of the abstract executor or invisible to the run.
ImplementsExecutor ==
  /\ phase = "planning" /\ visited \cup skipped = {} /\ doing = NoNode
  /\ [][Life!ExecuteNode("run")]_Life!vars
==============================================================================
