----------------------------- MODULE RunLifecycle -----------------------------
(***************************************************************************)
(* The life of the runs of one flow: the API handlers that create and      *)
(* cancel a run, the Temporal server and RunFlowWorkflow, the activity     *)
(* attempts on the workers, the rows runs and run_steps in Postgres, and   *)
(* the deletion of the flow.                                               *)
(*                                                                         *)
(* Every SQL statement is one step; every remote call may fail, and a call *)
(* that fails may have taken effect.  An attempt the Temporal server gave  *)
(* up on (start-to-close timeout, cancellation) keeps running on its       *)
(* worker: its write may still land.  ExecuteNodeActivity is seen here     *)
(* only through the rows it writes; which node it picks next is            *)
(* FlowExecutor's subject, so the next step here is any unvisited one.     *)
(*                                                                         *)
(* An operator named Mut... is no part of the model: it is the definition  *)
(* that follows it with a bug, which one of the properties must notice.    *)
(***************************************************************************)
EXTENDS Naturals

CONSTANTS
  Runs,          \* the runs that may be created
  Steps,         \* the steps a run may have
  Manual,        \* of these, "Trigger: Manual" of a flow without nodes
  Plans,         \* the sets of steps that flows plan: one per runnable node,
                 \* or Manual alone for a flow without nodes
  NoStep,        \* "no step is being executed"
  MaxAttempts    \* RetryPolicy.MaximumAttempts of the status and load activities

ASSUME NoStepAssumption == NoStep \notin Steps
ASSUME PlansAssumption == Plans \subseteq SUBSET Steps
ASSUME AttemptsAssumption == MaxAttempts \in Nat \ {0}

VARIABLES
  \* Postgres
  status, startedAt, finishedAt,  \* the row of the table runs
  step,          \* run_steps.status of each step
  flowExists,    \* the row of the table flows
  \* Temporal server
  wf,            \* the workflow run-<id>
  cancelReq,     \* its cancellation was requested
  awaits,        \* the activity RunFlowWorkflow is blocked on
  act,           \* where the current attempt of that activity is
  attempt,       \* its number
  \* workers
  late,          \* status writes of attempts the server gave up on
  exec,          \* ExecuteNodeActivity
  planned,       \* the steps that the definition it got asks for
  visited,       \* its map visited
  cur,           \* the step it is executing
  \* API process
  starter,       \* the handler or cron job that creates the run
  canceller,     \* the cancel handler
  \* history
  disturbed,     \* as in RunStatus
  dropped        \* a write error was ignored, or its writer died

rowVars    == <<status, startedAt, finishedAt>>
serverVars == <<wf, cancelReq, awaits, act, attempt>>
execVars   == <<exec, planned, visited, cur>>
apiVars    == <<starter, canceller>>
vars == <<rowVars, step, flowExists, serverVars, late, execVars, apiVars,
          disturbed, dropped>>

Terminal == {"success", "failed", "canceled"}
InTable  == {"queued", "running"} \cup Terminal
Closed   == {"success", "failed", "canceled", "skipped"}

\* The activities that run UpdateRunStatusActivity, and what they write.
Marks  == {"markRunning", "markFailed", "markSuccess"}
Writes == [markRunning |-> "running", markFailed |-> "failed",
           markSuccess |-> "success"]

MutAttempts(a) == MaxAttempts

\* ExecuteNodeActivity must not auto-retry, the others may.
Attempts(a) == IF a = "execute" THEN 1 ELSE MaxAttempts

HasRow(r)  == status[r] \in InTable
Active(r)  == exec[r] \in {"planning", "running", "skipping"}

\* The planned steps that stand for a node.
NodeSteps(r) == planned[r] \ {Manual}

RowTypeOK ==
  /\ status \in [Runs -> InTable \cup {"absent", "deleted"}]
  /\ startedAt \in [Runs -> BOOLEAN]
  /\ finishedAt \in [Runs -> BOOLEAN]

StepTypeOK ==
  step \in [Runs -> [Steps -> {"absent", "queued", "running"} \cup Closed]]

ServerTypeOK ==
  /\ wf \in [Runs -> {"none", "open", "closed"}]
  /\ cancelReq \in [Runs -> BOOLEAN]
  /\ awaits \in [Runs -> {"nothing", "load", "execute"} \cup Marks]
  /\ act \in [Runs -> {"none", "scheduled", "started", "completed", "erred",
                       "ok", "fail", "canceled"}]
  /\ attempt \in [Runs -> Nat]

LateTypeOK == late \in [Runs -> SUBSET (Marks \X Nat)]

ExecTypeOK ==
  /\ exec \in [Runs -> {"none", "planning", "running", "skipping",
                        "ok", "error", "dead"}]
  /\ planned \in [Runs -> SUBSET Steps]
  /\ visited \in [Runs -> SUBSET Steps]
  /\ cur \in [Runs -> Steps \cup {NoStep}]

ApiTypeOK ==
  /\ starter \in [Runs -> {"none", "inserted", "startFailed", "done"}]
  /\ canceller \in [Runs -> {"idle", "read", "accepted", "stepsClosed"}]

HistoryTypeOK ==
  /\ disturbed \in [Runs -> BOOLEAN]
  /\ dropped \in [Runs -> BOOLEAN]

TypeOK ==
  /\ flowExists \in BOOLEAN
  /\ RowTypeOK /\ StepTypeOK /\ ServerTypeOK /\ LateTypeOK
  /\ ExecTypeOK /\ ApiTypeOK /\ HistoryTypeOK

Init ==
  /\ status = [r \in Runs |-> "absent"]
  /\ startedAt = [r \in Runs |-> FALSE]
  /\ finishedAt = [r \in Runs |-> FALSE]
  /\ step = [r \in Runs |-> [s \in Steps |-> "absent"]]
  /\ flowExists = TRUE
  /\ wf = [r \in Runs |-> "none"]
  /\ cancelReq = [r \in Runs |-> FALSE]
  /\ awaits = [r \in Runs |-> "nothing"]
  /\ act = [r \in Runs |-> "none"]
  /\ attempt = [r \in Runs |-> 0]
  /\ late = [r \in Runs |-> {}]
  /\ exec = [r \in Runs |-> "none"]
  /\ planned = [r \in Runs |-> {}]
  /\ visited = [r \in Runs |-> {}]
  /\ cur = [r \in Runs |-> NoStep]
  /\ starter = [r \in Runs |-> "none"]
  /\ canceller = [r \in Runs |-> "idle"]
  /\ disturbed = [r \in Runs |-> FALSE]
  /\ dropped = [r \in Runs |-> FALSE]

------------------------------------------------------------------------------
(* The two UPDATE statements. *)

\* Forgets COALESCE: started_at is recomputed by every update.
MutUpdateStatus(r, s) ==
  /\ HasRow(r)
  /\ status' = [status EXCEPT ![r] = s]
  /\ startedAt' = [startedAt EXCEPT ![r] = s = "running"]
  /\ finishedAt' = [finishedAt EXCEPT ![r] = @ \/ s \in Terminal]

\* RunRepository.UpdateStatus on an existing row: the status is overwritten
\* whatever it was, the time stamps are set once.
UpdateStatus(r, s) ==
  /\ HasRow(r)
  /\ status' = [status EXCEPT ![r] = s]
  /\ startedAt' = [startedAt EXCEPT ![r] = @ \/ s = "running"]
  /\ finishedAt' = [finishedAt EXCEPT ![r] = @ \/ s \in Terminal]

\* RunStepRepository.UpdateState on an existing row.
UpdateState(r, s, new) ==
  /\ step[r][s] # "absent"
  /\ step' = [step EXCEPT ![r][s] = new]

Drop(r) == dropped' = [dropped EXCEPT ![r] = TRUE]

------------------------------------------------------------------------------
(* API: creating a run, from the run button or from the cron scheduler. *)

CreateRun(r) ==
  /\ flowExists
  /\ status[r] = "absent"
  /\ status' = [status EXCEPT ![r] = "queued"]
  /\ starter' = [starter EXCEPT ![r] = "inserted"]
  /\ UNCHANGED <<startedAt, finishedAt, step, flowExists, serverVars, late,
                 execVars, canceller, disturbed, dropped>>

\* The server opens the workflow, which schedules its first activity.
OpenWorkflow(r) ==
  /\ wf' = [wf EXCEPT ![r] = "open"]
  /\ awaits' = [awaits EXCEPT ![r] = "markRunning"]
  /\ act' = [act EXCEPT ![r] = "scheduled"]
  /\ attempt' = [attempt EXCEPT ![r] = 1]
  /\ UNCHANGED cancelReq

\* Falls through into the error path.
MutStartAccepted(r) ==
  /\ starter[r] = "inserted"
  /\ OpenWorkflow(r)
  /\ starter' = [starter EXCEPT ![r] = "startFailed"]
  /\ UNCHANGED <<rowVars, step, flowExists, late, execVars, canceller,
                 disturbed, dropped>>

\* ExecuteWorkflow returns nil.
StartAccepted(r) ==
  /\ starter[r] = "inserted"
  /\ OpenWorkflow(r)
  /\ starter' = [starter EXCEPT ![r] = "done"]
  /\ UNCHANGED <<rowVars, step, flowExists, late, execVars, canceller,
                 disturbed, dropped>>

\* ExecuteWorkflow times out or the client hangs up after the server accepted.
StartUnconfirmed(r) ==
  /\ starter[r] = "inserted"
  /\ OpenWorkflow(r)
  /\ starter' = [starter EXCEPT ![r] = "startFailed"]
  /\ disturbed' = [disturbed EXCEPT ![r] = TRUE]
  /\ UNCHANGED <<rowVars, step, flowExists, late, execVars, canceller, dropped>>

StartRejected(r) ==
  /\ starter[r] = "inserted"
  /\ starter' = [starter EXCEPT ![r] = "startFailed"]
  /\ UNCHANGED <<rowVars, step, flowExists, serverVars, late, execVars,
                 canceller, disturbed, dropped>>

\* The error path writes failed; its own error is ignored.
MarkStartFailed(r) ==
  /\ starter[r] = "startFailed"
  /\ starter' = [starter EXCEPT ![r] = "done"]
  /\ \/ UpdateStatus(r, "failed") /\ UNCHANGED dropped
     \/ Drop(r) /\ UNCHANGED rowVars
  /\ UNCHANGED <<step, flowExists, serverVars, late, execVars, canceller,
                 disturbed>>

\* The API process dies, or its request is abandoned, between two statements; or
\* the insert of the run was committed and answered with an error.
StarterDies(r) ==
  /\ starter[r] \in {"inserted", "startFailed"}
  /\ starter' = [starter EXCEPT ![r] = "done"]
  /\ Drop(r)
  /\ UNCHANGED <<rowVars, step, flowExists, serverVars, late, execVars,
                 canceller, disturbed>>

------------------------------------------------------------------------------
(* API: the cancel handler. *)

\* GetForUser, and 409 unless the run is open.
CancelRead(r) ==
  /\ canceller[r] = "idle"
  /\ status[r] \in {"queued", "running"}
  /\ canceller' = [canceller EXCEPT ![r] = "read"]
  /\ UNCHANGED <<rowVars, step, flowExists, serverVars, late, execVars,
                 starter, disturbed, dropped>>

\* CancelWorkflow: accepted; or an error (502), with or without effect.
CancelRequest(r) ==
  /\ canceller[r] = "read"
  /\ \/ /\ wf[r] = "open"
        /\ cancelReq' = [cancelReq EXCEPT ![r] = TRUE]
        /\ disturbed' = [disturbed EXCEPT ![r] = TRUE]
        /\ \E c \in {"accepted", "idle"} :
             canceller' = [canceller EXCEPT ![r] = c]
     \/ /\ canceller' = [canceller EXCEPT ![r] = "idle"]
        /\ UNCHANGED <<cancelReq, disturbed>>
  /\ UNCHANGED <<rowVars, step, flowExists, wf, awaits, act, attempt, late,
                 execVars, starter, dropped>>

\* CancelOpenSteps, its error ignored.
CancelOpenSteps(r) ==
  /\ canceller[r] = "accepted"
  /\ canceller' = [canceller EXCEPT ![r] = "stepsClosed"]
  /\ \/ /\ step' = [step EXCEPT ![r] = [s \in Steps |->
                    IF @[s] \in {"queued", "running"} THEN "canceled" ELSE @[s]]]
        /\ UNCHANGED dropped
     \/ Drop(r) /\ UNCHANGED step
  /\ UNCHANGED <<rowVars, flowExists, serverVars, late, execVars, starter,
                 disturbed>>

\* UpdateStatus canceled, its error ignored; then the reply.
CancelWrite(r) ==
  /\ canceller[r] = "stepsClosed"
  /\ canceller' = [canceller EXCEPT ![r] = "idle"]
  /\ \/ UpdateStatus(r, "canceled") /\ UNCHANGED dropped
     \/ Drop(r) /\ UNCHANGED rowVars
  /\ UNCHANGED <<step, flowExists, serverVars, late, execVars, starter,
                 disturbed>>

CancellerDies(r) ==
  /\ canceller[r] \in {"accepted", "stepsClosed"}
  /\ canceller' = [canceller EXCEPT ![r] = "idle"]
  /\ Drop(r)
  /\ UNCHANGED <<rowVars, step, flowExists, serverVars, late, execVars,
                 starter, disturbed>>

------------------------------------------------------------------------------
(* Temporal: attempts of activities. *)

\* A worker takes the scheduled attempt; ExecuteNodeActivity is handed a definition.
AttemptStarts(r) ==
  /\ wf[r] = "open"
  /\ act[r] = "scheduled"
  /\ act' = [act EXCEPT ![r] = "started"]
  /\ \/ /\ awaits[r] = "execute"
        /\ exec' = [exec EXCEPT ![r] = "planning"]
        /\ \E P \in Plans : planned' = [planned EXCEPT ![r] = P]
     \/ awaits[r] # "execute" /\ UNCHANGED <<exec, planned>>
  /\ UNCHANGED <<rowVars, step, flowExists, wf, cancelReq, awaits, attempt,
                 late, visited, cur, apiVars, disturbed, dropped>>

\* UpdateRunStatusActivity on the worker; no row or a database error is an
\* error, and the statement may have been committed all the same.
UpdateRunStatus(r) ==
  /\ wf[r] = "open"
  /\ act[r] = "started"
  /\ awaits[r] \in Marks
  /\ \/ /\ UpdateStatus(r, Writes[awaits[r]])
        /\ \E a \in {"completed", "erred"} : act' = [act EXCEPT ![r] = a]
     \/ /\ act' = [act EXCEPT ![r] = "erred"]
        /\ UNCHANGED rowVars
  /\ UNCHANGED <<step, flowExists, wf, cancelReq, awaits, attempt, late,
                 execVars, apiVars, disturbed, dropped>>

\* LoadFlowDefinitionActivity on the worker.
LoadFlowDefinition(r) ==
  /\ wf[r] = "open"
  /\ act[r] = "started"
  /\ awaits[r] = "load"
  /\ \/ flowExists /\ act' = [act EXCEPT ![r] = "completed"]
     \/ act' = [act EXCEPT ![r] = "erred"]
  /\ UNCHANGED <<rowVars, step, flowExists, wf, cancelReq, awaits, attempt,
                 late, execVars, apiVars, disturbed, dropped>>

\* The error of a start node is not returned.
MutExecReturns(r) ==
  /\ wf[r] = "open"
  /\ act[r] = "started"
  /\ awaits[r] = "execute"
  /\ exec[r] \in {"ok", "error"}
  /\ act' = [act EXCEPT ![r] = "completed"]
  /\ UNCHANGED <<rowVars, step, flowExists, wf, cancelReq, awaits, attempt,
                 late, execVars, apiVars, disturbed, dropped>>

\* ExecuteNodeActivity returns to the SDK.
ExecReturns(r) ==
  /\ wf[r] = "open"
  /\ act[r] = "started"
  /\ awaits[r] = "execute"
  /\ \/ exec[r] = "ok" /\ act' = [act EXCEPT ![r] = "completed"]
     \/ exec[r] = "error" /\ act' = [act EXCEPT ![r] = "erred"]
  /\ UNCHANGED <<rowVars, step, flowExists, wf, cancelReq, awaits, attempt,
                 late, execVars, apiVars, disturbed, dropped>>

\* No MaximumAttempts, Temporal's default: retried for ever.
MutRetryOrFail(r) ==
  /\ act' = [act EXCEPT ![r] = "scheduled"]
  /\ UNCHANGED attempt

\* The attempt failed, timed out or was never taken: again, or give up.
RetryOrFail(r) ==
  IF attempt[r] < Attempts(awaits[r])
  THEN /\ act' = [act EXCEPT ![r] = "scheduled"]
       /\ attempt' = [attempt EXCEPT ![r] = @ + 1]
  ELSE /\ ~cancelReq[r]
       /\ act' = [act EXCEPT ![r] = "fail"]
       /\ UNCHANGED attempt

\* The server gives up on the attempt, whose write may still be on its way.
Abandon(r) ==
  IF act[r] = "started" /\ awaits[r] \in Marks
  THEN /\ late' = [late EXCEPT ![r] = @ \cup {<<awaits[r], attempt[r]>>}]
       /\ disturbed' = [disturbed EXCEPT ![r] = TRUE]
  ELSE UNCHANGED <<late, disturbed>>

\* The server takes the result of the attempt.
ReportCompleted(r) ==
  /\ wf[r] = "open"
  /\ act[r] = "completed"
  /\ ~cancelReq[r]
  /\ act' = [act EXCEPT ![r] = "ok"]
  /\ UNCHANGED <<rowVars, step, flowExists, wf, cancelReq, awaits, attempt,
                 late, execVars, apiVars, disturbed, dropped>>

ReportErred(r) ==
  /\ wf[r] = "open"
  /\ act[r] = "erred"
  /\ RetryOrFail(r)
  /\ UNCHANGED <<rowVars, step, flowExists, wf, cancelReq, awaits, late,
                 execVars, apiVars, disturbed, dropped>>

\* Start-to-close timeout: a worker died or is slow, or its answer was lost.
AttemptTimesOut(r) ==
  /\ wf[r] = "open"
  /\ act[r] \in {"started", "completed", "erred"}
  /\ RetryOrFail(r)
  /\ Abandon(r)
  /\ UNCHANGED <<rowVars, step, flowExists, wf, cancelReq, awaits, execVars,
                 apiVars, dropped>>

\* Schedule-to-close timeout: no worker took it.
ScheduleTimesOut(r) ==
  /\ wf[r] = "open"
  /\ act[r] = "scheduled"
  /\ ~cancelReq[r]
  /\ act' = [act EXCEPT ![r] = "fail"]
  /\ UNCHANGED <<rowVars, step, flowExists, wf, cancelReq, awaits, attempt,
                 late, execVars, apiVars, disturbed, dropped>>

\* An abandoned attempt writes after all.
LateWrite(r, l) ==
  /\ l \in late[r]
  /\ late' = [late EXCEPT ![r] = @ \ {l}]
  /\ UpdateStatus(r, Writes[l[1]])
  /\ UNCHANGED <<step, flowExists, serverVars, execVars, apiVars, disturbed,
                 dropped>>

\* Or it never does: its worker died, its context expired, the row is gone.
LateNever(r, l) ==
  /\ l \in late[r]
  /\ late' = [late EXCEPT ![r] = @ \ {l}]
  /\ UNCHANGED <<rowVars, step, flowExists, serverVars, execVars, apiVars,
                 disturbed, dropped>>

------------------------------------------------------------------------------
(* Temporal: RunFlowWorkflow, one action per workflow task. *)

\* The workflow asks for its next activity.
Await(r, a) ==
  /\ awaits' = [awaits EXCEPT ![r] = a]
  /\ act' = [act EXCEPT ![r] = "scheduled"]
  /\ attempt' = [attempt EXCEPT ![r] = 1]
  /\ UNCHANGED wf

\* The workflow function returns; awaits and act keep how it ended.
Return(r) ==
  /\ wf' = [wf EXCEPT ![r] = "closed"]
  /\ UNCHANGED <<awaits, act, attempt>>

\* Returns the error of the execution without writing failed.
MutAdvance(r) ==
  /\ wf[r] = "open"
  /\ \/ act[r] = "ok" /\ awaits[r] = "markRunning" /\ Await(r, "load")
     \/ act[r] = "ok" /\ awaits[r] = "load" /\ Await(r, "execute")
     \/ act[r] = "ok" /\ awaits[r] = "execute" /\ Await(r, "markSuccess")
     \/ act[r] = "ok" /\ awaits[r] = "markSuccess" /\ Return(r)
     \/ act[r] = "fail" /\ Return(r)
  /\ UNCHANGED <<rowVars, step, flowExists, cancelReq, late, execVars, apiVars,
                 disturbed, dropped>>

\* The awaited activity was resolved before a cancellation was: go on.
Advance(r) ==
  /\ wf[r] = "open"
  /\ \/ act[r] = "ok" /\ awaits[r] = "markRunning" /\ Await(r, "load")
     \/ act[r] = "ok" /\ awaits[r] = "load" /\ Await(r, "execute")
     \/ act[r] = "ok" /\ awaits[r] = "execute" /\ Await(r, "markSuccess")
     \/ act[r] = "ok" /\ awaits[r] \in {"markFailed", "markSuccess"} /\ Return(r)
     \/ act[r] = "fail" /\ awaits[r] \in {"load", "execute"} /\ Await(r, "markFailed")
     \/ act[r] = "fail" /\ awaits[r] \in Marks /\ Return(r)
  /\ UNCHANGED <<rowVars, step, flowExists, cancelReq, late, execVars, apiVars,
                 disturbed, dropped>>

\* The task that delivers the cancellation resolves the awaited activity with
\* CanceledError without waiting for it; every activity asked for after that, on
\* the canceled context, is resolved the same way and never runs, so the write
\* of failed or canceled that follows is not made.  The workflow returns.
ObserveCancel(r) ==
  /\ wf[r] = "open"
  /\ cancelReq[r]
  /\ wf' = [wf EXCEPT ![r] = "closed"]
  /\ act' = [act EXCEPT ![r] = "canceled"]
  /\ Abandon(r)
  /\ UNCHANGED <<rowVars, step, flowExists, cancelReq, awaits, attempt,
                 execVars, apiVars, dropped>>

------------------------------------------------------------------------------
(* Workers: ExecuteNodeActivity, one action per statement it executes.  It has  *)
(* no heartbeat: it neither sees a cancellation nor that its workflow closed.   *)

\* Nothing outside the activity changes.
ExecOnly ==
  UNCHANGED <<rowVars, flowExists, serverVars, late, apiVars, disturbed>>

\* RunStepRepository.CreateMany: inserted, or reset to queued when they exist.
PlanSteps(r) ==
  /\ exec[r] = "planning"
  /\ \/ /\ HasRow(r)
        /\ step' = [step EXCEPT ![r] = [s \in Steps |->
                      IF s \in planned[r] THEN "queued" ELSE @[s]]]
        /\ \E e \in {"running", "error"} : exec' = [exec EXCEPT ![r] = e]
     \/ /\ exec' = [exec EXCEPT ![r] = "error"]
        /\ UNCHANGED step
  /\ visited' = [visited EXCEPT ![r] = {}]
  /\ UNCHANGED <<planned, cur, dropped>>
  /\ ExecOnly

\* A node is entered: visited, then its step is written running, or executeNode
\* returns the error of that write.
StepBegins(r, s) ==
  /\ exec[r] = "running"
  /\ cur[r] = NoStep
  /\ s \in NodeSteps(r) \ visited[r]
  /\ visited' = [visited EXCEPT ![r] = @ \cup {s}]
  /\ \/ /\ UpdateState(r, s, "running")
        /\ \/ cur' = [cur EXCEPT ![r] = s] /\ UNCHANGED exec
           \/ exec' = [exec EXCEPT ![r] = "error"] /\ UNCHANGED cur
     \/ /\ exec' = [exec EXCEPT ![r] = "error"]
        /\ UNCHANGED <<step, cur>>
  /\ UNCHANGED <<planned, dropped>>
  /\ ExecOnly

\* The step leaves the call stack: the executor goes on, or the error that
\* executeNode returned ends the activity.
Leave(r, outcome) ==
  /\ cur' = [cur EXCEPT ![r] = NoStep]
  /\ exec' = [exec EXCEPT ![r] = outcome]
  /\ UNCHANGED <<planned, visited>>
  /\ ExecOnly

\* A retry inside the node: written running again, the error ignored.
StepRetries(r, s) ==
  /\ exec[r] = "running"
  /\ cur[r] = s
  /\ UpdateState(r, s, "running")
  /\ UNCHANGED <<execVars, dropped>>
  /\ ExecOnly

\* The node succeeded; the error of this write is returned.
StepSucceeds(r, s) ==
  /\ exec[r] = "running"
  /\ cur[r] = s
  /\ \/ UpdateState(r, s, "success") /\ \E e \in {"running", "error"} : Leave(r, e)
     \/ UNCHANGED step /\ Leave(r, "error")
  /\ UNCHANGED dropped

\* The node failed: written failed, or success when an error branch swallows the
\* error; that write's own error is ignored.  A failure stops the executor
\* unless it is swallowed, routed to the error trigger or continued.
StepFails(r, s) ==
  /\ exec[r] = "running"
  /\ cur[r] = s
  /\ \E w \in {"failed", "success"} :
       /\ \/ UpdateState(r, s, w) /\ UNCHANGED dropped
          \/ Drop(r) /\ UNCHANGED step
       /\ \E e \in {"running", "error"} :
            /\ w = "success" => e = "running"
            /\ Leave(r, e)

\* The context of the activity ended (deadline, worker shutdown): written
\* canceled on a context that did not, that write's error ignored.
StepInterrupted(r, s) ==
  /\ exec[r] = "running"
  /\ cur[r] = s
  /\ \/ UpdateState(r, s, "canceled") /\ UNCHANGED dropped
     \/ Drop(r) /\ UNCHANGED step
  /\ Leave(r, "error")

\* Returns without the loop that skips what was not reached.
MutStartsDone(r) ==
  /\ exec[r] = "running"
  /\ cur[r] = NoStep
  /\ exec' = [exec EXCEPT ![r] = "ok"]
  /\ UNCHANGED <<step, planned, visited, cur, dropped>>
  /\ ExecOnly

\* Every start node was executed: what was not reached will be skipped.
StartsDone(r) ==
  /\ exec[r] = "running"
  /\ cur[r] = NoStep
  /\ exec' = [exec EXCEPT ![r] = "skipping"]
  /\ UNCHANGED <<step, planned, visited, cur, dropped>>
  /\ ExecOnly

\* The loop over the planned steps passes over a step without a node.
StepSkipped(r, s) ==
  /\ exec[r] = "skipping"
  /\ s \in NodeSteps(r) \ visited[r]
  /\ visited' = [visited EXCEPT ![r] = @ \cup {s}]
  /\ \/ UpdateState(r, s, "skipped") /\ UNCHANGED dropped
     \/ Drop(r) /\ UNCHANGED step
  /\ UNCHANGED <<exec, planned, cur>>
  /\ ExecOnly

ExecDone(r) ==
  /\ exec[r] = "skipping"
  /\ visited[r] = NodeSteps(r)
  /\ exec' = [exec EXCEPT ![r] = "ok"]
  /\ UNCHANGED <<step, planned, visited, cur, dropped>>
  /\ ExecOnly

\* The worker process dies in the middle of the activity.
WorkerDies(r) ==
  /\ Active(r)
  /\ exec' = [exec EXCEPT ![r] = "dead"]
  /\ cur' = [cur EXCEPT ![r] = NoStep]
  /\ Drop(r)
  /\ UNCHANGED <<step, planned, visited>>
  /\ ExecOnly

------------------------------------------------------------------------------
(* The flow, its runs and their steps are deleted together (ON DELETE CASCADE). *)

DeleteFlow ==
  /\ flowExists
  /\ flowExists' = FALSE
  /\ status' = [r \in Runs |-> IF HasRow(r) THEN "deleted" ELSE status[r]]
  /\ step' = [r \in Runs |-> [s \in Steps |-> "absent"]]
  /\ UNCHANGED <<startedAt, finishedAt, serverVars, late, execVars, apiVars,
                 disturbed, dropped>>

------------------------------------------------------------------------------
Starter(r)   == StartAccepted(r) \/ StartUnconfirmed(r) \/ StartRejected(r)
                  \/ MarkStartFailed(r)
Canceller(r) == CancelRequest(r) \/ CancelOpenSteps(r) \/ CancelWrite(r)
Server(r)    == ReportCompleted(r) \/ ReportErred(r) \/ Advance(r) \/ ObserveCancel(r)
Attempt(r)   == AttemptStarts(r) \/ UpdateRunStatus(r) \/ LoadFlowDefinition(r)
                  \/ ExecReturns(r)
Executor(r)  == \/ PlanSteps(r) \/ StartsDone(r) \/ ExecDone(r)
                \/ \E s \in Steps : StepBegins(r, s) \/ StepSucceeds(r, s)
                                      \/ StepFails(r, s) \/ StepSkipped(r, s)
\* All that ExecuteNodeActivity does; FlowExecutor is shown to do nothing else.
ExecuteNode(r) == \/ Executor(r) \/ WorkerDies(r)
                  \/ \E s \in Steps : StepRetries(r, s) \/ StepInterrupted(r, s)
Faults(r)    == \/ StarterDies(r) \/ CancellerDies(r) \/ AttemptTimesOut(r)
                \/ ScheduleTimesOut(r) \/ WorkerDies(r)
                \/ \E s \in Steps : StepInterrupted(r, s)

Next ==
  \/ \E r \in Runs :
       \/ CreateRun(r) \/ CancelRead(r)
       \/ Starter(r) \/ Canceller(r) \/ Server(r) \/ Attempt(r) \/ Executor(r)
       \/ Faults(r)
       \/ \E s \in Steps : StepRetries(r, s)
       \/ \E l \in late[r] : LateWrite(r, l) \/ LateNever(r, l)
  \/ DeleteFlow

Spec == Init /\ [][Next]_vars

(***************************************************************************)
(* Handlers that are running finish, the Temporal server delivers tasks    *)
(* and results and enforces its timeouts, workers run what they took.      *)
(* Nobody has to create, cancel or delete anything; no fault has to        *)
(* happen, except that the server must notice a dead worker.               *)
(***************************************************************************)
Fairness ==
  \A r \in Runs :
    /\ WF_vars(Starter(r))
    /\ WF_vars(Canceller(r))
    /\ WF_vars(Server(r))
    /\ WF_vars(Attempt(r))
    /\ WF_vars(Executor(r))
    /\ WF_vars(exec[r] = "dead" /\ AttemptTimesOut(r))

FairSpec == Spec /\ Fairness

------------------------------------------------------------------------------
(* Properties *)

\* A run says success only if it was begun and its ExecuteNodeActivity returned
\* nil, whatever was retried, lost, late or canceled in between.
SuccessWasExecuted ==
  \A r \in Runs : status[r] = "success" => exec[r] = "ok" /\ startedAt[r]

\* Why it holds, in inductive form.  The evidence for success is what the row
\* and the worker record; it never goes away (an execution that ended is not
\* started again), and whoever is about to write success has it already: the
\* workflow once it awaits markSuccess, and every late attempt of markSuccess.
Evidence(r) == exec[r] = "ok" /\ startedAt[r]

SuccessIsEvident ==
  \A r \in Runs :
    \/ Evidence(r)
    \/ /\ status[r] # "success"
       /\ awaits[r] # "markSuccess"
       /\ \A l \in late[r] : l[1] # "markSuccess"

\* Going on from an activity is evidence of what it did.
AwaitsAreEvident ==
  \A r \in Runs :
    /\ awaits[r] \in {"load", "execute"} => startedAt[r]
    /\ awaits[r] = "markRunning" /\ act[r] \in {"completed", "ok"} => startedAt[r]
    /\ awaits[r] = "execute" /\ act[r] \in {"completed", "ok"} => exec[r] = "ok"

\* ExecuteNodeActivity has not begun before its only attempt is taken.
ExecutionIsFresh ==
  \A r \in Runs :
    /\ awaits[r] \in {"nothing", "markRunning", "load"} => exec[r] = "none"
    /\ awaits[r] = "execute" /\ act[r] = "scheduled" => exec[r] = "none"
    /\ awaits[r] # "nothing" => attempt[r] >= 1
    /\ starter[r] = "inserted" => awaits[r] = "nothing"
    /\ status[r] = "absent" => awaits[r] = "nothing" /\ starter[r] = "none"

ExecutionInv == SuccessIsEvident /\ AwaitsAreEvident /\ ExecutionIsFresh

\* No node's step of a run that says success is left open, unless an update was
\* dropped: executor and workflow agree on when a run is over, also when it was
\* canceled.  The step of a flow without nodes is left queued, for ever.
SuccessClosesSteps ==
  \A r \in Runs :
    status[r] = "success" /\ ~dropped[r] =>
      \A s \in NodeSteps(r) : step[r][s] \in Closed

\* When the workflow has returned and its last write was acknowledged, the row
\* shows that write, if nothing disturbed the run: no handler that is still
\* running and no other attempt overwrites a verdict.
VerdictStands ==
  \A r \in Runs :
    wf[r] = "closed" /\ act[r] = "ok" /\ HasRow(r) /\ ~disturbed[r]
      => status[r] = Writes[awaits[r]] /\ finishedAt[r]

\* Why: as long as nothing disturbed a run, its row is one write behind the
\* workflow at most, and the handlers write only what agrees with it.
HandlersAgree(r) ==
  /\ wf[r] = "none" <=> awaits[r] = "nothing"
  /\ wf[r] = "closed" /\ act[r] = "ok" => awaits[r] \in {"markFailed", "markSuccess"}
  /\ canceller[r] \in {"accepted", "stepsClosed"} => cancelReq[r]
  /\ cancelReq[r] => disturbed[r]
  /\ late[r] # {} => disturbed[r]

RowFollowsWorkflow(r) ==
  /\ starter[r] \in {"inserted", "startFailed"} =>
       awaits[r] = "nothing" /\ status[r] \in {"queued", "deleted"}
  /\ HasRow(r) =>
       /\ awaits[r] = "nothing" => status[r] \in {"queued", "failed"}
       /\ awaits[r] = "markRunning" => status[r] \in {"queued", "running"}
       /\ awaits[r] \in {"load", "execute"} => status[r] = "running"
       /\ awaits[r] \in {"markFailed", "markSuccess"}
            => status[r] \in {"running", Writes[awaits[r]]}
       /\ awaits[r] \in Marks /\ act[r] \in {"completed", "ok"}
            => status[r] = Writes[awaits[r]]
       /\ status[r] \in Terminal => finishedAt[r]
       /\ status[r] = "running" => startedAt[r]

RowInv ==
  \A r \in Runs : HandlersAgree(r) /\ (~disturbed[r] => RowFollowsWorkflow(r))

\* The rows of a run's steps exist only with the row of the run: an executor that
\* plans or writes while the flow is being deleted does not bring steps back.
StepsBelongToARun ==
  \A r \in Runs : ~HasRow(r) => \A s \in Steps : step[r][s] = "absent"

\* Whoever looks at a run and its steps sees two sides of one execution, but for
\* the step of a flow without nodes.
StepsFollowTheirRun == SuccessClosesSteps /\ StepsBelongToARun

\* Why: the executor knows which steps it has passed, and but for the cancel
\* handler nobody else writes them.
Begun(r, s) == step[r][s] = "running" \/ (step[r][s] = "canceled" /\ cancelReq[r])
Waiting(r, s) == step[r][s] = "queued" \/ (step[r][s] = "canceled" /\ cancelReq[r])

StepsFollowExecution(r) ==
  /\ exec[r] \in {"none", "planning"} => \A s \in Steps : step[r][s] = "absent"
  /\ cur[r] # NoStep => exec[r] = "running" /\ cur[r] \in visited[r]
  /\ HasRow(r) =>
       /\ exec[r] = "running" => \A s \in NodeSteps(r) \ visited[r] : Waiting(r, s)
       /\ cur[r] # NoStep => Begun(r, cur[r])
       /\ ~dropped[r] =>
            /\ exec[r] \in {"running", "skipping"} =>
                 \A s \in visited[r] \ {cur[r]} : step[r][s] \in Closed
            /\ exec[r] = "ok" => \A s \in NodeSteps(r) : step[r][s] \in Closed

StepInv == StepsBelongToARun /\ \A r \in Runs : StepsFollowExecution(r)

\* A step that is closed is never queued again, and is reopened only after the
\* user canceled the run: CreateMany, which resets existing steps, runs once.
ClosedStepsStayClosed ==
  [][\A r \in Runs : \A s \in Steps :
       step[r][s] \in Closed /\ HasRow(r)' =>
         \/ step'[r][s] \in Closed
         \/ step'[r][s] = "running" /\ cancelReq[r]]_vars

\* Comment of the workflow: a run is never silently re-run from its first node.
NeverReexecuted ==
  [][\A r \in Runs : exec[r] # "none" => exec'[r] # "planning" \/ exec[r] = "planning"]_vars

\* A workflow that was opened returns, whatever happens to its activities.
WorkflowsReturn ==
  \A r \in Runs : wf[r] = "open" ~> wf[r] = "closed"

\* A run does not stay queued or running for ever, unless an update was dropped,
\* the run was disturbed, or the status activity failed MaxAttempts times.
RunsSettle ==
  \A r \in Runs :
    status[r] \in {"queued", "running"} ~>
      \/ status[r] \notin {"queued", "running"}
      \/ dropped[r] \/ disturbed[r]
      \/ wf[r] = "closed" /\ act[r] = "fail" /\ awaits[r] \in Marks

\* The worker gets out of every ExecuteNodeActivity it took, also when its
\* workflow was canceled or its run deleted under it.
ExecutionsEnd ==
  \A r \in Runs : Active(r) ~> ~Active(r)

\* The server and the worker get rid of every run they took.
EverythingEnds == WorkflowsReturn /\ ExecutionsEnd

------------------------------------------------------------------------------
(* What the web client assumes, and the code breaks.                             *)

\* use-run-detail stops polling at a terminal status: it takes it for the last.
TerminalIsFinal ==
  [][\A r \in Runs : status[r] \in Terminal /\ HasRow(r)' => status'[r] = status[r]]_vars

------------------------------------------------------------------------------
\* The row a client sees implements the abstract life of a run.
Row == INSTANCE RunStatus
ImplementsRunStatus == Row!Spec
==============================================================================
