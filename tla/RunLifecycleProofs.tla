-------------------------- MODULE RunLifecycleProofs --------------------------
(***************************************************************************)
(* Theorems about RunLifecycle, for every set of runs and steps and every  *)
(* number of attempts.                                                     *)
(***************************************************************************)
EXTENDS RunLifecycle, TLAPS

\* The initial state is well typed.
LEMMA InitType == Init => TypeOK
BY DEF Init, TypeOK, RowTypeOK, StepTypeOK, ServerTypeOK, LateTypeOK, ExecTypeOK,
       ApiTypeOK, HistoryTypeOK, InTable, Terminal, Closed, Marks

\* What every UPDATE of the row keeps typed.
LEMMA UpdateStatusType ==
  ASSUME RowTypeOK, NEW r \in Runs, NEW s \in InTable, UpdateStatus(r, s)
  PROVE  RowTypeOK'
<1>1. status' \in [Runs -> InTable \cup {"absent", "deleted"}]
  BY DEF RowTypeOK, UpdateStatus
<1>2. startedAt' \in [Runs -> BOOLEAN]
  <2>1. startedAt' = [startedAt EXCEPT ![r] = startedAt[r] \/ s = "running"]
    BY Zenon DEF UpdateStatus
  <2>2. (startedAt[r] \/ s = "running") \in BOOLEAN
    BY Zenon
  <2> QED
    BY <2>1, <2>2, Zenon DEF RowTypeOK
<1>3. finishedAt' \in [Runs -> BOOLEAN]
  <2>1. finishedAt' = [finishedAt EXCEPT ![r] = finishedAt[r] \/ s \in Terminal]
    BY Zenon DEF UpdateStatus
  <2>2. (finishedAt[r] \/ s \in Terminal) \in BOOLEAN
    BY Zenon
  <2> QED
    BY <2>1, <2>2, Zenon DEF RowTypeOK
<1> QED
  BY <1>1, <1>2, <1>3 DEF RowTypeOK

\* A part whose variables do not change stays typed.
LEMMA UnchangedTypes ==
  ASSUME TypeOK
  PROVE  /\ UNCHANGED rowVars => RowTypeOK'
         /\ UNCHANGED step => StepTypeOK'
         /\ UNCHANGED flowExists => (flowExists \in BOOLEAN)'
         /\ UNCHANGED serverVars => ServerTypeOK'
         /\ UNCHANGED late => LateTypeOK'
         /\ UNCHANGED execVars => ExecTypeOK'
         /\ UNCHANGED apiVars => ApiTypeOK'
         /\ UNCHANGED <<disturbed, dropped>> => HistoryTypeOK'
BY DEF TypeOK, RowTypeOK, StepTypeOK, ServerTypeOK, LateTypeOK, ExecTypeOK,
       ApiTypeOK, HistoryTypeOK, rowVars, serverVars, execVars, apiVars

\* Recording a dropped update keeps the history typed.
LEMMA DropType ==
  ASSUME HistoryTypeOK, NEW r \in Runs, Drop(r), UNCHANGED disturbed
  PROVE  HistoryTypeOK'
BY DEF HistoryTypeOK, Drop

\* Creating a run keeps the types.
LEMMA StarterType ==
  ASSUME TypeOK, NEW r \in Runs,
         CreateRun(r) \/ Starter(r) \/ StarterDies(r)
  PROVE  TypeOK'
<1>1. RowTypeOK'
  <2>1. CASE CreateRun(r)
    BY <2>1 DEF CreateRun, TypeOK, RowTypeOK, InTable
  <2>2. CASE MarkStartFailed(r)
    <3>1. CASE UpdateStatus(r, "failed")
      BY <3>1, UpdateStatusType DEF TypeOK, InTable, Terminal
    <3>2. CASE UNCHANGED rowVars
      BY <3>2, UnchangedTypes
    <3> QED
      BY <2>2, <3>1, <3>2 DEF MarkStartFailed
  <2> QED
    BY <2>1, <2>2, UnchangedTypes
       DEF Starter, StartAccepted, StartUnconfirmed, StartRejected, StarterDies
<1>2. ServerTypeOK'
  <2>1. CASE OpenWorkflow(r)
    BY <2>1 DEF OpenWorkflow, TypeOK, ServerTypeOK, Marks
  <2> QED
    BY <2>1, UnchangedTypes
       DEF CreateRun, Starter, StartAccepted, StartUnconfirmed, StartRejected,
           MarkStartFailed, StarterDies
<1>3. ApiTypeOK'
  BY DEF TypeOK, ApiTypeOK, CreateRun, Starter, StartAccepted, StartUnconfirmed,
         StartRejected, MarkStartFailed, StarterDies
<1>4. HistoryTypeOK'
  BY DEF TypeOK, HistoryTypeOK, CreateRun, Starter, StartAccepted,
         StartUnconfirmed, StartRejected, MarkStartFailed, StarterDies, Drop
<1>5. /\ UNCHANGED <<step, flowExists, late>>
      /\ UNCHANGED execVars
  BY DEF CreateRun, Starter, StartAccepted, StartUnconfirmed, StartRejected,
         MarkStartFailed, StarterDies
<1> QED
  BY <1>1, <1>2, <1>3, <1>4, <1>5, UnchangedTypes DEF TypeOK

\* Canceling a run keeps the types.
LEMMA CancellerType ==
  ASSUME TypeOK, NEW r \in Runs,
         CancelRead(r) \/ Canceller(r) \/ CancellerDies(r)
  PROVE  TypeOK'
<1>1. RowTypeOK'
  <2>1. CASE CancelWrite(r)
    <3>1. CASE UpdateStatus(r, "canceled")
      BY <3>1, UpdateStatusType DEF TypeOK, InTable, Terminal
    <3>2. CASE UNCHANGED rowVars
      BY <3>2, UnchangedTypes
    <3> QED
      BY <2>1, <3>1, <3>2 DEF CancelWrite
  <2> QED
    BY <2>1, UnchangedTypes
       DEF CancelRead, Canceller, CancelRequest, CancelOpenSteps, CancellerDies
<1>2. StepTypeOK'
  <2>1. CASE CancelOpenSteps(r)
    BY <2>1 DEF CancelOpenSteps, TypeOK, StepTypeOK, Closed
  <2> QED
    BY <2>1, UnchangedTypes
       DEF CancelRead, Canceller, CancelRequest, CancelWrite, CancellerDies
<1>3. ServerTypeOK'
  <2>1. CASE CancelRequest(r)
    BY <2>1 DEF CancelRequest, TypeOK, ServerTypeOK
  <2> QED
    BY <2>1, UnchangedTypes
       DEF CancelRead, Canceller, CancelOpenSteps, CancelWrite, CancellerDies
<1>4. ApiTypeOK'
  BY DEF TypeOK, ApiTypeOK, CancelRead, Canceller, CancelRequest,
         CancelOpenSteps, CancelWrite, CancellerDies
<1>5. HistoryTypeOK'
  BY DEF TypeOK, HistoryTypeOK, CancelRead, Canceller, CancelRequest,
         CancelOpenSteps, CancelWrite, CancellerDies, Drop
<1>6. /\ UNCHANGED <<flowExists, late>>
      /\ UNCHANGED execVars
  BY DEF CancelRead, Canceller, CancelRequest, CancelOpenSteps, CancelWrite,
         CancellerDies
<1> QED
  BY <1>1, <1>2, <1>3, <1>4, <1>5, <1>6, UnchangedTypes DEF TypeOK

\* Writes is a status of the row for every status activity.
LEMMA WritesType == \A a \in Marks : Writes[a] \in InTable
BY DEF Writes, Marks, InTable, Terminal

\* Attempts of activities and the workflow keep the types.
LEMMA AttemptType ==
  ASSUME TypeOK, NEW r \in Runs, Attempt(r) \/ Server(r)
                   \/ AttemptTimesOut(r) \/ ScheduleTimesOut(r)
  PROVE  TypeOK'
<1> USE DEF Attempt, Server
<1>1. RowTypeOK'
  <2>1. CASE UpdateRunStatus(r)
    <3>1. CASE UpdateStatus(r, Writes[awaits[r]])
      <4>1. Writes[awaits[r]] \in InTable
        BY <2>1, WritesType DEF UpdateRunStatus
      <4> QED
        BY <3>1, <4>1, UpdateStatusType DEF TypeOK
    <3>2. CASE UNCHANGED rowVars
      BY <3>2, UnchangedTypes
    <3> QED
      BY <2>1, <3>1, <3>2 DEF UpdateRunStatus
  <2> QED
    BY <2>1, UnchangedTypes
       DEF AttemptStarts, LoadFlowDefinition, ExecReturns, ReportCompleted,
           ReportErred, Advance, ObserveCancel, AttemptTimesOut, ScheduleTimesOut
<1>2. ServerTypeOK'
  <2>1. CASE AttemptStarts(r) \/ UpdateRunStatus(r) \/ LoadFlowDefinition(r)
             \/ ExecReturns(r)
    BY <2>1 DEF TypeOK, ServerTypeOK, AttemptStarts, UpdateRunStatus,
                LoadFlowDefinition, ExecReturns
  <2>2. CASE ReportCompleted(r) \/ ObserveCancel(r) \/ ScheduleTimesOut(r)
    BY <2>2 DEF TypeOK, ServerTypeOK, ReportCompleted, ObserveCancel,
                ScheduleTimesOut
  <2>3. CASE ReportErred(r) \/ AttemptTimesOut(r)
    BY <2>3 DEF TypeOK, ServerTypeOK, ReportErred, AttemptTimesOut, RetryOrFail
  <2>4. CASE Advance(r)
    BY <2>4 DEF TypeOK, ServerTypeOK, Advance, Await, Return, Marks
  <2> QED
    BY <2>1, <2>2, <2>3, <2>4
<1>3. LateTypeOK' /\ HistoryTypeOK'
  <2>1. CASE Abandon(r) /\ UNCHANGED dropped
    <3>1. CASE act[r] = "started" /\ awaits[r] \in Marks
      <4>1. <<awaits[r], attempt[r]>> \in Marks \X Nat
        BY <3>1 DEF TypeOK, ServerTypeOK
      <4>2. LateTypeOK'
        BY <2>1, <3>1, <4>1 DEF TypeOK, LateTypeOK, Abandon
      <4> QED
        BY <2>1, <3>1, <4>2 DEF TypeOK, HistoryTypeOK, Abandon
    <3>2. CASE ~(act[r] = "started" /\ awaits[r] \in Marks)
      BY <2>1, <3>2, UnchangedTypes DEF Abandon
    <3> QED
      BY <3>1, <3>2
  <2>2. CASE UNCHANGED <<late, disturbed, dropped>>
    BY <2>2, UnchangedTypes
  <2> QED
    BY <2>1, <2>2
       DEF AttemptStarts, UpdateRunStatus, LoadFlowDefinition, ExecReturns,
           ReportCompleted, ReportErred, Advance, ObserveCancel,
           AttemptTimesOut, ScheduleTimesOut
<1>4. ExecTypeOK'
  <2>1. CASE AttemptStarts(r)
    BY <2>1, PlansAssumption DEF TypeOK, ExecTypeOK, AttemptStarts
  <2> QED
    BY <2>1, UnchangedTypes
       DEF UpdateRunStatus, LoadFlowDefinition, ExecReturns, ReportCompleted,
           ReportErred, Advance, ObserveCancel, AttemptTimesOut, ScheduleTimesOut
<1>5. /\ UNCHANGED <<step, flowExists>>
      /\ UNCHANGED apiVars
  BY DEF AttemptStarts, UpdateRunStatus, LoadFlowDefinition, ExecReturns,
         ReportCompleted, ReportErred, Advance, ObserveCancel,
         AttemptTimesOut, ScheduleTimesOut
<1> QED
  BY <1>1, <1>2, <1>3, <1>4, <1>5, UnchangedTypes DEF TypeOK

\* Writes of abandoned attempts keep the types.
LEMMA LateType ==
  ASSUME TypeOK, NEW r \in Runs, NEW l \in late[r],
         LateWrite(r, l) \/ LateNever(r, l)
  PROVE  TypeOK'
<1>1. LateTypeOK'
  BY DEF TypeOK, LateTypeOK, LateWrite, LateNever
<1>2. RowTypeOK'
  <2>1. CASE LateWrite(r, l)
    <3>1. l[1] \in Marks
      BY DEF TypeOK, LateTypeOK
    <3> QED
      BY <2>1, <3>1, WritesType, UpdateStatusType DEF LateWrite, TypeOK
  <2> QED
    BY <2>1, UnchangedTypes DEF LateNever
<1>3. /\ UNCHANGED <<step, flowExists, disturbed, dropped>>
      /\ UNCHANGED serverVars
      /\ UNCHANGED execVars
      /\ UNCHANGED apiVars
  BY DEF LateWrite, LateNever
<1> QED
  BY <1>1, <1>2, <1>3, UnchangedTypes DEF TypeOK

\* The statement of UpdateState keeps the steps typed.
LEMMA UpdateStateType ==
  ASSUME StepTypeOK, NEW r \in Runs, NEW s \in Steps,
         NEW new \in {"running"} \cup Closed, UpdateState(r, s, new)
  PROVE  StepTypeOK'
BY DEF StepTypeOK, UpdateState

\* The executor keeps the types.
LEMMA ExecutorType ==
  ASSUME TypeOK, NEW r \in Runs,
         \/ Executor(r) \/ WorkerDies(r)
         \/ \E s \in Steps : StepRetries(r, s) \/ StepInterrupted(r, s)
  PROVE  TypeOK'
<1>1. /\ UNCHANGED <<flowExists, late, disturbed>>
      /\ UNCHANGED rowVars
      /\ UNCHANGED serverVars
      /\ UNCHANGED apiVars
  BY DEF Executor, PlanSteps, StepBegins, StepSucceeds, StepFails, StartsDone,
         StepSkipped, ExecDone, WorkerDies, StepRetries, StepInterrupted,
         Leave, ExecOnly
<1>2. HistoryTypeOK'
  <2>1. UNCHANGED dropped \/ Drop(r)
    BY DEF Executor, PlanSteps, StepBegins, StepSucceeds, StepFails, StartsDone,
           StepSkipped, ExecDone, WorkerDies, StepRetries, StepInterrupted
  <2> QED
    BY <1>1, <2>1, DropType, UnchangedTypes DEF TypeOK
<1>3. CASE PlanSteps(r)
  <2>1. StepTypeOK'
    BY <1>3 DEF TypeOK, StepTypeOK, PlanSteps
  <2>2. ExecTypeOK'
    BY <1>3 DEF TypeOK, ExecTypeOK, PlanSteps
  <2> QED
    BY <1>1, <1>2, <2>1, <2>2, UnchangedTypes DEF TypeOK
<1>4. CASE StartsDone(r) \/ ExecDone(r) \/ WorkerDies(r)
  <2>1. StepTypeOK'
    BY <1>4, UnchangedTypes DEF StartsDone, ExecDone, WorkerDies
  <2>2. ExecTypeOK'
    BY <1>4 DEF TypeOK, ExecTypeOK, StartsDone, ExecDone, WorkerDies
  <2> QED
    BY <1>1, <1>2, <2>1, <2>2, UnchangedTypes DEF TypeOK
<1>5. ASSUME NEW s \in Steps,
             \/ StepBegins(r, s) \/ StepSucceeds(r, s) \/ StepFails(r, s)
             \/ StepSkipped(r, s) \/ StepRetries(r, s) \/ StepInterrupted(r, s)
      PROVE  TypeOK'
  <2>1. StepTypeOK'
    <3>1. \/ UNCHANGED step
          \/ \E new \in {"running"} \cup Closed : UpdateState(r, s, new)
      BY <1>5 DEF StepBegins, StepSucceeds, StepFails, StepSkipped, StepRetries,
                  StepInterrupted, Closed
    <3> QED
      BY <3>1, UpdateStateType, UnchangedTypes DEF TypeOK
  <2>2. ExecTypeOK'
    <3>1. CASE StepBegins(r, s) \/ StepSkipped(r, s) \/ StepRetries(r, s)
      BY <3>1 DEF TypeOK, ExecTypeOK, StepBegins, StepSkipped, StepRetries, execVars
    <3>2. CASE StepSucceeds(r, s) \/ StepFails(r, s) \/ StepInterrupted(r, s)
      <4>1. \E e \in {"running", "error"} : Leave(r, e)
        BY <3>2 DEF StepSucceeds, StepFails, StepInterrupted
      <4> QED
        BY <4>1 DEF Leave, TypeOK, ExecTypeOK
    <3> QED
      BY <1>5, <3>1, <3>2
  <2> QED
    BY <1>1, <1>2, <2>1, <2>2, UnchangedTypes DEF TypeOK
<1> QED
  BY <1>3, <1>4, <1>5 DEF Executor

\* Deleting the flow keeps the types.
LEMMA DeleteType == TypeOK /\ DeleteFlow => TypeOK'
<1> SUFFICES ASSUME TypeOK, DeleteFlow PROVE TypeOK'
  OBVIOUS
<1>1. RowTypeOK'
  BY DEF TypeOK, RowTypeOK, DeleteFlow
<1>2. StepTypeOK'
  BY DEF StepTypeOK, DeleteFlow
<1>3. flowExists' \in BOOLEAN
  BY DEF DeleteFlow
<1> QED
  BY <1>1, <1>2, <1>3, UnchangedTypes DEF TypeOK, DeleteFlow

\* TypeOK is inductive.
LEMMA NextType == TypeOK /\ [Next]_vars => TypeOK'
<1> SUFFICES ASSUME TypeOK, [Next]_vars PROVE TypeOK'
  OBVIOUS
<1>1. CASE UNCHANGED vars
  BY <1>1, UnchangedTypes DEF TypeOK, vars
<1>2. CASE DeleteFlow
  BY <1>2, DeleteType
<1>3. ASSUME NEW r \in Runs, CreateRun(r) \/ Starter(r) \/ StarterDies(r)
      PROVE TypeOK'
  BY <1>3, StarterType
<1>4. ASSUME NEW r \in Runs, CancelRead(r) \/ Canceller(r) \/ CancellerDies(r)
      PROVE TypeOK'
  BY <1>4, CancellerType
<1>5. ASSUME NEW r \in Runs, Attempt(r) \/ Server(r)
                               \/ AttemptTimesOut(r) \/ ScheduleTimesOut(r)
      PROVE TypeOK'
  BY <1>5, AttemptType
<1>6. ASSUME NEW r \in Runs, NEW l \in late[r], LateWrite(r, l) \/ LateNever(r, l)
      PROVE TypeOK'
  BY <1>6, LateType
<1>7. ASSUME NEW r \in Runs,
             \/ Executor(r) \/ WorkerDies(r)
             \/ \E s \in Steps : StepRetries(r, s) \/ StepInterrupted(r, s)
      PROVE TypeOK'
  BY <1>7, ExecutorType
<1> QED
  BY <1>1, <1>2, <1>3, <1>4, <1>5, <1>6, <1>7 DEF Next, Faults

\* Every reachable state is well typed.
THEOREM TypeCorrect == Spec => []TypeOK
<1> QED
  BY InitType, NextType, PTL DEF Spec

------------------------------------------------------------------------------
(* Success is said only of a run that was begun and executed. *)

\* The execution invariant holds initially.
LEMMA InitExecution == Init => ExecutionInv
BY DEF Init, ExecutionInv, SuccessIsEvident, AwaitsAreEvident, ExecutionIsFresh

\* What an UPDATE of the row does to the two columns the invariant is about.
LEMMA UpdateStatusFacts ==
  ASSUME TypeOK, NEW r \in Runs, NEW new \in InTable, UpdateStatus(r, new)
  PROVE  /\ status[r] \in InTable
         /\ status'[r] = new
         /\ new = "running" => startedAt'[r]
         /\ \A q \in Runs : startedAt[q] => startedAt'[q]
         /\ \A q \in Runs \ {r} : status'[q] = status[q]
<1>1. status[r] \in InTable
  BY DEF UpdateStatus, HasRow
<1>2. status'[r] = new /\ \A q \in Runs \ {r} : status'[q] = status[q]
  BY DEF UpdateStatus, TypeOK, RowTypeOK
<1>3. startedAt' = [startedAt EXCEPT ![r] = startedAt[r] \/ new = "running"]
  BY Zenon DEF UpdateStatus
<1>4. startedAt \in [Runs -> BOOLEAN]
  BY DEF TypeOK, RowTypeOK
<1>5. startedAt'[r] = (startedAt[r] \/ new = "running")
  BY <1>3, <1>4, Zenon
<1>6. \A q \in Runs \ {r} : startedAt'[q] = startedAt[q]
  BY <1>3, <1>4, Zenon
<1> QED
  BY <1>1, <1>2, <1>5, <1>6, Zenon

\* The evidence for success is never lost.
LEMMA EvidenceIsStable ==
  ASSUME TypeOK, ExecutionInv, Next, NEW q \in Runs
  PROVE  /\ startedAt[q] => startedAt'[q]
         /\ exec[q] = "ok" => exec'[q] = "ok"
<1>1. startedAt[q] => startedAt'[q]
  <2>1. CASE UNCHANGED startedAt
    BY <2>1
  <2>2. ASSUME NEW r \in Runs, NEW new \in InTable, UpdateStatus(r, new)
        PROVE  startedAt[q] => startedAt'[q]
    BY <2>2, UpdateStatusFacts
  <2>3. \/ UNCHANGED startedAt
        \/ \E r \in Runs : \E new \in InTable : UpdateStatus(r, new)
    <3>1. ASSUME NEW r \in Runs, MarkStartFailed(r) \/ CancelWrite(r)
          PROVE  UNCHANGED startedAt \/ \E new \in InTable : UpdateStatus(r, new)
      BY <3>1 DEF MarkStartFailed, CancelWrite, rowVars, InTable, Terminal
    <3>2. ASSUME NEW r \in Runs, UpdateRunStatus(r)
          PROVE  UNCHANGED startedAt \/ \E new \in InTable : UpdateStatus(r, new)
      BY <3>2, WritesType DEF UpdateRunStatus, rowVars
    <3>3. ASSUME NEW r \in Runs, NEW l \in late[r], LateWrite(r, l)
          PROVE  UNCHANGED startedAt \/ \E new \in InTable : UpdateStatus(r, new)
      <4>1. l[1] \in Marks
        BY DEF TypeOK, LateTypeOK
      <4> QED
        BY <3>3, <4>1, WritesType DEF LateWrite
    <3> QED
      BY <3>1, <3>2, <3>3
         DEF Next, rowVars, CreateRun, CancelRead, Starter, StartAccepted,
             StartUnconfirmed, StartRejected, Canceller, CancelRequest,
             CancelOpenSteps, Server, ReportCompleted, ReportErred, Advance,
             ObserveCancel, Attempt, AttemptStarts, LoadFlowDefinition,
             ExecReturns, Executor, PlanSteps, StepBegins, StepSucceeds,
             StepFails, StartsDone, StepSkipped, ExecDone, Faults, StarterDies,
             CancellerDies, AttemptTimesOut, ScheduleTimesOut, WorkerDies,
             StepInterrupted, StepRetries, LateNever, DeleteFlow, ExecOnly, Leave
  <2> QED
    BY <2>1, <2>2, <2>3
<1>2. exec[q] = "ok" => exec'[q] = "ok"
  <2>1. ASSUME NEW r \in Runs, AttemptStarts(r)
        PROVE  exec[q] = "ok" => exec'[q] = "ok"
    BY <2>1 DEF AttemptStarts, ExecutionInv, ExecutionIsFresh, TypeOK, ExecTypeOK
  <2>2. ASSUME NEW r \in Runs,
               \/ Executor(r) \/ WorkerDies(r)
               \/ \E s \in Steps : StepRetries(r, s) \/ StepInterrupted(r, s)
        PROVE  exec[q] = "ok" => exec'[q] = "ok"
    BY <2>2 DEF Executor, PlanSteps, StepBegins, StepSucceeds, StepFails,
                StartsDone, StepSkipped, ExecDone, WorkerDies, StepRetries,
                StepInterrupted, Leave, Active, TypeOK, ExecTypeOK, execVars
  <2>3. \/ UNCHANGED exec
        \/ \E r \in Runs : AttemptStarts(r)
        \/ \E r \in Runs :
             \/ Executor(r) \/ WorkerDies(r)
             \/ \E s \in Steps : StepRetries(r, s) \/ StepInterrupted(r, s)
    BY DEF Next, execVars, CreateRun, CancelRead, Starter, StartAccepted,
           StartUnconfirmed, StartRejected, MarkStartFailed, Canceller,
           CancelRequest, CancelOpenSteps, CancelWrite, Server, ReportCompleted,
           ReportErred, Advance, ObserveCancel, Attempt, UpdateRunStatus,
           LoadFlowDefinition, ExecReturns, Faults, StarterDies, CancellerDies,
           AttemptTimesOut, ScheduleTimesOut, LateWrite, LateNever, DeleteFlow
  <2> QED
    BY <2>1, <2>2, <2>3
<1> QED
  BY <1>1, <1>2

\* Writes tells the status activities apart.
LEMMA OnlyMarkSuccess == \A a \in Marks : Writes[a] = "success" => a = "markSuccess"
BY DEF Writes, Marks

\* Success is not forged: without the evidence nobody comes to write it.
LEMMA SuccessStep ==
  ASSUME TypeOK, ExecutionInv, Next
  PROVE  SuccessIsEvident'
<1> SUFFICES ASSUME NEW q \in Runs, ~Evidence(q)'
             PROVE  /\ status'[q] # "success"
                    /\ awaits'[q] # "markSuccess"
                    /\ \A l \in late'[q] : l[1] # "markSuccess"
  BY DEF SuccessIsEvident
<1>1. ~Evidence(q)
  BY EvidenceIsStable DEF Evidence
<1>2. /\ status[q] # "success"
      /\ awaits[q] # "markSuccess"
      /\ \A l \in late[q] : l[1] # "markSuccess"
  BY <1>1 DEF ExecutionInv, SuccessIsEvident
<1>3. status'[q] # "success"
  <2>1. ASSUME NEW r \in Runs, CreateRun(r) PROVE status'[q] # "success"
    BY <1>2, <2>1 DEF CreateRun, TypeOK, RowTypeOK
  <2>2. ASSUME NEW r \in Runs, MarkStartFailed(r) \/ CancelWrite(r)
        PROVE  status'[q] # "success"
    <3>1. \/ UNCHANGED status
          \/ UpdateStatus(r, "failed") \/ UpdateStatus(r, "canceled")
      BY <2>2 DEF MarkStartFailed, CancelWrite, rowVars
    <3> QED
      BY <1>2, <3>1, UpdateStatusFacts DEF InTable, Terminal
  <2>3. ASSUME NEW r \in Runs, UpdateRunStatus(r) PROVE status'[q] # "success"
    <3>1. CASE UNCHANGED status
      BY <1>2, <3>1
    <3>2. CASE UpdateStatus(r, Writes[awaits[r]])
      BY <1>2, <2>3, <3>2, WritesType, OnlyMarkSuccess, UpdateStatusFacts
         DEF UpdateRunStatus
    <3> QED
      BY <2>3, <3>1, <3>2 DEF UpdateRunStatus, rowVars
  <2>4. ASSUME NEW r \in Runs, NEW l \in late[r], LateWrite(r, l)
        PROVE  status'[q] # "success"
    <3>1. l[1] \in Marks
      BY DEF TypeOK, LateTypeOK
    <3> QED
      BY <1>2, <2>4, <3>1, WritesType, OnlyMarkSuccess, UpdateStatusFacts
         DEF LateWrite
  <2>5. CASE DeleteFlow
    BY <1>2, <2>5 DEF DeleteFlow
  <2> QED
    BY <1>2, <2>1, <2>2, <2>3, <2>4, <2>5
       DEF Next, rowVars, CancelRead, Starter, StartAccepted,
           StartUnconfirmed, StartRejected, Canceller, CancelRequest,
           CancelOpenSteps, Server, ReportCompleted, ReportErred, Advance,
           ObserveCancel, Attempt, AttemptStarts, LoadFlowDefinition,
           ExecReturns, Executor, PlanSteps, StepBegins, StepSucceeds,
           StepFails, StartsDone, StepSkipped, ExecDone, Faults, StarterDies,
           CancellerDies, AttemptTimesOut, ScheduleTimesOut, WorkerDies,
           StepInterrupted, StepRetries, LateNever, ExecOnly, Leave
<1>4. awaits'[q] # "markSuccess"
  <2>1. ASSUME NEW r \in Runs, Advance(r) PROVE awaits'[q] # "markSuccess"
    <3>1. CASE act[r] = "ok" /\ awaits[r] = "execute" /\ Await(r, "markSuccess")
      <4>1. Evidence(r)
        BY <3>1 DEF ExecutionInv, AwaitsAreEvident, Evidence
      <4> QED
        BY <1>1, <1>2, <3>1, <4>1 DEF Await, TypeOK, ServerTypeOK
    <3> QED
      BY <1>2, <2>1, <3>1 DEF Advance, Await, Return, TypeOK, ServerTypeOK
  <2>2. ASSUME NEW r \in Runs, OpenWorkflow(r) PROVE awaits'[q] # "markSuccess"
    BY <1>2, <2>2 DEF OpenWorkflow, TypeOK, ServerTypeOK
  <2> QED
    BY <1>2, <2>1, <2>2
       DEF Next, serverVars, CreateRun, CancelRead, Starter, StartAccepted,
           StartUnconfirmed, StartRejected, MarkStartFailed, Canceller,
           CancelRequest, CancelOpenSteps, CancelWrite, Server,
           ReportCompleted, ReportErred, ObserveCancel, Attempt, AttemptStarts,
           UpdateRunStatus, LoadFlowDefinition, ExecReturns, Executor,
           PlanSteps, StepBegins, StepSucceeds, StepFails, StartsDone,
           StepSkipped, ExecDone, Faults, StarterDies, CancellerDies,
           AttemptTimesOut, ScheduleTimesOut, WorkerDies, StepInterrupted,
           StepRetries, LateWrite, LateNever, DeleteFlow, ExecOnly, Leave
<1>5. \A l \in late'[q] : l[1] # "markSuccess"
  <2>1. ASSUME NEW r \in Runs, Abandon(r)
        PROVE  \A l \in late'[q] : l[1] # "markSuccess"
    BY <1>2, <2>1 DEF Abandon, TypeOK, LateTypeOK
  <2>2. ASSUME NEW r \in Runs, NEW l \in late[r], LateWrite(r, l) \/ LateNever(r, l)
        PROVE  \A k \in late'[q] : k[1] # "markSuccess"
    BY <1>2, <2>2 DEF LateWrite, LateNever, TypeOK, LateTypeOK
  <2> QED
    BY <1>2, <2>1, <2>2
       DEF Next, CreateRun, CancelRead, Starter, StartAccepted,
           StartUnconfirmed, StartRejected, MarkStartFailed, Canceller,
           CancelRequest, CancelOpenSteps, CancelWrite, Server,
           ReportCompleted, ReportErred, Advance, ObserveCancel, Attempt,
           AttemptStarts, UpdateRunStatus, LoadFlowDefinition, ExecReturns,
           Executor, PlanSteps, StepBegins, StepSucceeds, StepFails,
           StartsDone, StepSkipped, ExecDone, Faults, StarterDies,
           CancellerDies, AttemptTimesOut, ScheduleTimesOut, WorkerDies,
           StepInterrupted, StepRetries, DeleteFlow, ExecOnly, Leave
<1> QED
  BY <1>3, <1>4, <1>5

\* The actions that leave the server's part alone.
LEMMA ServerFrame ==
  ASSUME Next
  PROVE  \/ UNCHANGED <<awaits, act, attempt>>
         \/ \E r \in Runs : OpenWorkflow(r) /\ (StartAccepted(r) \/ StartUnconfirmed(r))
         \/ \E r \in Runs : Attempt(r) \/ Server(r)
                              \/ AttemptTimesOut(r) \/ ScheduleTimesOut(r)
BY DEF Next, serverVars, CreateRun, CancelRead, Starter, StartAccepted,
       StartUnconfirmed, StartRejected, MarkStartFailed, Canceller,
       CancelRequest, CancelOpenSteps, CancelWrite, Executor, PlanSteps,
       StepBegins, StepSucceeds, StepFails, StartsDone, StepSkipped, ExecDone,
       Faults, StarterDies, CancellerDies, WorkerDies, StepInterrupted,
       StepRetries, LateWrite, LateNever, DeleteFlow, ExecOnly, Leave

\* Going on from an activity stays evidence of what it did.
LEMMA AwaitsStep ==
  ASSUME TypeOK, ExecutionInv, Next
  PROVE  AwaitsAreEvident'
<1> SUFFICES ASSUME NEW q \in Runs
             PROVE  /\ awaits'[q] \in {"load", "execute"} => startedAt'[q]
                    /\ awaits'[q] = "markRunning" /\ act'[q] \in {"completed", "ok"}
                         => startedAt'[q]
                    /\ awaits'[q] = "execute" /\ act'[q] \in {"completed", "ok"}
                         => exec'[q] = "ok"
  BY DEF AwaitsAreEvident
<1> DEFINE Was == /\ awaits[q] \in {"load", "execute"} => startedAt[q]
                  /\ awaits[q] = "markRunning" /\ act[q] \in {"completed", "ok"}
                       => startedAt[q]
                  /\ awaits[q] = "execute" /\ act[q] \in {"completed", "ok"}
                       => exec[q] = "ok"
<1>1. Was
  BY DEF ExecutionInv, AwaitsAreEvident
<1>2. /\ startedAt[q] => startedAt'[q]
      /\ exec[q] = "ok" => exec'[q] = "ok"
  BY EvidenceIsStable
<1> HIDE DEF Was
<1> USE DEF TypeOK, ServerTypeOK
<1>3. CASE UNCHANGED <<awaits, act, attempt>>
  BY <1>1, <1>2, <1>3 DEF Was
<1>4. ASSUME NEW r \in Runs, OpenWorkflow(r)
      PROVE  Was'
  BY <1>1, <1>2, <1>4 DEF Was, OpenWorkflow
<1>5. ASSUME NEW r \in Runs, UpdateRunStatus(r) PROVE Was'
  <2>1. CASE UpdateStatus(r, Writes[awaits[r]])
    <3>1. awaits[r] = "markRunning" => startedAt'[r]
      BY <2>1, UpdateStatusFacts DEF Writes, InTable, Terminal
    <3> QED
      BY <1>1, <1>2, <1>5, <3>1 DEF Was, UpdateRunStatus, Marks
  <2>2. CASE act' = [act EXCEPT ![r] = "erred"]
    BY <1>1, <1>2, <1>5, <2>2 DEF Was, UpdateRunStatus
  <2> QED
    BY <1>5, <2>1, <2>2 DEF UpdateRunStatus
<1>6. ASSUME NEW r \in Runs, AttemptStarts(r) \/ LoadFlowDefinition(r) \/ ExecReturns(r)
      PROVE  Was'
  BY <1>1, <1>2, <1>6 DEF Was, AttemptStarts, LoadFlowDefinition, ExecReturns
<1>7. ASSUME NEW r \in Runs, ReportCompleted(r) \/ ObserveCancel(r) \/ ScheduleTimesOut(r)
      PROVE  Was'
  BY <1>1, <1>2, <1>7 DEF Was, ReportCompleted, ObserveCancel, ScheduleTimesOut
<1>8. ASSUME NEW r \in Runs, ReportErred(r) \/ AttemptTimesOut(r)
      PROVE  Was'
  BY <1>1, <1>2, <1>8 DEF Was, ReportErred, AttemptTimesOut, RetryOrFail
<1>9. ASSUME NEW r \in Runs, Advance(r) PROVE Was'
  <2>1. awaits[r] = "load" => startedAt[r]
    BY DEF ExecutionInv, AwaitsAreEvident
  <2>2. awaits[r] = "markRunning" /\ act[r] = "ok" => startedAt[r]
    BY DEF ExecutionInv, AwaitsAreEvident
  <2> QED
    BY <1>1, <1>2, <1>9, <2>1, <2>2 DEF Was, Advance, Await, Return
<1> QED
  BY <1>3, <1>4, <1>5, <1>6, <1>7, <1>8, <1>9, ServerFrame DEF Was, Attempt, Server

\* Only the attempt that takes ExecuteNodeActivity starts an execution; the
\* executor's own steps move one that exists and touch no other process.
LEMMA ExecFrame ==
  ASSUME TypeOK, Next, NEW q \in Runs
  PROVE  \/ exec'[q] = exec[q]
         \/ AttemptStarts(q)
         \/ /\ exec[q] # "none"
            /\ exec'[q] \notin {"none", "planning"}
            /\ UNCHANGED <<status, starter, awaits, act, attempt>>
<1>1. ASSUME NEW r \in Runs,
             \/ Executor(r) \/ WorkerDies(r)
             \/ \E s \in Steps : StepRetries(r, s) \/ StepInterrupted(r, s)
      PROVE  \/ exec'[q] = exec[q]
             \/ /\ exec[q] # "none"
                /\ exec'[q] \notin {"none", "planning"}
                /\ UNCHANGED <<status, starter, awaits, act, attempt>>
  <2>1. ExecOnly
    BY <1>1 DEF Executor, PlanSteps, StepBegins, StepSucceeds, StepFails,
                StartsDone, StepSkipped, ExecDone, WorkerDies, StepRetries,
                StepInterrupted, Leave
  <2>2. UNCHANGED <<status, starter, awaits, act, attempt>>
    BY <2>1 DEF ExecOnly, rowVars, apiVars, serverVars
  <2>3. \/ UNCHANGED exec
        \/ exec[r] # "none" /\ \E e \in {"running", "skipping", "ok", "error", "dead"} :
             exec' = [exec EXCEPT ![r] = e]
    BY <1>1 DEF Executor, PlanSteps, StepBegins, StepSucceeds, StepFails,
                StartsDone, StepSkipped, ExecDone, WorkerDies, StepRetries,
                StepInterrupted, Leave, Active, execVars
  <2>4. ASSUME exec[r] # "none",
               NEW e \in {"running", "skipping", "ok", "error", "dead"},
               exec' = [exec EXCEPT ![r] = e]
        PROVE  exec'[q] = exec[q] \/ (exec[q] # "none" /\ exec'[q] = e)
    BY <2>4 DEF TypeOK, ExecTypeOK
  <2>5. CASE UNCHANGED exec
    BY <2>5
  <2> QED
    BY <2>2, <2>3, <2>4, <2>5
<1>2. ASSUME NEW r \in Runs, AttemptStarts(r)
      PROVE  exec'[q] = exec[q] \/ AttemptStarts(q)
  BY <1>2 DEF AttemptStarts, TypeOK, ExecTypeOK
<1> QED
  BY <1>1, <1>2
     DEF Next, execVars, CreateRun, CancelRead, Starter, StartAccepted,
         StartUnconfirmed, StartRejected, MarkStartFailed, Canceller,
         CancelRequest, CancelOpenSteps, CancelWrite, Server, ReportCompleted,
         ReportErred, Advance, ObserveCancel, Attempt, UpdateRunStatus,
         LoadFlowDefinition, ExecReturns, Faults, StarterDies, CancellerDies,
         AttemptTimesOut, ScheduleTimesOut, LateWrite, LateNever, DeleteFlow

\* A row that is there never becomes absent again.
LEMMA RowStep ==
  ASSUME TypeOK, Next, NEW q \in Runs
  PROVE  status'[q] = "absent" => status[q] = "absent"
<1>1. CASE UNCHANGED status
  BY <1>1
<1>2. ASSUME NEW r \in Runs, NEW new \in InTable, UpdateStatus(r, new)
      PROVE  status'[q] = "absent" => status[q] = "absent"
  BY <1>2, UpdateStatusFacts DEF InTable, Terminal
<1>3. ASSUME NEW r \in Runs, CreateRun(r)
      PROVE  status'[q] = "absent" => status[q] = "absent"
  BY <1>3 DEF CreateRun, TypeOK, RowTypeOK
<1>4. CASE DeleteFlow
  BY <1>4 DEF DeleteFlow
<1>5. ASSUME NEW r \in Runs, MarkStartFailed(r) \/ CancelWrite(r)
      PROVE  UNCHANGED status \/ \E new \in InTable : UpdateStatus(r, new)
  BY <1>5 DEF MarkStartFailed, CancelWrite, rowVars, InTable, Terminal
<1>6. ASSUME NEW r \in Runs, UpdateRunStatus(r)
      PROVE  UNCHANGED status \/ \E new \in InTable : UpdateStatus(r, new)
  BY <1>6, WritesType DEF UpdateRunStatus, rowVars
<1>7. ASSUME NEW r \in Runs, NEW l \in late[r], LateWrite(r, l)
      PROVE  \E new \in InTable : UpdateStatus(r, new)
  BY <1>7, WritesType DEF LateWrite, TypeOK, LateTypeOK
<1> QED
  BY <1>1, <1>2, <1>3, <1>4, <1>5, <1>6, <1>7
     DEF Next, rowVars, CancelRead, Starter, StartAccepted, StartUnconfirmed,
         StartRejected, Canceller, CancelRequest, CancelOpenSteps, Server,
         ReportCompleted, ReportErred, Advance, ObserveCancel, Attempt,
         AttemptStarts, LoadFlowDefinition, ExecReturns, Executor, PlanSteps,
         StepBegins, StepSucceeds, StepFails, StartsDone, StepSkipped, ExecDone,
         Faults, StarterDies, CancellerDies, AttemptTimesOut, ScheduleTimesOut,
         WorkerDies, StepInterrupted, StepRetries, LateNever, ExecOnly, Leave

\* The handler that creates a run is entered with the row and left for good; only
\* it makes the server await a first activity.
LEMMA StarterStep ==
  ASSUME TypeOK, Next, NEW q \in Runs
  PROVE  \/ starter'[q] = starter[q] /\ (awaits'[q] = awaits[q] \/ awaits[q] # "nothing")
         \/ CreateRun(q)
         \/ /\ starter[q] \in {"inserted", "startFailed"}
            /\ starter'[q] \in {"startFailed", "done"}
<1> USE DEF TypeOK, ApiTypeOK, ServerTypeOK
<1>1. ASSUME NEW r \in Runs, CreateRun(r)
      PROVE  (starter'[q] = starter[q] /\ awaits'[q] = awaits[q]) \/ CreateRun(q)
  BY <1>1 DEF CreateRun, serverVars
<1>2. ASSUME NEW r \in Runs,
             \/ OpenWorkflow(r) /\ (StartAccepted(r) \/ StartUnconfirmed(r))
             \/ StartRejected(r) \/ MarkStartFailed(r) \/ StarterDies(r)
      PROVE  \/ starter'[q] = starter[q] /\ awaits'[q] = awaits[q]
             \/ /\ starter[q] \in {"inserted", "startFailed"}
                /\ starter'[q] \in {"startFailed", "done"}
  BY <1>2 DEF OpenWorkflow, StartAccepted, StartUnconfirmed, StartRejected,
              MarkStartFailed, StarterDies, serverVars
<1>3. ASSUME NEW r \in Runs, Advance(r)
      PROVE  starter'[q] = starter[q] /\ (awaits'[q] = awaits[q] \/ awaits[q] # "nothing")
  BY <1>3 DEF Advance, Await, Return, apiVars, Marks
<1> QED
  BY <1>1, <1>2, <1>3
     DEF Next, serverVars, apiVars, CancelRead, Starter, StartAccepted,
         StartUnconfirmed, Canceller,
         CancelRequest, CancelOpenSteps, CancelWrite, Server, ReportCompleted,
         ReportErred, ObserveCancel, Attempt, AttemptStarts, UpdateRunStatus,
         LoadFlowDefinition, ExecReturns, Executor, PlanSteps, StepBegins,
         StepSucceeds, StepFails, StartsDone, StepSkipped, ExecDone, Faults,
         CancellerDies, AttemptTimesOut, ScheduleTimesOut, WorkerDies,
         StepInterrupted, StepRetries, LateWrite, LateNever, DeleteFlow,
         ExecOnly, Leave

\* An execution that has not begun stays so until its only attempt is taken.
LEMMA FreshStep ==
  ASSUME TypeOK, ExecutionInv, Next
  PROVE  ExecutionIsFresh'
<1> DEFINE Fresh(q)   == /\ awaits[q] \in {"nothing", "markRunning", "load"}
                              => exec[q] = "none"
                         /\ awaits[q] = "execute" /\ act[q] = "scheduled"
                              => exec[q] = "none"
                         /\ awaits[q] # "nothing" => attempt[q] >= 1
           Created(q) == /\ starter[q] = "inserted" => awaits[q] = "nothing"
                         /\ status[q] = "absent"
                              => awaits[q] = "nothing" /\ starter[q] = "none"
<1>1. \A q \in Runs : Fresh(q) /\ Created(q)
  BY DEF ExecutionInv, ExecutionIsFresh
<1>2. SUFFICES ASSUME NEW q \in Runs PROVE Fresh(q)' /\ Created(q)'
  BY DEF ExecutionIsFresh
<1>3. Fresh(q)'
  <2> USE DEF TypeOK, ServerTypeOK
  <2>1. CASE UNCHANGED <<awaits, act, attempt>>
    <3>1. ~AttemptStarts(q)
      BY <2>1 DEF AttemptStarts
    <3> QED
      BY <1>1, <2>1, <3>1, ExecFrame
  <2>2. ASSUME NEW r \in Runs, OpenWorkflow(r), StartAccepted(r) \/ StartUnconfirmed(r)
        PROVE  Fresh(q)'
    <3>1. awaits[r] = "nothing"
      BY <1>1, <2>2 DEF StartAccepted, StartUnconfirmed
    <3>2. UNCHANGED exec
      BY <2>2 DEF StartAccepted, StartUnconfirmed, execVars
    <3> QED
      BY <1>1, <2>2, <3>1, <3>2 DEF OpenWorkflow
  <2>3. ASSUME NEW r \in Runs, AttemptStarts(r) PROVE Fresh(q)'
    BY <1>1, <2>3 DEF AttemptStarts, ExecTypeOK
  <2>4. ASSUME NEW r \in Runs,
               \/ UpdateRunStatus(r) \/ LoadFlowDefinition(r) \/ ExecReturns(r)
               \/ ReportCompleted(r) \/ ObserveCancel(r) \/ ScheduleTimesOut(r)
        PROVE  Fresh(q)'
    <3>1. UNCHANGED <<awaits, attempt, exec>>
      BY <2>4 DEF UpdateRunStatus, LoadFlowDefinition, ExecReturns,
                  ReportCompleted, ObserveCancel, ScheduleTimesOut, execVars
    <3>2. act'[q] = "scheduled" => act[q] = "scheduled"
      BY <2>4 DEF UpdateRunStatus, LoadFlowDefinition, ExecReturns,
                  ReportCompleted, ObserveCancel, ScheduleTimesOut
    <3> QED
      BY <1>1, <3>1, <3>2
  <2>5. ASSUME NEW r \in Runs, ReportErred(r) \/ AttemptTimesOut(r) PROVE Fresh(q)'
    <3>1. UNCHANGED <<awaits, exec>> /\ RetryOrFail(r)
      BY <2>5 DEF ReportErred, AttemptTimesOut, execVars
    <3>2. CASE q = r /\ awaits[q] = "execute"
      <4>1. ~(attempt[q] < Attempts(awaits[q]))
        BY <1>1, <3>2 DEF Attempts
      <4>2. act'[q] = "fail" /\ attempt'[q] = attempt[q]
        BY <3>1, <3>2, <4>1 DEF RetryOrFail
      <4> QED
        BY <1>1, <3>1, <3>2, <4>2
    <3>3. CASE q = r /\ awaits[q] # "execute"
      <4>1. attempt'[q] >= attempt[q]
        BY <3>1, <3>3 DEF RetryOrFail
      <4> QED
        BY <1>1, <3>1, <3>3, <4>1 DEF RetryOrFail
    <3>4. CASE q # r
      BY <1>1, <3>1, <3>4 DEF RetryOrFail
    <3> QED
      BY <3>2, <3>3, <3>4
  <2>6. ASSUME NEW r \in Runs, Advance(r) PROVE Fresh(q)'
    <3>1. UNCHANGED exec
      BY <2>6 DEF Advance, execVars
    <3>2. CASE Return(r)
      BY <1>1, <3>1, <3>2 DEF Return
    <3>3. ASSUME NEW a \in {"load", "execute"}, awaits[r] \in {"markRunning", "load"},
                 Await(r, a)
          PROVE  Fresh(q)'
      BY <1>1, <3>1, <3>3 DEF Await
    <3>4. ASSUME NEW a \in {"markFailed", "markSuccess"}, Await(r, a)
          PROVE  Fresh(q)'
      BY <1>1, <3>1, <3>4 DEF Await
    <3> QED
      BY <2>6, <3>2, <3>3, <3>4 DEF Advance
  <2> QED
    BY <2>1, <2>2, <2>3, <2>4, <2>5, <2>6, ServerFrame DEF Attempt, Server
<1>4. Created(q)'
  <2>1. CASE CreateRun(q)
    BY <1>1, <2>1 DEF CreateRun, TypeOK, RowTypeOK, serverVars
  <2>2. CASE starter'[q] = starter[q] /\ (awaits'[q] = awaits[q] \/ awaits[q] # "nothing")
    BY <1>1, <2>2, RowStep
  <2>3. CASE /\ starter[q] \in {"inserted", "startFailed"}
             /\ starter'[q] \in {"startFailed", "done"}
    BY <1>1, <2>3, RowStep
  <2> QED
    BY <2>1, <2>2, <2>3, StarterStep
<1> QED
  BY <1>3, <1>4

\* ExecutionInv is inductive, relative to TypeOK.
LEMMA NextExecution == TypeOK /\ ExecutionInv /\ [Next]_vars => ExecutionInv'
<1>1. ASSUME TypeOK, ExecutionInv, Next PROVE ExecutionInv'
  BY <1>1, SuccessStep, AwaitsStep, FreshStep DEF ExecutionInv
<1>2. ASSUME ExecutionInv, UNCHANGED vars PROVE ExecutionInv'
  BY <1>2 DEF ExecutionInv, SuccessIsEvident, AwaitsAreEvident, ExecutionIsFresh,
              Evidence, vars, rowVars, serverVars, execVars, apiVars
<1> QED
  BY <1>1, <1>2

\* ExecutionInv, the reason why success is never said without an execution, is an
\* invariant: a late answer, a retry or a cancellation cannot forge the evidence.
THEOREM ExecutionInvariant == Spec => []ExecutionInv
<1> QED
  BY TypeCorrect, InitExecution, NextExecution, PTL DEF Spec

\* A run says success only if it was begun and ExecuteNodeActivity returned nil.
THEOREM SuccessWasExecutedAlways == Spec => []SuccessWasExecuted
<1>1. ExecutionInv => SuccessWasExecuted
  BY DEF ExecutionInv, SuccessIsEvident, Evidence, SuccessWasExecuted
<1> QED
  BY <1>1, ExecutionInvariant, PTL

\* No retry, timeout or restart executes a run from its first node again: the
\* executor enters "planning" at most once per run.
THEOREM NeverReexecutedAlways == Spec => NeverReexecuted
<1> DEFINE Once == \A r \in Runs :
                     exec[r] # "none" => exec'[r] # "planning" \/ exec[r] = "planning"
<1>1. TypeOK /\ ExecutionInv /\ [Next]_vars => [Once]_vars
  <2> SUFFICES ASSUME TypeOK, ExecutionInv, Next, NEW r \in Runs, exec[r] # "none"
               PROVE  exec'[r] # "planning" \/ exec[r] = "planning"
    OBVIOUS
  <2>1. ~AttemptStarts(r) \/ exec'[r] = exec[r]
    BY DEF AttemptStarts, ExecutionInv, ExecutionIsFresh, TypeOK, ExecTypeOK
  <2> QED
    BY <2>1, ExecFrame
<1> QED
  BY <1>1, TypeCorrect, ExecutionInvariant, PTL DEF Spec, NeverReexecuted

(***************************************************************************)
(* The row of a run follows its workflow, its steps follow its execution,  *)
(* and what a client reads of it implements RunStatus.                     *)
(*                                                                         *)
(* The argument is local to a run: a step is the deletion of the flow, or  *)
(* one run acts and every other run stays as it is (RunsAreApart).  What   *)
(* is to be shown is then shown of the acting run alone, action by action. *)
(***************************************************************************)
------------------------------------------------------------------------------
(* The row of a run follows its workflow. *)

\* What one run does, by whichever process.
Acts(r) ==
  \/ CreateRun(r) \/ CancelRead(r)
  \/ Starter(r) \/ Canceller(r) \/ Server(r) \/ Attempt(r) \/ Executor(r)
  \/ Faults(r)
  \/ \E s \in Steps : StepRetries(r, s)
  \/ \E l \in late[r] : LateWrite(r, l) \/ LateNever(r, l)

\* Nothing of the run changes.
RowStays(q)      == /\ status'[q] = status[q]
                    /\ startedAt'[q] = startedAt[q]
                    /\ finishedAt'[q] = finishedAt[q]
StepsStay(q)     == step'[q] = step[q]
ServerStays(q)   == /\ wf'[q] = wf[q] /\ cancelReq'[q] = cancelReq[q]
                    /\ awaits'[q] = awaits[q] /\ act'[q] = act[q]
                    /\ attempt'[q] = attempt[q] /\ late'[q] = late[q]
ExecutionStays(q) ==
  /\ exec'[q] = exec[q] /\ planned'[q] = planned[q]
  /\ visited'[q] = visited[q] /\ cur'[q] = cur[q]
HandlersStay(q)  == starter'[q] = starter[q] /\ canceller'[q] = canceller[q]
HistoryStays(q)  == disturbed'[q] = disturbed[q] /\ dropped'[q] = dropped[q]
Stays(q) == /\ RowStays(q) /\ StepsStay(q) /\ ServerStays(q)
            /\ ExecutionStays(q) /\ HandlersStay(q) /\ HistoryStays(q)

\* What an UPDATE of the row does to each run, time stamps included.
LEMMA UpdateStatusRow ==
  ASSUME TypeOK, NEW r \in Runs, NEW new \in InTable, UpdateStatus(r, new)
  PROVE  /\ status[r] \in InTable
         /\ status'[r] = new
         /\ startedAt'[r] = (startedAt[r] \/ new = "running")
         /\ finishedAt'[r] = (finishedAt[r] \/ new \in Terminal)
         /\ \A q \in Runs \ {r} : RowStays(q)
<1>1. status[r] \in InTable
  BY DEF UpdateStatus, HasRow
<1>2. status'[r] = new /\ \A q \in Runs \ {r} : status'[q] = status[q]
  BY DEF UpdateStatus, TypeOK, RowTypeOK
<1>3. /\ startedAt' = [startedAt EXCEPT ![r] = startedAt[r] \/ new = "running"]
      /\ finishedAt' = [finishedAt EXCEPT ![r] = finishedAt[r] \/ new \in Terminal]
  BY Zenon DEF UpdateStatus
<1>4. startedAt \in [Runs -> BOOLEAN] /\ finishedAt \in [Runs -> BOOLEAN]
  BY DEF TypeOK, RowTypeOK
<1>5. startedAt'[r] = (startedAt[r] \/ new = "running")
  BY <1>3, <1>4, Zenon
<1>6. finishedAt'[r] = (finishedAt[r] \/ new \in Terminal)
  BY <1>3, <1>4, Zenon
<1>7. \A q \in Runs \ {r} : startedAt'[q] = startedAt[q] /\ finishedAt'[q] = finishedAt[q]
  BY <1>3, <1>4, Zenon
<1> QED
  BY <1>1, <1>2, <1>5, <1>6, <1>7, Zenon DEF RowStays

\* The row is written by UPDATE alone, or not at all.
LEMMA RowWrites ==
  ASSUME TypeOK, NEW r \in Runs, Acts(r)
  PROVE  \/ CreateRun(r)
         \/ UNCHANGED rowVars
         \/ MarkStartFailed(r) /\ UpdateStatus(r, "failed")
         \/ CancelWrite(r) /\ UpdateStatus(r, "canceled")
         \/ UpdateRunStatus(r) /\ UpdateStatus(r, Writes[awaits[r]])
         \/ \E l \in late[r] : LateWrite(r, l) /\ UpdateStatus(r, Writes[l[1]])
<1>1. CASE MarkStartFailed(r)
  BY <1>1 DEF MarkStartFailed
<1>2. CASE CancelWrite(r)
  BY <1>2 DEF CancelWrite
<1>3. CASE UpdateRunStatus(r)
  BY <1>3 DEF UpdateRunStatus
<1>4. ASSUME NEW l \in late[r], LateWrite(r, l)
      PROVE  UpdateStatus(r, Writes[l[1]])
  BY <1>4 DEF LateWrite
<1> QED
  BY <1>1, <1>2, <1>3, <1>4
     DEF Acts, CancelRead, Starter, StartAccepted,
         StartUnconfirmed, StartRejected, Canceller, CancelRequest,
         CancelOpenSteps, Server, ReportCompleted, ReportErred, Advance,
         ObserveCancel, Attempt, AttemptStarts, LoadFlowDefinition,
         ExecReturns, Executor, PlanSteps, StepBegins, StepSucceeds,
         StepFails, StartsDone, StepSkipped, ExecDone, Faults, StarterDies,
         CancellerDies, AttemptTimesOut, ScheduleTimesOut, WorkerDies,
         StepInterrupted, StepRetries, LateNever, ExecOnly, Leave

\* What one run does leaves every other run alone.
LEMMA RunsAreApart ==
  ASSUME TypeOK, NEW r \in Runs, NEW q \in Runs \ {r}, Acts(r)
  PROVE  Stays(q)
<1>1. RowStays(q)
  <2>1. CASE CreateRun(r)
    BY <2>1 DEF CreateRun, RowStays, TypeOK, RowTypeOK
  <2>2. CASE UNCHANGED rowVars
    BY <2>2 DEF rowVars, RowStays
  <2>3. ASSUME NEW new \in InTable, UpdateStatus(r, new) PROVE RowStays(q)
    BY <2>3, UpdateStatusRow
  <2>4. \A l \in late[r] : Writes[l[1]] \in InTable
    BY WritesType DEF TypeOK, LateTypeOK
  <2>5. UpdateRunStatus(r) => Writes[awaits[r]] \in InTable
    BY WritesType DEF UpdateRunStatus
  <2>6. "failed" \in InTable /\ "canceled" \in InTable
    BY DEF InTable, Terminal
  <2> QED
    BY <2>1, <2>2, <2>3, <2>4, <2>5, <2>6, RowWrites
<1>2. StepsStay(q)
  <2>1. ASSUME NEW s \in Steps, NEW new, UpdateState(r, s, new)
        PROVE  StepsStay(q)
    BY <2>1 DEF UpdateState, StepsStay, TypeOK, StepTypeOK
  <2>2. CASE UNCHANGED step
    BY <2>2 DEF StepsStay
  <2>3. CASE CancelOpenSteps(r) \/ PlanSteps(r)
    BY <2>3 DEF CancelOpenSteps, PlanSteps, StepsStay, TypeOK, StepTypeOK
  <2>4. CASE \/ (Executor(r) /\ ~PlanSteps(r)) \/ WorkerDies(r)
             \/ \E s \in Steps : StepRetries(r, s) \/ StepInterrupted(r, s)
    <3>1. UNCHANGED step \/ \E s \in Steps, new \in {"running"} \cup Closed : UpdateState(r, s, new)
      BY <2>4 DEF Executor, StepBegins, StepSucceeds, StepFails, StartsDone,
                  StepSkipped, ExecDone, WorkerDies, StepRetries, StepInterrupted, Closed
    <3> QED
      BY <2>1, <2>2, <3>1
  <2> QED
    BY <2>2, <2>3, <2>4
       DEF Acts, CreateRun, CancelRead, Starter, StartAccepted, StartUnconfirmed,
           StartRejected, MarkStartFailed, Canceller, CancelRequest, CancelWrite,
           Server, ReportCompleted, ReportErred, Advance, ObserveCancel, Attempt,
           AttemptStarts, UpdateRunStatus, LoadFlowDefinition, ExecReturns, Faults,
           StarterDies, CancellerDies, AttemptTimesOut, ScheduleTimesOut,
           LateWrite, LateNever
<1>3. ServerStays(q)
  <2> USE DEF TypeOK, ServerTypeOK, LateTypeOK, ServerStays, serverVars
  <2>1. CASE Starter(r) \/ CreateRun(r) \/ StarterDies(r)
    BY <2>1 DEF CreateRun, Starter, StartAccepted, StartUnconfirmed,
                StartRejected, MarkStartFailed, StarterDies, OpenWorkflow
  <2>2. CASE CancelRead(r) \/ Canceller(r) \/ CancellerDies(r)
    BY <2>2 DEF CancelRead, Canceller, CancelRequest, CancelOpenSteps,
                CancelWrite, CancellerDies
  <2>3. CASE Attempt(r)
    BY <2>3 DEF Attempt, AttemptStarts, UpdateRunStatus, LoadFlowDefinition,
                ExecReturns
  <2>4. CASE ReportCompleted(r) \/ ReportErred(r) \/ ObserveCancel(r)
             \/ AttemptTimesOut(r) \/ ScheduleTimesOut(r)
    BY <2>4 DEF ReportCompleted, ReportErred, ObserveCancel, AttemptTimesOut,
                ScheduleTimesOut, RetryOrFail, Abandon
  <2>5. CASE Advance(r)
    BY <2>5 DEF Advance, Await, Return
  <2>6. CASE \E l \in late[r] : LateWrite(r, l) \/ LateNever(r, l)
    BY <2>6 DEF LateWrite, LateNever
  <2>7. CASE \/ Executor(r) \/ WorkerDies(r)
             \/ \E s \in Steps : StepRetries(r, s) \/ StepInterrupted(r, s)
    <3>1. ExecOnly
      BY <2>7 DEF Executor, PlanSteps, StepBegins, StepSucceeds, StepFails,
                  StartsDone, StepSkipped, ExecDone, WorkerDies, StepRetries,
                  StepInterrupted, Leave
    <3> QED
      BY <3>1 DEF ExecOnly
  <2> QED
    BY <2>1, <2>2, <2>3, <2>4, <2>5, <2>6, <2>7 DEF Acts, Server, Faults
<1>4. ExecutionStays(q)
  <2> USE DEF TypeOK, ExecTypeOK, ExecutionStays, execVars
  <2>1. CASE AttemptStarts(r)
    BY <2>1 DEF AttemptStarts
  <2>2. CASE \/ Executor(r) \/ WorkerDies(r)
             \/ \E s \in Steps : StepRetries(r, s) \/ StepInterrupted(r, s)
    BY <2>2 DEF Executor, PlanSteps, StepBegins, StepSucceeds, StepFails,
                StartsDone, StepSkipped, ExecDone, WorkerDies, StepRetries,
                StepInterrupted, Leave
  <2> QED
    BY <2>1, <2>2
       DEF Acts, CreateRun, CancelRead, Starter, StartAccepted, StartUnconfirmed,
           StartRejected, MarkStartFailed, Canceller, CancelRequest,
           CancelOpenSteps, CancelWrite, Server, ReportCompleted, ReportErred,
           Advance, ObserveCancel, Attempt, UpdateRunStatus, LoadFlowDefinition,
           ExecReturns, Faults, StarterDies, CancellerDies, AttemptTimesOut,
           ScheduleTimesOut, LateWrite, LateNever
<1>5. HandlersStay(q)
  <2> USE DEF TypeOK, ApiTypeOK, HandlersStay, apiVars
  <2>1. CASE \/ Executor(r) \/ WorkerDies(r)
             \/ \E s \in Steps : StepRetries(r, s) \/ StepInterrupted(r, s)
    <3>1. ExecOnly
      BY <2>1 DEF Executor, PlanSteps, StepBegins, StepSucceeds, StepFails,
                  StartsDone, StepSkipped, ExecDone, WorkerDies, StepRetries,
                  StepInterrupted, Leave
    <3> QED
      BY <3>1 DEF ExecOnly
  <2> QED
    BY <2>1
       DEF Acts, CreateRun, CancelRead, Starter, StartAccepted, StartUnconfirmed,
           StartRejected, MarkStartFailed, Canceller, CancelRequest,
           CancelOpenSteps, CancelWrite, Server, ReportCompleted, ReportErred,
           Advance, ObserveCancel, Attempt, AttemptStarts, UpdateRunStatus,
           LoadFlowDefinition, ExecReturns, Faults, StarterDies, CancellerDies,
           AttemptTimesOut, ScheduleTimesOut, LateWrite, LateNever
<1>6. HistoryStays(q)
  <2> USE DEF TypeOK, HistoryTypeOK, HistoryStays, Drop
  <2>1. CASE Starter(r) \/ CreateRun(r) \/ StarterDies(r)
             \/ CancelRead(r) \/ Canceller(r) \/ CancellerDies(r)
    BY <2>1 DEF CreateRun, Starter, StartAccepted, StartUnconfirmed,
                StartRejected, MarkStartFailed, StarterDies,
                CancelRead, Canceller, CancelRequest, CancelOpenSteps,
                CancelWrite, CancellerDies
  <2>2. CASE Attempt(r) \/ Server(r) \/ AttemptTimesOut(r) \/ ScheduleTimesOut(r)
    BY <2>2 DEF Attempt, Server, AttemptStarts, UpdateRunStatus, LoadFlowDefinition,
                ExecReturns, ReportCompleted, ReportErred, Advance, ObserveCancel,
                AttemptTimesOut, ScheduleTimesOut, Abandon
  <2>3. CASE \E l \in late[r] : LateWrite(r, l) \/ LateNever(r, l)
    BY <2>3 DEF LateWrite, LateNever
  <2>4. CASE \/ Executor(r) \/ WorkerDies(r)
             \/ \E s \in Steps : StepRetries(r, s) \/ StepInterrupted(r, s)
    BY <2>4 DEF Executor, PlanSteps, StepBegins, StepSucceeds, StepFails,
                StartsDone, StepSkipped, ExecDone, WorkerDies, StepRetries,
                StepInterrupted, Leave, ExecOnly
  <2> QED
    BY <2>1, <2>2, <2>3, <2>4 DEF Acts, Faults
<1> QED
  BY <1>1, <1>2, <1>3, <1>4, <1>5, <1>6 DEF Stays

\* What RowInv says of one run.
RunOK(r) == HandlersAgree(r) /\ (~disturbed[r] => RowFollowsWorkflow(r))

\* A run that nothing happens to stays right.
LEMMA RowStaysRight ==
  ASSUME NEW q \in Runs, RunOK(q), RowStays(q), ServerStays(q), HandlersStay(q),
         HistoryStays(q)
  PROVE  RunOK(q)'
BY DEF RunOK, HandlersAgree, RowFollowsWorkflow, HasRow, RowStays, ServerStays,
       HandlersStay, HistoryStays

\* Every run starts right.
LEMMA InitRow == Init => RowInv
<1> SUFFICES ASSUME Init, NEW r \in Runs
             PROVE  HandlersAgree(r) /\ RowFollowsWorkflow(r)
  BY DEF RowInv
<1>1. /\ status[r] = "absent" /\ awaits[r] = "nothing" /\ wf[r] = "none"
      /\ starter[r] = "none" /\ canceller[r] = "idle" /\ late[r] = {}
      /\ cancelReq[r] = FALSE
  BY DEF Init
<1> QED
  BY <1>1 DEF HandlersAgree, RowFollowsWorkflow, HasRow, InTable, Terminal

\* Creating a run, up to the call that opens its workflow.
LEMMA StarterKeepsRow ==
  ASSUME TypeOK, ExecutionInv, NEW r \in Runs, RunOK(r),
         CreateRun(r) \/ Starter(r) \/ StarterDies(r)
  PROVE  RunOK(r)'
<1> USE DEF TypeOK, ServerTypeOK, ApiTypeOK, HistoryTypeOK
<1>1. CASE CreateRun(r)
  <2>1. awaits[r] = "nothing" /\ starter[r] = "none"
    BY <1>1 DEF CreateRun, ExecutionInv, ExecutionIsFresh
  <2>2. /\ status'[r] = "queued" /\ starter'[r] = "inserted"
        /\ UNCHANGED <<wf, awaits, act, canceller, cancelReq, late, disturbed>>
    BY <1>1 DEF CreateRun, RowTypeOK, serverVars
  <2> QED
    BY <2>1, <2>2 DEF RunOK, HandlersAgree, RowFollowsWorkflow, Marks, HasRow,
                      InTable, Terminal
<1>2. CASE StartAccepted(r) \/ StartUnconfirmed(r)
  <2>1. /\ starter[r] = "inserted" /\ awaits[r] = "nothing"
        /\ wf'[r] = "open" /\ awaits'[r] = "markRunning" /\ act'[r] = "scheduled"
        /\ UNCHANGED <<status, startedAt, finishedAt, canceller, cancelReq, late>>
    BY <1>2 DEF StartAccepted, StartUnconfirmed, OpenWorkflow, ExecutionInv,
                ExecutionIsFresh, rowVars
  <2>2. (starter'[r] = "done" /\ UNCHANGED disturbed) \/ disturbed'[r]
    BY <1>2 DEF StartAccepted, StartUnconfirmed
  <2> QED
    BY <2>1, <2>2 DEF RunOK, HandlersAgree, RowFollowsWorkflow, Marks, HasRow,
                      InTable, Terminal
<1>3. CASE StartRejected(r) \/ StarterDies(r)
  BY <1>3 DEF StartRejected, StarterDies, RunOK, HandlersAgree,
              RowFollowsWorkflow, HasRow, rowVars, serverVars
<1>4. CASE MarkStartFailed(r)
  <2>1. /\ starter[r] = "startFailed" /\ starter'[r] = "done"
        /\ UNCHANGED <<wf, awaits, act, canceller, cancelReq, late, disturbed>>
    BY <1>4 DEF MarkStartFailed, serverVars
  <2>2. UNCHANGED rowVars \/ (status'[r] = "failed" /\ finishedAt'[r])
    BY <1>4, UpdateStatusRow DEF MarkStartFailed, InTable, Terminal
  <2>3. CASE UNCHANGED rowVars
    BY <2>1, <2>3 DEF RunOK, HandlersAgree, RowFollowsWorkflow, HasRow, rowVars
  <2>4. CASE status'[r] = "failed" /\ finishedAt'[r]
    BY <2>1, <2>4 DEF RunOK, HandlersAgree, RowFollowsWorkflow, Marks, HasRow
  <2> QED
    BY <2>2, <2>3, <2>4
<1> QED
  BY <1>1, <1>2, <1>3, <1>4 DEF Starter

\* The cancel handler disturbs a run before it writes its row.
LEMMA CancellerKeepsRow ==
  ASSUME TypeOK, NEW r \in Runs, RunOK(r),
         CancelRead(r) \/ Canceller(r) \/ CancellerDies(r)
  PROVE  RunOK(r)'
<1> USE DEF TypeOK, ServerTypeOK, ApiTypeOK, HistoryTypeOK
<1>1. CASE CancelRead(r) \/ CancelOpenSteps(r) \/ CancellerDies(r)
  BY <1>1 DEF CancelRead, CancelOpenSteps, CancellerDies, RunOK, HandlersAgree,
              RowFollowsWorkflow, HasRow, rowVars, serverVars
<1>2. CASE CancelRequest(r)
  BY <1>2 DEF CancelRequest, RunOK, HandlersAgree, RowFollowsWorkflow, HasRow, rowVars
<1>3. CASE CancelWrite(r)
  <2>1. disturbed[r]
    BY <1>3 DEF CancelWrite, RunOK, HandlersAgree
  <2> QED
    BY <1>3, <2>1 DEF CancelWrite, RunOK, HandlersAgree, serverVars
<1> QED
  BY <1>1, <1>2, <1>3 DEF Canceller

\* A late write finds the run disturbed.
LEMMA LateKeepsRow ==
  ASSUME TypeOK, NEW r \in Runs, RunOK(r), NEW l \in late[r],
         LateWrite(r, l) \/ LateNever(r, l)
  PROVE  RunOK(r)'
<1>1. disturbed[r]
  BY DEF RunOK, HandlersAgree
<1> QED
  BY <1>1 DEF LateWrite, LateNever, RunOK, HandlersAgree, serverVars, apiVars

\* A status activity writes what its workflow awaits.
LEMMA AttemptKeepsRow ==
  ASSUME TypeOK, ExecutionInv, NEW r \in Runs, RunOK(r), Attempt(r)
  PROVE  RunOK(r)'
<1> USE DEF TypeOK, ServerTypeOK, ApiTypeOK, HistoryTypeOK
<1>1. CASE AttemptStarts(r) \/ LoadFlowDefinition(r) \/ ExecReturns(r)
  <2>1. /\ UNCHANGED <<status, startedAt, finishedAt, wf, awaits, cancelReq, late,
                       starter, canceller, disturbed>>
        /\ act'[r] = "completed" => awaits[r] \in {"load", "execute"}
        /\ act'[r] # "ok"
        /\ wf[r] = "open"
    BY <1>1 DEF AttemptStarts, LoadFlowDefinition, ExecReturns, rowVars, apiVars
  <2> QED
    BY <2>1 DEF RunOK, HandlersAgree, RowFollowsWorkflow, HasRow, Marks
<1>2. CASE UpdateRunStatus(r)
  <2>1. /\ wf[r] = "open" /\ awaits[r] \in Marks /\ starter'[r] = starter[r]
        /\ act'[r] \in {"completed", "erred"}
        /\ UNCHANGED <<wf, awaits, cancelReq, late, canceller, disturbed>>
    BY <1>2 DEF UpdateRunStatus, apiVars
  <2>2. \/ UNCHANGED rowVars /\ act'[r] = "erred"
        \/ /\ status'[r] = Writes[awaits[r]]
           /\ startedAt'[r] = (startedAt[r] \/ Writes[awaits[r]] = "running")
           /\ finishedAt'[r] = (finishedAt[r] \/ Writes[awaits[r]] \in Terminal)
    <3>1. CASE UpdateStatus(r, Writes[awaits[r]])
      BY <2>1, <3>1, WritesType, UpdateStatusRow
    <3> QED
      BY <1>2, <3>1 DEF UpdateRunStatus
  <2>3. CASE UNCHANGED rowVars /\ act'[r] = "erred"
    BY <2>1, <2>3 DEF RunOK, HandlersAgree, RowFollowsWorkflow, HasRow, rowVars
  <2>4. CASE /\ status'[r] = Writes[awaits[r]]
             /\ startedAt'[r] = (startedAt[r] \/ Writes[awaits[r]] = "running")
             /\ finishedAt'[r] = (finishedAt[r] \/ Writes[awaits[r]] \in Terminal)
    <3>1. (Writes[awaits[r]] = "running" => startedAt'[r])
          /\ (Writes[awaits[r]] \in Terminal => finishedAt'[r])
      BY <2>4, Zenon
    <3>2. \/ awaits[r] = "markRunning" /\ Writes[awaits[r]] = "running"
          \/ awaits[r] = "markFailed" /\ Writes[awaits[r]] = "failed"
          \/ awaits[r] = "markSuccess" /\ Writes[awaits[r]] = "success"
      <4>1. /\ Writes["markRunning"] = "running" /\ Writes["markFailed"] = "failed"
            /\ Writes["markSuccess"] = "success"
        BY DEF Writes
      <4> QED
        BY <2>1, <4>1 DEF Marks
    <3> QED
      BY <2>1, <2>4, <3>1, <3>2
         DEF RunOK, HandlersAgree, RowFollowsWorkflow, HasRow, Marks, Terminal, InTable
  <2> QED
    BY <2>2, <2>3, <2>4
<1> QED
  BY <1>1, <1>2 DEF Attempt

\* The server goes on only from writes it knows of, and gives up on an attempt that
\* may still write only by disturbing the run.
LEMMA ServerKeepsRow ==
  ASSUME TypeOK, NEW r \in Runs, RunOK(r),
         Server(r) \/ AttemptTimesOut(r) \/ ScheduleTimesOut(r)
  PROVE  RunOK(r)'
<1> USE DEF TypeOK, ServerTypeOK, ApiTypeOK, HistoryTypeOK, LateTypeOK
<1>1. UNCHANGED <<status, startedAt, finishedAt, cancelReq, starter, canceller>>
  BY DEF Server, ReportCompleted, ReportErred, Advance, ObserveCancel,
         AttemptTimesOut, ScheduleTimesOut, rowVars, apiVars
<1>2. CASE ReportCompleted(r) \/ ScheduleTimesOut(r)
  BY <1>1, <1>2 DEF ReportCompleted, ScheduleTimesOut, RunOK, HandlersAgree,
                    RowFollowsWorkflow, HasRow, Marks
<1>3. CASE ReportErred(r)
  BY <1>1, <1>3 DEF ReportErred, RetryOrFail, RunOK, HandlersAgree,
                    RowFollowsWorkflow, HasRow, Marks
<1>4. CASE Advance(r)
  BY <1>1, <1>4 DEF Advance, Await, Return, RunOK, HandlersAgree,
                    RowFollowsWorkflow, HasRow, Marks, Writes
<1>5. CASE AttemptTimesOut(r)
  BY <1>1, <1>5 DEF AttemptTimesOut, RetryOrFail, Abandon, RunOK, HandlersAgree,
                    RowFollowsWorkflow, HasRow, Marks
<1>6. CASE ObserveCancel(r)
  BY <1>1, <1>6 DEF ObserveCancel, Abandon, RunOK, HandlersAgree,
                    RowFollowsWorkflow, HasRow, Marks
<1> QED
  BY <1>2, <1>3, <1>4, <1>5, <1>6 DEF Server

\* Whatever a run does keeps it right.
LEMMA ActsKeepRow ==
  ASSUME TypeOK, ExecutionInv, NEW r \in Runs, RunOK(r), Acts(r)
  PROVE  RunOK(r)'
<1>1. CASE \/ Executor(r) \/ WorkerDies(r)
           \/ \E s \in Steps : StepRetries(r, s) \/ StepInterrupted(r, s)
  <2>1. ExecOnly
    BY <1>1 DEF Executor, PlanSteps, StepBegins, StepSucceeds, StepFails,
                StartsDone, StepSkipped, ExecDone, WorkerDies, StepRetries,
                StepInterrupted, Leave
  <2> QED
    BY <2>1 DEF ExecOnly, RunOK, HandlersAgree, RowFollowsWorkflow, HasRow,
                rowVars, serverVars, apiVars
<1> QED
  BY <1>1, StarterKeepsRow, CancellerKeepsRow, AttemptKeepsRow, ServerKeepsRow,
     LateKeepsRow DEF Acts, Faults

\* RowInv is inductive, relative to TypeOK and ExecutionInv.
LEMMA NextRow == TypeOK /\ ExecutionInv /\ RowInv /\ [Next]_vars => RowInv'
<1> SUFFICES ASSUME TypeOK, ExecutionInv, RowInv, [Next]_vars, NEW q \in Runs
             PROVE  RunOK(q)'
  BY DEF RowInv, RunOK
<1>1. RunOK(q)
  BY DEF RowInv, RunOK
<1>2. CASE UNCHANGED vars
  BY <1>1, <1>2 DEF RunOK, HandlersAgree, RowFollowsWorkflow, HasRow, vars,
                    rowVars, serverVars, apiVars
<1>3. CASE DeleteFlow
  <2>1. HasRow(q)' = FALSE /\ (status[q] = "deleted" => status'[q] = "deleted")
        /\ (HasRow(q) => status'[q] = "deleted")
    BY <1>3 DEF DeleteFlow, HasRow, InTable, Terminal
  <2>2. (status[q] = "queued" => HasRow(q))
    BY DEF HasRow, InTable
  <2>3. UNCHANGED <<wf, awaits, act, cancelReq, late, starter, canceller, disturbed>>
    BY <1>3 DEF DeleteFlow, serverVars, apiVars
  <2> QED
    BY <1>1, <2>1, <2>2, <2>3 DEF RunOK, HandlersAgree, RowFollowsWorkflow
<1>4. ASSUME NEW r \in Runs, Acts(r) PROVE RunOK(q)'
  <2>1. CASE q = r
    BY <1>1, <1>4, <2>1, ActsKeepRow
  <2>2. CASE q # r
    <3>1. Stays(q)
      BY <1>4, <2>2, RunsAreApart
    <3> QED
      BY <1>1, <3>1, RowStaysRight DEF Stays
  <2> QED
    BY <2>1, <2>2
<1> QED
  BY <1>2, <1>3, <1>4 DEF Next, Acts

\* The row of a run that nothing disturbed is one write behind its workflow at
\* most, whatever the handlers, the attempts and the deletion of the flow do.
THEOREM RowInvariant == Spec => []RowInv
<1> QED
  BY TypeCorrect, ExecutionInvariant, InitRow, NextRow, PTL DEF Spec

\* When the workflow has returned and its last write was acknowledged, the row of
\* an undisturbed run shows that write: no other writer overwrote the verdict.
THEOREM VerdictStandsAlways == Spec => []VerdictStands
<1>1. RowInv => VerdictStands
  BY DEF RowInv, HandlersAgree, RowFollowsWorkflow, VerdictStands, Marks,
         Terminal, Writes
<1> QED
  BY <1>1, RowInvariant, PTL

------------------------------------------------------------------------------
(* The steps of a run follow its execution. *)

\* What StepInv says of one run.
StepsOK(r) ==
  /\ ~HasRow(r) => \A s \in Steps : step[r][s] = "absent"
  /\ StepsFollowExecution(r)

\* What the actions leave alone that write neither steps nor the execution.
StepsUntouched(r) ==
  /\ HasRow(r)' = HasRow(r)
  /\ StepsStay(r)
  /\ ExecutionStays(r)
  /\ cancelReq[r] => cancelReq'[r]
  /\ dropped[r] => dropped'[r]

\* Then the steps still follow the execution.
LEMMA UntouchedStepsOK ==
  ASSUME NEW r \in Runs, StepsOK(r), StepsUntouched(r)
  PROVE  StepsOK(r)'
<1>1. /\ HasRow(r)' = HasRow(r) /\ UNCHANGED <<step[r], exec[r], planned[r], visited[r], cur[r]>>
      /\ cancelReq[r] => cancelReq'[r]
      /\ dropped[r] => dropped'[r]
  BY DEF StepsUntouched, StepsStay, ExecutionStays
<1> HIDE DEF HasRow
<1> QED
  BY <1>1, Zenon DEF StepsOK, StepsFollowExecution, Waiting, Begun, NodeSteps

\* A run that nothing happens to stays right.
LEMMA StaysStepsOK ==
  ASSUME NEW q \in Runs, StepsOK(q), Stays(q)
  PROVE  StepsOK(q)'
<1>1. StepsUntouched(q)
  BY DEF Stays, RowStays, ServerStays, HistoryStays, StepsUntouched, HasRow
<1> QED
  BY <1>1, UntouchedStepsOK

\* Every run starts right.
LEMMA InitStep == Init => StepInv
<1> SUFFICES ASSUME Init, NEW r \in Runs PROVE StepsOK(r)
  BY DEF StepInv, StepsBelongToARun, StepsOK
<1>1. /\ \A s \in Steps : step[r][s] = "absent"
      /\ exec[r] = "none" /\ cur[r] = NoStep
  BY DEF Init
<1> QED
  BY <1>1 DEF StepsOK, StepsFollowExecution

\* Recording a dropped update records it for the run.
LEMMA DropRecords ==
  ASSUME TypeOK, NEW r \in Runs, Drop(r)
  PROVE  dropped'[r] = TRUE
BY DEF Drop, TypeOK, HistoryTypeOK

\* An UPDATE of the row finds the row and keeps it.
LEMMA UpdateKeepsRow ==
  ASSUME TypeOK, NEW r \in Runs, NEW new \in InTable, UpdateStatus(r, new)
  PROVE  HasRow(r) = TRUE /\ HasRow(r)' = TRUE
BY UpdateStatusRow DEF HasRow

\* The actions that touch neither the steps nor the execution.
LEMMA OthersTouchNoSteps ==
  ASSUME TypeOK, NEW r \in Runs, Acts(r),
         ~CreateRun(r), ~CancelOpenSteps(r), ~AttemptStarts(r),
         ~\/ Executor(r) \/ WorkerDies(r)
          \/ \E s \in Steps : StepRetries(r, s) \/ StepInterrupted(r, s)
  PROVE  StepsUntouched(r)
<1>1. UNCHANGED step /\ UNCHANGED execVars
  BY DEF Acts, CancelRead, Starter, StartAccepted, StartUnconfirmed,
         StartRejected, MarkStartFailed, Canceller, CancelRequest,
         CancelWrite, Server, ReportCompleted, ReportErred,
         Advance, ObserveCancel, Attempt, UpdateRunStatus, LoadFlowDefinition,
         ExecReturns, Faults, StarterDies, CancellerDies, AttemptTimesOut,
         ScheduleTimesOut, LateWrite, LateNever
<1>2. UNCHANGED dropped \/ Drop(r)
  BY DEF Acts, CancelRead, Starter, StartAccepted, StartUnconfirmed,
         StartRejected, MarkStartFailed, Canceller, CancelRequest,
         CancelWrite, Server, ReportCompleted, ReportErred,
         Advance, ObserveCancel, Attempt, UpdateRunStatus, LoadFlowDefinition,
         ExecReturns, Faults, StarterDies, CancellerDies, AttemptTimesOut,
         ScheduleTimesOut, LateWrite, LateNever
<1>3. UNCHANGED cancelReq \/ CancelRequest(r)
  BY DEF Acts, CancelRead, Starter, StartAccepted, StartUnconfirmed,
         StartRejected, MarkStartFailed, Canceller, OpenWorkflow,
         CancelWrite, Server, ReportCompleted, ReportErred,
         Advance, ObserveCancel, Attempt, UpdateRunStatus, LoadFlowDefinition,
         ExecReturns, Faults, StarterDies, CancellerDies, AttemptTimesOut,
         ScheduleTimesOut, LateWrite, LateNever, serverVars
<1>4. cancelReq[r] => cancelReq'[r]
  BY <1>3 DEF CancelRequest, TypeOK, ServerTypeOK
<1>5. HasRow(r)' = HasRow(r)
  <2>1. CASE UNCHANGED rowVars
    BY <2>1 DEF rowVars, HasRow
  <2>2. ASSUME NEW new \in InTable, UpdateStatus(r, new) PROVE HasRow(r)' = HasRow(r)
    BY <2>2, UpdateKeepsRow
  <2>3. UpdateRunStatus(r) => Writes[awaits[r]] \in InTable
    BY WritesType DEF UpdateRunStatus
  <2>4. \A l \in late[r] : Writes[l[1]] \in InTable
    BY WritesType DEF TypeOK, LateTypeOK
  <2>5. "failed" \in InTable /\ "canceled" \in InTable
    BY DEF InTable, Terminal
  <2> QED
    BY <2>1, <2>2, <2>3, <2>4, <2>5, RowWrites
<1>6. dropped[r] => dropped'[r]
  BY <1>2, DropRecords
<1> QED
  BY <1>1, <1>4, <1>5, <1>6 DEF StepsUntouched, StepsStay, ExecutionStays, execVars

\* The cancel handler closes open steps only of a run whose cancellation the
\* server accepted.
LEMMA CancelStepsOK ==
  ASSUME TypeOK, NEW r \in Runs, RunOK(r), StepsOK(r), CancelOpenSteps(r)
  PROVE  StepsOK(r)'
<1>1. /\ cancelReq[r] /\ cancelReq'[r]
      /\ HasRow(r)' = HasRow(r)
      /\ exec'[r] = exec[r] /\ planned'[r] = planned[r]
      /\ visited'[r] = visited[r] /\ cur'[r] = cur[r]
  BY DEF CancelOpenSteps, RunOK, HandlersAgree, rowVars, serverVars, execVars, HasRow
<1>2. dropped[r] => dropped'[r]
  BY DropRecords DEF CancelOpenSteps
<1>3. CASE UNCHANGED step
  <2>1. StepsUntouched(r)
    BY <1>1, <1>2, <1>3 DEF StepsUntouched, StepsStay, ExecutionStays
  <2> QED
    BY <2>1, UntouchedStepsOK
<1>4. CASE /\ step' = [step EXCEPT ![r] = [s \in Steps |->
                   IF @[s] \in {"queued", "running"} THEN "canceled" ELSE @[s]]]
           /\ UNCHANGED dropped
  <2>1. \A s \in Steps : step'[r][s] = IF step[r][s] \in {"queued", "running"}
                                       THEN "canceled" ELSE step[r][s]
    BY <1>4 DEF TypeOK, StepTypeOK
  <2>2. \A s \in Steps : /\ step[r][s] = "absent" => step'[r][s] = "absent"
                         /\ Waiting(r, s) => Waiting(r, s)'
                         /\ Begun(r, s) => Begun(r, s)'
                         /\ step[r][s] \in Closed => step'[r][s] \in Closed
    BY <1>1, <2>1 DEF Waiting, Begun, Closed
  <2>3. cur[r] \in Steps \cup {NoStep} /\ visited[r] \subseteq Steps
        /\ NodeSteps(r) \subseteq Steps /\ NodeSteps(r)' = NodeSteps(r)
        /\ dropped'[r] = dropped[r]
    BY <1>1, <1>4 DEF TypeOK, ExecTypeOK, NodeSteps
  <2> QED
    BY <1>1, <2>2, <2>3 DEF StepsOK, StepsFollowExecution
<1> QED
  BY <1>3, <1>4 DEF CancelOpenSteps

\* A run is born without steps, and its execution begins without them.
LEMMA BirthStepsOK ==
  ASSUME TypeOK, ExecutionInv, NEW r \in Runs, StepsOK(r),
         CreateRun(r) \/ AttemptStarts(r)
  PROVE  StepsOK(r)'
<1>1. CASE CreateRun(r)
  <2>1. exec[r] = "none" /\ \A s \in Steps : step[r][s] = "absent"
    BY <1>1 DEF CreateRun, ExecutionInv, ExecutionIsFresh, StepsOK, HasRow,
                InTable, Terminal, StepsFollowExecution
  <2>2. exec'[r] = "none" /\ cur'[r] = cur[r] /\ step'[r] = step[r]
    BY <1>1, <2>1 DEF CreateRun, execVars
  <2> QED
    BY <2>1, <2>2 DEF StepsOK, StepsFollowExecution
<1>2. CASE AttemptStarts(r) /\ awaits[r] = "execute"
  <2>1. exec[r] = "none" /\ exec'[r] = "planning"
    BY <1>2 DEF AttemptStarts, ExecutionInv, ExecutionIsFresh, TypeOK, ExecTypeOK
  <2>2. cur'[r] = cur[r] /\ step'[r] = step[r]
    BY <1>2 DEF AttemptStarts
  <2> QED
    BY <2>1, <2>2 DEF StepsOK, StepsFollowExecution
<1>3. CASE AttemptStarts(r) /\ awaits[r] # "execute"
  <2>1. StepsUntouched(r)
    BY <1>3 DEF AttemptStarts, TypeOK, ExecTypeOK, StepsUntouched, StepsStay,
                ExecutionStays, rowVars, HasRow
  <2> QED
    BY <2>1, UntouchedStepsOK
<1> QED
  BY <1>1, <1>2, <1>3

\* What the statement of UpdateState finds and leaves, step by step.
LEMMA UpdateStateFacts ==
  ASSUME TypeOK, NEW r \in Runs, StepsOK(r), NEW s \in Steps, NEW new,
         UpdateState(r, s, new)
  PROVE  /\ HasRow(r)
         /\ step'[r][s] = new
         /\ \A t \in Steps \ {s} : step'[r][t] = step[r][t]
BY DEF UpdateState, TypeOK, StepTypeOK, StepsOK

\* The executor's own actions touch neither the row nor the server's part.
LEMMA ExecutorIsAlone ==
  ASSUME NEW r \in Runs,
         \/ Executor(r) \/ WorkerDies(r)
         \/ \E s \in Steps : StepRetries(r, s) \/ StepInterrupted(r, s)
  PROVE  ExecOnly /\ HasRow(r)' = HasRow(r) /\ cancelReq'[r] = cancelReq[r]
<1>1. ExecOnly
  BY DEF Executor, PlanSteps, StepBegins, StepSucceeds, StepFails,
         StartsDone, StepSkipped, ExecDone, WorkerDies, StepRetries,
         StepInterrupted, Leave
<1> QED
  BY <1>1 DEF ExecOnly, HasRow, rowVars, serverVars

\* The executor opens a step once it has marked it visited, and closes it, or
\* records that it could not, before it goes on.
LEMMA ExecutorStepsOK ==
  ASSUME TypeOK, NEW r \in Runs, StepsOK(r),
         \/ Executor(r) \/ WorkerDies(r)
         \/ \E s \in Steps : StepRetries(r, s) \/ StepInterrupted(r, s)
  PROVE  StepsOK(r)'
<1> USE NoStepAssumption DEF TypeOK, ExecTypeOK, StepTypeOK, HistoryTypeOK
<1>1. ExecOnly /\ HasRow(r)' = HasRow(r) /\ cancelReq'[r] = cancelReq[r]
  BY ExecutorIsAlone
<1> HIDE DEF HasRow
<1>2. CASE PlanSteps(r)
  <2>1. cur[r] = NoStep /\ cur'[r] = NoStep /\ visited'[r] = {}
        /\ \A s \in Steps : step[r][s] = "absent"
    BY <1>2 DEF PlanSteps, StepsOK, StepsFollowExecution
  <2>2. CASE /\ HasRow(r)
             /\ step' = [step EXCEPT ![r] = [s \in Steps |->
                           IF s \in planned[r] THEN "queued" ELSE @[s]]]
             /\ \E e \in {"running", "error"} : exec' = [exec EXCEPT ![r] = e]
    <3>1. /\ \A s \in planned[r] : step'[r][s] = "queued"
          /\ exec'[r] \in {"running", "error"} /\ NodeSteps(r)' \subseteq planned[r]
      BY <1>2, <2>2 DEF PlanSteps, NodeSteps
    <3> QED
      BY <1>1, <2>1, <2>2, <3>1 DEF StepsOK, StepsFollowExecution, Waiting
  <2>3. CASE exec' = [exec EXCEPT ![r] = "error"] /\ UNCHANGED step
    <3>1. exec'[r] = "error" /\ step'[r] = step[r]
      BY <2>3
    <3> QED
      BY <1>1, <2>1, <3>1 DEF StepsOK, StepsFollowExecution
  <2> QED
    BY <1>2, <2>2, <2>3 DEF PlanSteps
<1>3. CASE StartsDone(r) \/ ExecDone(r)
  <2>1. /\ cur[r] = NoStep
        /\ UNCHANGED <<step[r], planned[r], visited[r], cur[r], dropped[r]>>
        /\ \/ exec[r] = "running" /\ exec'[r] = "skipping"
           \/ exec[r] = "skipping" /\ visited[r] = NodeSteps(r) /\ exec'[r] = "ok"
        /\ NodeSteps(r)' = NodeSteps(r) /\ NodeSteps(r) \subseteq Steps
    BY <1>3 DEF StartsDone, ExecDone, StepsOK, StepsFollowExecution, NodeSteps
  <2> QED
    BY <1>1, <2>1 DEF StepsOK, StepsFollowExecution
<1>4. CASE WorkerDies(r)
  <2>1. cur'[r] = NoStep /\ exec'[r] = "dead" /\ step'[r] = step[r]
        /\ exec[r] \in {"planning", "running", "skipping"}
    BY <1>4 DEF WorkerDies, Active
  <2> QED
    BY <1>1, <2>1 DEF StepsOK, StepsFollowExecution
<1>5. ASSUME NEW s \in Steps, StepBegins(r, s) PROVE StepsOK(r)'
  <2>1. /\ exec[r] = "running" /\ cur[r] = NoStep /\ s \notin visited[r]
        /\ visited'[r] = visited[r] \cup {s} /\ dropped'[r] = dropped[r]
        /\ visited[r] \subseteq Steps
        /\ NodeSteps(r)' = NodeSteps(r) /\ NodeSteps(r) \subseteq Steps
    BY <1>5 DEF StepBegins, NodeSteps
  <2>2. CASE UpdateState(r, s, "running") /\ cur' = [cur EXCEPT ![r] = s] /\ UNCHANGED exec
    <3>1. cur'[r] = s /\ exec'[r] = "running"
      BY <2>1, <2>2
    <3>2. HasRow(r) /\ step'[r][s] = "running"
          /\ \A t \in Steps \ {s} : step'[r][t] = step[r][t]
      BY <2>2, UpdateStateFacts
    <3> QED
      BY <1>1, <2>1, <3>1, <3>2 DEF StepsOK, StepsFollowExecution, Begun, Waiting
  <2>3. CASE /\ UpdateState(r, s, "running") \/ UNCHANGED step
             /\ exec' = [exec EXCEPT ![r] = "error"] /\ UNCHANGED cur
    <3>1. cur'[r] = NoStep /\ exec'[r] = "error"
      BY <2>1, <2>3
    <3>2. HasRow(r) \/ UNCHANGED step
      BY <2>3, UpdateStateFacts
    <3> QED
      BY <1>1, <3>1, <3>2 DEF StepsOK, StepsFollowExecution
  <2> QED
    BY <1>5, <2>2, <2>3 DEF StepBegins
<1>6. ASSUME NEW s \in Steps, StepRetries(r, s) PROVE StepsOK(r)'
  <2>1. /\ exec[r] = "running" /\ cur[r] = s
        /\ UNCHANGED <<exec[r], visited[r], cur[r], dropped[r]>>
        /\ visited[r] \subseteq Steps
        /\ NodeSteps(r)' = NodeSteps(r) /\ NodeSteps(r) \subseteq Steps
    BY <1>6 DEF StepRetries, execVars, NodeSteps
  <2>2. HasRow(r) /\ step'[r][s] = "running"
        /\ \A t \in Steps \ {s} : step'[r][t] = step[r][t]
    BY <1>6, UpdateStateFacts DEF StepRetries
  <2> QED
    BY <1>1, <2>1, <2>2 DEF StepsOK, StepsFollowExecution, Begun, Waiting
<1>7. ASSUME NEW s \in Steps, StepSucceeds(r, s) \/ StepFails(r, s) \/ StepInterrupted(r, s)
      PROVE  StepsOK(r)'
  <2>1. /\ exec[r] = "running" /\ cur[r] = s /\ visited[r] \subseteq Steps
        /\ \E e \in {"running", "error"} : Leave(r, e)
    BY <1>7 DEF StepSucceeds, StepFails, StepInterrupted
  <2>2. /\ cur'[r] = NoStep /\ exec'[r] \in {"running", "error"} /\ visited'[r] = visited[r]
        /\ NodeSteps(r)' = NodeSteps(r) /\ NodeSteps(r) \subseteq Steps
    BY <2>1 DEF Leave, NodeSteps
  <2>3. \/ \E new \in Closed : UpdateState(r, s, new) /\ UNCHANGED dropped
        \/ UNCHANGED step /\ (dropped'[r] = TRUE \/ exec'[r] = "error")
    <3>1. CASE StepSucceeds(r, s)
      BY <3>1 DEF StepSucceeds, Leave, Closed
    <3>2. CASE StepFails(r, s) \/ StepInterrupted(r, s)
      BY <3>2, DropRecords DEF StepFails, StepInterrupted, Closed
    <3> QED
      BY <1>7, <3>1, <3>2
  <2>4. CASE \E new \in Closed : UpdateState(r, s, new) /\ UNCHANGED dropped
    <3>1. HasRow(r) /\ step'[r][s] \in Closed /\ dropped'[r] = dropped[r]
          /\ \A t \in Steps \ {s} : step'[r][t] = step[r][t]
      BY <2>4, UpdateStateFacts
    <3> QED
      BY <1>1, <2>1, <2>2, <3>1 DEF StepsOK, StepsFollowExecution, Waiting
  <2>5. CASE UNCHANGED step /\ (dropped'[r] = TRUE \/ exec'[r] = "error")
    BY <1>1, <2>1, <2>2, <2>5 DEF StepsOK, StepsFollowExecution, Waiting
  <2> QED
    BY <2>3, <2>4, <2>5
<1>8. ASSUME NEW s \in Steps, StepSkipped(r, s) PROVE StepsOK(r)'
  <2>1. /\ exec[r] = "skipping" /\ exec'[r] = "skipping"
        /\ visited'[r] = visited[r] \cup {s}
        /\ cur[r] = NoStep /\ cur'[r] = NoStep
        /\ visited[r] \subseteq Steps
        /\ NodeSteps(r)' = NodeSteps(r) /\ NodeSteps(r) \subseteq Steps
    BY <1>8 DEF StepSkipped, StepsOK, StepsFollowExecution, NodeSteps
  <2>2. CASE UpdateState(r, s, "skipped") /\ UNCHANGED dropped
    <3>1. HasRow(r) /\ step'[r][s] \in Closed /\ dropped'[r] = dropped[r]
          /\ \A t \in Steps \ {s} : step'[r][t] = step[r][t]
      BY <2>2, UpdateStateFacts DEF Closed
    <3> QED
      BY <1>1, <2>1, <3>1 DEF StepsOK, StepsFollowExecution
  <2>3. CASE Drop(r) /\ UNCHANGED step
    <3>1. dropped'[r] = TRUE
      BY <2>3, DropRecords
    <3> QED
      BY <1>1, <2>1, <2>3, <3>1 DEF StepsOK, StepsFollowExecution
  <2> QED
    BY <1>8, <2>2, <2>3 DEF StepSkipped
<1> QED
  BY <1>2, <1>3, <1>4, <1>5, <1>6, <1>7, <1>8 DEF Executor

\* StepInv is inductive, relative to the other invariants.
LEMMA NextStep ==
  TypeOK /\ ExecutionInv /\ RowInv /\ StepInv /\ [Next]_vars => StepInv'
<1> SUFFICES ASSUME TypeOK, ExecutionInv, RowInv, StepInv, [Next]_vars,
                    NEW q \in Runs
             PROVE  StepsOK(q)'
  BY DEF StepInv, StepsBelongToARun, StepsOK
<1>1. StepsOK(q) /\ RunOK(q)
  BY DEF StepInv, StepsBelongToARun, StepsOK, RowInv, RunOK
<1>2. CASE UNCHANGED vars
  <2>1. StepsUntouched(q)
    BY <1>2 DEF vars, rowVars, serverVars, execVars, StepsUntouched, StepsStay,
                ExecutionStays, HasRow
  <2> QED
    BY <1>1, <2>1, UntouchedStepsOK
<1>3. CASE DeleteFlow
  <2>1. ~HasRow(q)' /\ \A s \in Steps : step'[q][s] = "absent"
    BY <1>3 DEF DeleteFlow, HasRow, InTable, Terminal
  <2>2. exec'[q] = exec[q] /\ cur'[q] = cur[q] /\ visited'[q] = visited[q]
    BY <1>3 DEF DeleteFlow, execVars
  <2> QED
    BY <1>1, <2>1, <2>2 DEF StepsOK, StepsFollowExecution
<1>4. ASSUME NEW r \in Runs, Acts(r) PROVE StepsOK(q)'
  <2>1. CASE q = r
    <3>1. CASE \/ Executor(r) \/ WorkerDies(r)
               \/ \E s \in Steps : StepRetries(r, s) \/ StepInterrupted(r, s)
      BY <1>1, <2>1, <3>1, ExecutorStepsOK
    <3> QED
      BY <1>1, <1>4, <2>1, <3>1, CancelStepsOK, BirthStepsOK, OthersTouchNoSteps,
         UntouchedStepsOK
  <2>2. CASE q # r
    BY <1>1, <1>4, <2>2, RunsAreApart, StaysStepsOK
  <2> QED
    BY <2>1, <2>2
<1> QED
  BY <1>2, <1>3, <1>4 DEF Next, Acts

\* The steps follow the execution: what the executor has passed is closed, what it
\* has not reached waits, also while handlers cancel the run or delete the flow.
THEOREM StepInvariant == Spec => []StepInv
<1> QED
  BY TypeCorrect, ExecutionInvariant, RowInvariant, InitStep, NextStep, PTL DEF Spec

\* A run that says success left no node's step open, unless an update was dropped
\* (the step of a flow without nodes is left queued), and a step exists only with
\* its run.
THEOREM StepsFollowTheirRunAlways == Spec => []StepsFollowTheirRun
<1>1. StepInv /\ SuccessWasExecuted => StepsFollowTheirRun
  <2> SUFFICES ASSUME StepInv, SuccessWasExecuted, NEW r \in Runs,
                      status[r] = "success", ~dropped[r]
               PROVE  \A s \in NodeSteps(r) : step[r][s] \in Closed
    BY DEF StepsFollowTheirRun, SuccessClosesSteps, StepInv
  <2>1. HasRow(r) /\ exec[r] = "ok"
    BY DEF HasRow, InTable, Terminal, SuccessWasExecuted
  <2> QED
    BY <2>1 DEF StepInv, StepsFollowExecution
<1> QED
  BY <1>1, StepInvariant, SuccessWasExecutedAlways, PTL

\* A closed step is never queued again, and is reopened only after the user
\* canceled the run.
THEOREM ClosedStepsStayClosedAlways == Spec => ClosedStepsStayClosed
<1> DEFINE Kept(r, s) == step[r][s] \in Closed /\ HasRow(r)' =>
                           \/ step'[r][s] \in Closed
                           \/ step'[r][s] = "running" /\ cancelReq[r]
           Keep == \A r \in Runs : \A s \in Steps : Kept(r, s)
<1>1. TypeOK /\ ExecutionInv /\ RowInv /\ StepInv /\ [Next]_vars => [Keep]_vars
  <2> SUFFICES ASSUME TypeOK, ExecutionInv, RowInv, StepInv, Next,
                      NEW q \in Runs, NEW t \in Steps
               PROVE  Kept(q, t)
    OBVIOUS
  <2>1. StepsOK(q) /\ RunOK(q)
    BY DEF StepInv, StepsBelongToARun, StepsOK, RowInv, RunOK
  <2>2. CASE DeleteFlow
    BY <2>2 DEF DeleteFlow, HasRow, InTable, Terminal
  <2>3. ASSUME step'[q] = step[q] PROVE Kept(q, t)
    BY <2>3
  <2>4. ASSUME NEW r \in Runs, Acts(r), r # q PROVE Kept(q, t)
    BY <2>3, <2>4, RunsAreApart DEF Stays, StepsStay
  <2>5. ASSUME NEW s \in Steps, NEW new, UpdateState(q, s, new),
               \/ new \in Closed
               \/ new = "running" /\ (Waiting(q, s) \/ Begun(q, s))
        PROVE  Kept(q, t)
    <3>1. step'[q][s] = new /\ \A u \in Steps \ {s} : step'[q][u] = step[q][u]
      BY <2>1, <2>5, UpdateStateFacts
    <3>2. new = "running" => step[q][s] \notin Closed \/ cancelReq[q]
      BY <2>5 DEF Waiting, Begun, Closed
    <3> QED
      BY <2>5, <3>1, <3>2 DEF Closed
  <2>6. CASE Acts(q)
    <3>1. CASE PlanSteps(q)
      BY <2>1, <3>1 DEF PlanSteps, StepsOK, StepsFollowExecution, Closed
    <3>2. CASE CancelOpenSteps(q)
      BY <3>2 DEF CancelOpenSteps, TypeOK, StepTypeOK, Closed
    <3>3. ASSUME NEW s \in Steps, StepBegins(q, s) PROVE Kept(q, t)
      <4>1. UNCHANGED step \/ (UpdateState(q, s, "running") /\ Waiting(q, s))
        <5>1. CASE UpdateState(q, s, "running")
          <6>1. HasRow(q)
            BY <2>1, <5>1, UpdateStateFacts
          <6> QED
            BY <2>1, <3>3, <5>1, <6>1 DEF StepBegins, StepsOK, StepsFollowExecution
        <5> QED
          BY <3>3, <5>1 DEF StepBegins
      <4> QED
        BY <2>3, <2>5, <4>1
    <3>4. ASSUME NEW s \in Steps, StepRetries(q, s) PROVE Kept(q, t)
      <4>1. HasRow(q)
        BY <2>1, <3>4, UpdateStateFacts DEF StepRetries
      <4>2. UpdateState(q, s, "running") /\ Begun(q, s)
        BY <2>1, <3>4, <4>1, NoStepAssumption DEF StepRetries, StepsOK, StepsFollowExecution
      <4> QED
        BY <2>5, <4>2
    <3>5. ASSUME NEW s \in Steps,
                 \/ StepSucceeds(q, s) \/ StepFails(q, s) \/ StepSkipped(q, s)
                 \/ StepInterrupted(q, s)
          PROVE  Kept(q, t)
      <4>1. UNCHANGED step \/ \E new \in Closed : UpdateState(q, s, new)
        BY <3>5 DEF StepSucceeds, StepFails, StepSkipped, StepInterrupted, Closed
      <4> QED
        BY <2>3, <2>5, <4>1
    <3>6. CASE \/ CreateRun(q) \/ AttemptStarts(q)
               \/ StartsDone(q) \/ ExecDone(q) \/ WorkerDies(q)
      BY <2>3, <3>6 DEF CreateRun, AttemptStarts, StartsDone, ExecDone, WorkerDies
    <3> QED
      BY <2>3, <2>6, <3>1, <3>2, <3>3, <3>4, <3>5, <3>6, OthersTouchNoSteps
         DEF Executor, StepsUntouched, StepsStay
  <2> QED
    BY <2>2, <2>4, <2>6 DEF Next, Acts
<1> QED
  BY <1>1, TypeCorrect, ExecutionInvariant, RowInvariant, StepInvariant, PTL
     DEF Spec, ClosedStepsStayClosed

------------------------------------------------------------------------------
(* The row of a run, seen alone, is a RunStatus. *)

\* A column that is set only to what it says already does not change.
LEMMA SetAgain ==
  ASSUME NEW f \in [Runs -> BOOLEAN], NEW r \in Runs, NEW b \in BOOLEAN, b => f[r]
  PROVE  [f EXCEPT ![r] = f[r] \/ b] = f
<1>1. (f[r] \/ b) = f[r]
  <2>1. f[r] \in BOOLEAN
    OBVIOUS
  <2> QED
    BY <2>1, Zenon
<1>2. [f EXCEPT ![r] = f[r]] = f
  OBVIOUS
<1> QED
  BY <1>1, <1>2, Zenon

\* An UPDATE of the row is RunStatus's Put.
LEMMA UpdateIsPut ==
  ASSUME NEW r \in Runs, NEW new, UpdateStatus(r, new)
  PROVE  Row!Put(r, new)
BY Zenon DEF UpdateStatus, Row!Put, Terminal, Row!Terminal

\* An UPDATE is allowed by RunStatus when the run is disturbed or the new status
\* is one the old one may go to; written again, it changes nothing.
LEMMA UpdateRefines ==
  ASSUME TypeOK, NEW r \in Runs, NEW new \in {"running", "success", "failed", "canceled"},
         UpdateStatus(r, new), UNCHANGED disturbed,
         new = "success" => startedAt[r],
         \/ disturbed[r]
         \/ new = "running" /\ status[r] = "queued"
         \/ new = "failed" /\ status[r] \in {"queued", "running"}
         \/ new = "success" /\ status[r] = "running"
         \/ /\ new = status[r]
            /\ new = "running" => startedAt[r]
            /\ new \in Terminal => finishedAt[r]
  PROVE  [Row!Next]_Row!vars
<1>1. Row!Put(r, new) /\ status[r] \in InTable
  BY UpdateIsPut DEF UpdateStatus, HasRow
<1>2. CASE disturbed[r]
  <2>1. Row!Overwrite(r, new)
    BY <1>1, <1>2, Zenon DEF Row!Overwrite, InTable, Terminal, Row!InTable, Row!Terminal
  <2>2. new \in Row!InTable
    BY DEF Row!InTable, Row!Terminal
  <2> QED
    BY <2>1, <2>2, Zenon DEF Row!Next
<1>3. CASE new = "running" /\ status[r] = "queued"
  <2>1. Row!Begin(r)
    BY <1>1, <1>3, Zenon DEF Row!Begin
  <2> QED
    BY <2>1, Zenon DEF Row!Next
<1>4. CASE \/ new = "failed" /\ status[r] \in {"queued", "running"}
           \/ new = "success" /\ status[r] = "running"
  <2>1. Row!Finish(r, new) /\ new \in {"success", "failed"}
    <3> HIDE DEF Row!Put
    <3> QED
      BY <1>1, <1>4 DEF Row!Finish
  <2> QED
    BY <2>1, Zenon DEF Row!Next
<1>5. CASE /\ new = status[r]
           /\ new = "running" => startedAt[r]
           /\ new \in Terminal => finishedAt[r]
  <2>1. status' = status
    BY <1>5 DEF UpdateStatus, TypeOK, RowTypeOK
  <2>2. startedAt \in [Runs -> BOOLEAN] /\ finishedAt \in [Runs -> BOOLEAN]
    BY DEF TypeOK, RowTypeOK
  <2>3. (new = "running") \in BOOLEAN /\ (new \in Terminal) \in BOOLEAN
    OBVIOUS
  <2>4. startedAt' = [startedAt EXCEPT ![r] = startedAt[r] \/ new = "running"]
        /\ finishedAt' = [finishedAt EXCEPT ![r] = finishedAt[r] \/ new \in Terminal]
    BY Zenon DEF UpdateStatus
  <2>5. startedAt' = startedAt
    BY <1>5, <2>2, <2>3, <2>4, SetAgain, Zenon
  <2>6. finishedAt' = finishedAt
    BY <1>5, <2>2, <2>3, <2>4, SetAgain, Zenon
  <2> QED
    BY <2>1, <2>5, <2>6 DEF Row!vars
<1> QED
  BY <1>2, <1>3, <1>4, <1>5

\* Creating the row is queueing the run.
LEMMA CreateRefines ==
  ASSUME TypeOK, NEW r \in Runs, CreateRun(r)
  PROVE  [Row!Next]_Row!vars
<1>1. startedAt \in [Runs -> BOOLEAN] /\ finishedAt \in [Runs -> BOOLEAN]
  BY DEF TypeOK, RowTypeOK
<1>2. ("queued" = "running") = FALSE /\ ("queued" \in Row!Terminal) = FALSE
  BY DEF Row!Terminal
<1>3. [startedAt EXCEPT ![r] = startedAt[r] \/ FALSE] = startedAt
      /\ [finishedAt EXCEPT ![r] = finishedAt[r] \/ FALSE] = finishedAt
  BY <1>1, SetAgain, Zenon
<1>4. status[r] = "absent" /\ status' = [status EXCEPT ![r] = "queued"]
      /\ startedAt' = startedAt /\ finishedAt' = finishedAt /\ disturbed' = disturbed
  BY DEF CreateRun
<1>5. Row!Put(r, "queued")
  BY <1>2, <1>3, <1>4, Zenon DEF Row!Put
<1>6. Row!Queue(r)
  BY <1>4, <1>5, Zenon DEF Row!Queue
<1> QED
  BY <1>6, Zenon DEF Row!Next

\* What interferes with a run is a disturbance of it.
LEMMA DisturbRefines ==
  ASSUME NEW r \in Runs, UNCHANGED rowVars,
         UNCHANGED disturbed \/ disturbed' = [disturbed EXCEPT ![r] = TRUE]
  PROVE  [Row!Next]_Row!vars
<1>1. CASE UNCHANGED disturbed
  BY <1>1 DEF rowVars, Row!vars
<1>2. CASE disturbed' = [disturbed EXCEPT ![r] = TRUE]
  <2>1. Row!Disturb(r)
    BY <1>2 DEF Row!Disturb, rowVars
  <2> QED
    BY <2>1, Zenon DEF Row!Next
<1> QED
  BY <1>1, <1>2

\* Deleting the flow deletes the runs that are in the table.
LEMMA DeleteRefines ==
  ASSUME DeleteFlow
  PROVE  [Row!Next]_Row!vars
<1> DEFINE gone == {r \in Runs : HasRow(r)}
<1>1. status' = [r \in Runs |-> IF r \in gone THEN "deleted" ELSE status[r]]
  BY DEF DeleteFlow
<1>2. \A r \in gone : status[r] \in Row!InTable
  BY DEF HasRow, InTable, Terminal, Row!InTable, Row!Terminal
<1>3. UNCHANGED <<startedAt, finishedAt, disturbed>>
  BY DEF DeleteFlow
<1>4. gone \in SUBSET Runs
  OBVIOUS
<1> HIDE DEF gone
<1>5. Row!Delete(gone)
  BY <1>1, <1>2, <1>3 DEF Row!Delete
<1> QED
  BY <1>4, <1>5, Zenon DEF Row!Next

\* Whoever updates the row may, as RunStatus says: the handlers and the abandoned
\* attempts because the run is disturbed, the status activities because the row is
\* where the workflow left it.
LEMMA WritesRefine ==
  ASSUME TypeOK, ExecutionInv, NEW r \in Runs, RunOK(r), Acts(r)
  PROVE  CreateRun(r) \/ UNCHANGED rowVars \/ [Row!Next]_Row!vars
<1>1. ASSUME MarkStartFailed(r), UpdateStatus(r, "failed")
      PROVE  [Row!Next]_Row!vars
  <2>1. disturbed[r] \/ status[r] = "queued"
    BY <1>1 DEF MarkStartFailed, UpdateStatus, HasRow, InTable, Terminal, RunOK,
                RowFollowsWorkflow
  <2>2. UNCHANGED disturbed
    BY <1>1 DEF MarkStartFailed
  <2> QED
    BY <1>1, <2>1, <2>2, UpdateRefines
<1>2. ASSUME CancelWrite(r), UpdateStatus(r, "canceled")
      PROVE  [Row!Next]_Row!vars
  <2>1. disturbed[r] /\ UNCHANGED disturbed
    BY <1>2 DEF CancelWrite, RunOK, HandlersAgree
  <2> QED
    BY <1>2, <2>1, UpdateRefines
<1>3. ASSUME NEW l \in late[r], LateWrite(r, l), UpdateStatus(r, Writes[l[1]])
      PROVE  [Row!Next]_Row!vars
  <2>1. disturbed[r] /\ UNCHANGED disturbed
    BY <1>3 DEF LateWrite, RunOK, HandlersAgree
  <2>2. l[1] \in Marks
    BY DEF TypeOK, LateTypeOK
  <2>3. Writes[l[1]] = "success" => startedAt[r]
    BY <2>2, OnlyMarkSuccess DEF ExecutionInv, SuccessIsEvident, Evidence
  <2>4. Writes[l[1]] \in {"running", "success", "failed", "canceled"}
    BY <2>2 DEF Writes, Marks
  <2> QED
    BY <1>3, <2>1, <2>3, <2>4, UpdateRefines
<1>4. ASSUME UpdateRunStatus(r), UpdateStatus(r, Writes[awaits[r]])
      PROVE  [Row!Next]_Row!vars
  <2>1. awaits[r] \in Marks /\ UNCHANGED disturbed /\ HasRow(r)
    BY <1>4 DEF UpdateRunStatus, UpdateStatus
  <2>2. /\ Writes["markRunning"] = "running" /\ Writes["markFailed"] = "failed"
        /\ Writes["markSuccess"] = "success"
    BY DEF Writes
  <2>3. awaits[r] = "markSuccess" => startedAt[r]
    BY DEF ExecutionInv, SuccessIsEvident, Evidence
  <2>4. CASE disturbed[r]
    BY <1>4, <2>1, <2>2, <2>3, <2>4, UpdateRefines DEF Marks
  <2>5. CASE ~disturbed[r] /\ awaits[r] = "markRunning"
    <3>1. status[r] \in {"queued", "running"} /\ (status[r] = "running" => startedAt[r])
      BY <2>1, <2>5 DEF RunOK, RowFollowsWorkflow
    <3>2. UpdateStatus(r, "running")
      BY <1>4, <2>2, <2>5
    <3> QED
      BY <2>1, <3>1, <3>2, UpdateRefines DEF Terminal
  <2>6. CASE ~disturbed[r] /\ awaits[r] = "markFailed"
    <3>1. status[r] \in {"running", "failed"} /\ (status[r] \in Terminal => finishedAt[r])
      BY <2>1, <2>2, <2>6 DEF RunOK, RowFollowsWorkflow
    <3>2. UpdateStatus(r, "failed")
      BY <1>4, <2>2, <2>6
    <3> QED
      BY <2>1, <3>1, <3>2, UpdateRefines
  <2>7. CASE ~disturbed[r] /\ awaits[r] = "markSuccess"
    <3>1. status[r] \in {"running", "success"} /\ (status[r] \in Terminal => finishedAt[r])
      BY <2>1, <2>2, <2>7 DEF RunOK, RowFollowsWorkflow
    <3>2. UpdateStatus(r, "success")
      BY <1>4, <2>2, <2>7
    <3> QED
      BY <2>1, <2>3, <2>7, <3>1, <3>2, UpdateRefines
  <2> QED
    BY <2>1, <2>4, <2>5, <2>6, <2>7 DEF Marks
<1> QED
  BY <1>1, <1>2, <1>3, <1>4, RowWrites

\* Only what RunStatus calls so disturbs a run.
LEMMA DisturbedStep ==
  ASSUME NEW r \in Runs, Acts(r)
  PROVE  UNCHANGED disturbed \/ disturbed' = [disturbed EXCEPT ![r] = TRUE]
<1>1. CASE Attempt(r) \/ Server(r) \/ AttemptTimesOut(r) \/ ScheduleTimesOut(r)
  BY <1>1 DEF Attempt, Server, AttemptStarts, UpdateRunStatus, LoadFlowDefinition,
              ExecReturns, ReportCompleted, ReportErred, Advance, ObserveCancel,
              AttemptTimesOut, ScheduleTimesOut, Abandon
<1>2. CASE \/ Executor(r) \/ WorkerDies(r)
           \/ \E s \in Steps : StepRetries(r, s) \/ StepInterrupted(r, s)
  BY <1>2, ExecutorIsAlone DEF ExecOnly
<1> QED
  BY <1>1, <1>2
     DEF Acts, CreateRun, CancelRead, Starter, StartAccepted, StartUnconfirmed,
         StartRejected, MarkStartFailed, Canceller, CancelRequest,
         CancelOpenSteps, CancelWrite, Faults, StarterDies, CancellerDies,
         LateWrite, LateNever

\* Every step of the run lifecycle is a step of RunStatus or leaves the row alone.
LEMMA StepRefines ==
  TypeOK /\ ExecutionInv /\ RowInv /\ [Next]_vars => [Row!Next]_Row!vars
<1> SUFFICES ASSUME TypeOK, ExecutionInv, RowInv, [Next]_vars
             PROVE  [Row!Next]_Row!vars
  OBVIOUS
<1>1. CASE UNCHANGED vars
  BY <1>1 DEF vars, rowVars, Row!vars
<1>2. CASE DeleteFlow
  BY <1>2, DeleteRefines
<1>3. ASSUME NEW r \in Runs, Acts(r) PROVE [Row!Next]_Row!vars
  <2>1. RunOK(r)
    BY DEF RowInv, RunOK
  <2> QED
    BY <1>3, <2>1, WritesRefine, CreateRefines, DisturbRefines, DisturbedStep
<1> QED
  BY <1>1, <1>2, <1>3 DEF Next, Acts

\* What a client reads of a run, by list, get or poll, is a RunStatus: queued once,
\* begun before it succeeds, its verdict standing unless something interfered.
THEOREM RunStatusImplemented == Spec => ImplementsRunStatus
<1>1. Init => Row!Init
  BY DEF Init, Row!Init
<1> QED
  BY <1>1, StepRefines, TypeCorrect, ExecutionInvariant, RowInvariant, PTL
     DEF Spec, ImplementsRunStatus, Row!Spec
==============================================================================
