------------------------------ MODULE Scheduler ------------------------------
(***************************************************************************)
(* The scheduler of a worker process (FlowCronScheduler): one goroutine    *)
(* compares the schedules of the flows in the database with the ones it    *)
(* installed and, when they differ, replaces the cron runner by a new one; *)
(* the runner starts a goroutine for every activation, which creates a run *)
(* and starts its workflow the way the API's run handler does; the worker  *)
(* stops the loop before the process exits.  Users edit, archive and       *)
(* delete flows meanwhile.                                                 *)
(*                                                                         *)
(* The cron library is external: a runner has a time for every entry, its  *)
(* next activation after it was started or fired; Stop returns when the    *)
(* runner will fire no more and waits for no job.  Time is counted in      *)
(* activations: each valid schedule is due at every tick of now.  Timers   *)
(* may be late.                                                            *)
(***************************************************************************)
EXTENDS Naturals, FiniteSets

CONSTANTS
  Flows,
  Valid, Invalid,   \* schedules that parse, and that do not
  MaxTime,          \* bound: ticks
  MaxEdits          \* bound: changes of flows

ASSUME SpecsAssumption == Valid \cap Invalid = {} /\ "none" \notin Valid /\ "gone" \notin Valid
ASSUME BoundsAssumption == MaxTime \in Nat \ {0} /\ MaxEdits \in Nat

VARIABLES
  flow,      \* the schedule in each flow, "none" (also: archived), or "gone"
  loop,      \* where the goroutine is
  stopping,  \* Stop was called
  desired,   \* of the reconcile that is going on
  current,   \* currentByFlow
  live,      \* the cron runner fires
  plan,      \* its entries
  due,       \* their next activations
  now,
  job,       \* the goroutine that an activation started, by flow and tick
  \* history
  edits,
  fired      \* the tick at which the process last started a run of the flow

dbVars     == <<flow, edits>>
loopVars   == <<loop, stopping, desired, current>>
runnerVars == <<live, plan, due>>
jobVars    == <<job, fired>>
vars == <<dbVars, loopVars, runnerVars, now, jobVars>>

Specs == Valid \cup Invalid
Ticks == 1..MaxTime
Plans == UNION {[F -> Specs] : F \in SUBSET Flows}
Empty == [f \in {} |-> "none"]

DbTypeOK ==
  /\ flow \in [Flows -> Specs \cup {"none", "gone"}]
  /\ edits \in 0..MaxEdits

LoopTypeOK ==
  /\ loop \in {"off", "listing", "replacing", "building", "waiting", "ended", "exited"}
  /\ stopping \in BOOLEAN
  /\ desired \in Plans /\ current \in Plans

RunnerTypeOK ==
  /\ live \in BOOLEAN
  /\ plan \in Plans
  /\ \A f \in DOMAIN plan : plan[f] \in Valid
  /\ due \in [DOMAIN plan -> Nat]

\* How a goroutine may leave a queued row behind that nobody will touch again: the
\* insert was committed and an error returned, the write of failed was lost as well,
\* or the process exited under it.
Leaks == {"unconfirmed", "unwritten", "abandoned"}

JobTypeOK ==
  /\ now \in Ticks
  /\ job \in [Flows \X Ticks -> {"none", "creating", "starting", "rejected"} \cup Leaks]
  /\ fired \in [Flows -> 0..MaxTime]

TypeOK == DbTypeOK /\ LoopTypeOK /\ RunnerTypeOK /\ JobTypeOK

Init ==
  /\ flow \in [Flows -> Specs \cup {"none"}]
  /\ loop = "off" /\ stopping = FALSE
  /\ desired = Empty /\ current = Empty
  /\ live = FALSE /\ plan = Empty /\ due = Empty
  /\ now = 1
  /\ job = [j \in Flows \X Ticks |-> "none"]
  /\ edits = 0
  /\ fired = [f \in Flows |-> 0]

------------------------------------------------------------------------------
(* Users and time. *)

Edit(f, s) ==
  /\ edits < MaxEdits
  /\ edits' = edits + 1
  /\ flow[f] # "gone"
  /\ flow' = [flow EXCEPT ![f] = s]
  /\ UNCHANGED <<loopVars, runnerVars, now, jobVars>>

Tick ==
  /\ now < MaxTime
  /\ now' = now + 1
  /\ UNCHANGED <<dbVars, loopVars, runnerVars, jobVars>>

------------------------------------------------------------------------------
(* The loop. *)

Start ==
  /\ loop = "off"
  /\ loop' = "listing"
  /\ UNCHANGED <<dbVars, stopping, desired, current, runnerVars, now, jobVars>>

Scheduled == [f \in {g \in Flows : flow[g] \in Specs} |-> flow[f]]

\* reconcile lists the flows and has nothing to do if their schedules are the ones
\* it installed.
List ==
  /\ loop = "listing"
  /\ desired' = Scheduled
  /\ loop' = IF desired' = current THEN "waiting" ELSE "replacing"
  /\ UNCHANGED <<dbVars, stopping, current, runnerVars, now, jobVars>>

ListFails ==
  /\ loop = "listing"
  /\ loop' = "waiting"
  /\ UNCHANGED <<dbVars, stopping, desired, current, runnerVars, now, jobVars>>

StopCron == live' = FALSE /\ plan' = Empty /\ due' = Empty

StopOld ==
  /\ loop = "replacing"
  /\ StopCron
  /\ loop' = "building"
  /\ UNCHANGED <<dbVars, stopping, desired, current, now, jobVars>>

\* Schedules that do not parse get no entry.
ValidPart(p) == [f \in {g \in DOMAIN p : p[g] \in Valid} |-> p[f]]

\* The runner's goroutine computes when its entries are due.
MutInstall ==
  /\ loop = "building"
  /\ plan' = desired
  /\ due' = [f \in DOMAIN plan' |-> now + 1]
  /\ live' = TRUE
  /\ current' = desired
  /\ loop' = "waiting"
  /\ UNCHANGED <<dbVars, stopping, desired, now, jobVars>>

MutDue ==
  /\ loop = "building"
  /\ plan' = ValidPart(desired)
  /\ due' = [f \in DOMAIN plan' |-> now]
  /\ live' = TRUE
  /\ current' = desired
  /\ loop' = "waiting"
  /\ UNCHANGED <<dbVars, stopping, desired, now, jobVars>>

Install ==
  /\ loop = "building"
  /\ plan' = ValidPart(desired)
  /\ due' = [f \in DOMAIN plan' |-> now + 1]
  /\ live' = TRUE
  /\ current' = desired
  /\ loop' = "waiting"
  /\ UNCHANGED <<dbVars, stopping, desired, now, jobVars>>

Reconcile ==
  /\ loop = "waiting"
  /\ loop' = "listing"
  /\ UNCHANGED <<dbVars, stopping, desired, current, runnerVars, now, jobVars>>

\* The worker was interrupted: Stop closes stopCh and waits for the loop to end.
Stop ==
  /\ loop \notin {"off", "ended", "exited"} /\ ~stopping
  /\ stopping' = TRUE
  /\ UNCHANGED <<dbVars, loop, desired, current, runnerVars, now, jobVars>>

LoopEnds ==
  /\ loop = "waiting" /\ stopping
  /\ StopCron
  /\ loop' = "ended"
  /\ UNCHANGED <<dbVars, stopping, desired, current, now, jobVars>>

------------------------------------------------------------------------------
(* Activations. *)

Fire(f) ==
  /\ live /\ f \in DOMAIN plan
  /\ due[f] <= now
  /\ due' = [due EXCEPT ![f] = now + 1]
  /\ job' = [job EXCEPT ![<<f, now>>] = "creating"]
  /\ fired' = [fired EXCEPT ![f] = now]
  /\ UNCHANGED <<dbVars, loopVars, live, plan, now>>

Job(f, t, step) ==
  /\ job' = [job EXCEPT ![<<f, t>>] = step]
  /\ UNCHANGED <<dbVars, loopVars, runnerVars, now, fired>>

\* The row is inserted, queued, unless the flow is gone; or the insert fails, which
\* it may after it was committed.
CreateRun(f, t) ==
  /\ job[<<f, t>>] = "creating"
  /\ \/ Job(f, t, "none")
     \/ flow[f] # "gone" /\ \E s \in {"starting", "unconfirmed"} : Job(f, t, s)

\* The workflow is started, and RunLifecycle has the run from here, or it is not.
\* The mutant returns then.
MutExecuteWorkflow(f, t) ==
  /\ job[<<f, t>>] = "starting"
  /\ Job(f, t, "none") \/ Job(f, t, "orphan")

ExecuteWorkflow(f, t) ==
  /\ job[<<f, t>>] = "starting"
  /\ Job(f, t, "none") \/ Job(f, t, "rejected")

\* The row is written failed.  The error of that write is ignored.
MarkFailed(f, t) ==
  /\ job[<<f, t>>] = "rejected"
  /\ Job(f, t, "none") \/ Job(f, t, "unwritten")

------------------------------------------------------------------------------
(* The process exits after Stop, or dies: nobody waits for the jobs. *)

\* An insert under way may be committed.
Exit ==
  /\ loop \notin {"off", "exited"}
  /\ loop' = "exited"
  /\ StopCron
  /\ \E committed \in SUBSET {j \in DOMAIN job : job[j] = "creating" /\ flow[j[1]] # "gone"} :
       job' = [j \in DOMAIN job |->
                 IF j \in committed \/ job[j] \in {"starting", "rejected"} THEN "abandoned"
                 ELSE IF job[j] = "creating" THEN "none" ELSE job[j]]
  /\ UNCHANGED <<dbVars, stopping, desired, current, now, fired>>

\* The next process has a scheduler of its own.
Restart ==
  /\ loop = "exited"
  /\ loop' = "off" /\ stopping' = FALSE
  /\ desired' = Empty /\ current' = Empty
  /\ UNCHANGED <<dbVars, runnerVars, now, jobVars>>

Loop == List \/ ListFails \/ StopOld \/ Install \/ Reconcile \/ LoopEnds

Next ==
  \/ \E f \in Flows, s \in Specs \cup {"none", "gone"} : Edit(f, s)
  \/ Tick \/ Start \/ Stop \/ Loop \/ Exit \/ Restart
  \/ \E f \in Flows : Fire(f)
  \/ \E f \in Flows, t \in Ticks : CreateRun(f, t) \/ ExecuteWorkflow(f, t) \/ MarkFailed(f, t)

\* The goroutines run, and the database does not fail every time it is asked.
Fairness ==
  /\ WF_vars(Loop) /\ SF_vars(List)
  /\ \A f \in Flows, t \in Ticks :
       WF_vars(CreateRun(f, t)) /\ WF_vars(ExecuteWorkflow(f, t)) /\ WF_vars(MarkFailed(f, t))

Spec == Init /\ [][Next]_vars /\ Fairness

------------------------------------------------------------------------------
(* Properties *)

\* What reconcile compares with is what it installed, so that it is right to have
\* nothing to do: whenever it waits, the runner has just the entries of current,
\* and there is no runner only if there is nothing to run.
PlanIsInstalled ==
  loop = "waiting" => plan = ValidPart(current) /\ (live \/ current = Empty)

\* Once Stop has returned nothing fires: the worker's Temporal client may go.
StopIsFinal ==
  loop \in {"off", "ended", "exited"} => ~live /\ DOMAIN plan = {}

\* No activation starts two runs of a flow, although runners are replaced at any
\* moment, the old one's jobs go on and the process restarts.
OncePerTick ==
  [][\A f \in Flows : \A t \in Ticks :
       job[<<f, t>>] # "creating" /\ job'[<<f, t>>] = "creating" => t = now /\ fired[f] < now]_vars

\* Why, in inductive form: the runner exists from Install until StopCron, with the
\* entries of current; none of them is due at a tick at which it was fired.
RunnerInv ==
  /\ loop \in {"listing", "waiting", "replacing"}
       => plan = ValidPart(current) /\ (live \/ current = Empty)
  /\ loop \in {"off", "building", "ended", "exited"} => ~live /\ plan = Empty
  /\ loop = "off" => current = Empty

DueInv ==
  \A f \in Flows : fired[f] <= now /\ (f \in DOMAIN plan => fired[f] < due[f])

SchedulerInv == TypeOK /\ RunnerInv /\ DueInv

\* A schedule that is set, changed, archived or deleted is followed in the end, if
\* it stays and the process does: also when a list fails, when another flow has a
\* schedule that does not parse and when a reconcile is going on meanwhile.
ScheduleIsFollowed ==
  \A f \in Flows : \A s \in Specs \cup {"none", "gone"} :
    (flow[f] = s /\ loop # "off")
      ~> \/ flow[f] # s \/ stopping \/ loop = "exited"
         \/ IF s \in Valid THEN f \in DOMAIN plan /\ plan[f] = s ELSE f \notin DOMAIN plan

\* A row that the scheduler knows to be queued is handed over, or tried to be
\* written failed: no path of the goroutine just returns.  It is not more than
\* that: the row is left queued for good when that write is lost or the process
\* exits, or when the scheduler does not know of the row, and nothing repairs it.
QueuedRunsMove ==
  \A f \in Flows, t \in Ticks :
    job[<<f, t>>] = "starting" ~> job[<<f, t>>] \in {"none", "unwritten", "abandoned"}

\* What a user schedules is installed, and what is due is started.
SchedulesRun == ScheduleIsFollowed /\ QueuedRunsMove
==============================================================================
