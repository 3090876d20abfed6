--------------------------- MODULE SchedulerProofs ---------------------------
(***************************************************************************)
(* Theorems about Scheduler, for any flows and schedules and any bounds.   *)
(***************************************************************************)
EXTENDS Scheduler, TLAPS

LEMMA PlansAreFunctions ==
  ASSUME NEW p
  PROVE  p \in Plans <=> \E F \in SUBSET Flows : p \in [F -> Specs]
BY DEF Plans

LEMMA EmptyPlan == Empty \in Plans /\ DOMAIN Empty = {} /\ ValidPart(Empty) = Empty
<1>1. DOMAIN Empty = {}
  BY DEF Empty
<1>2. Empty \in [{} -> Specs]
  BY DEF Empty
<1>3. ValidPart(Empty) = Empty
  BY DEF ValidPart, Empty
<1> QED
  BY <1>1, <1>2, <1>3, PlansAreFunctions

\* The entries that ValidPart keeps.
LEMMA ValidPartType ==
  ASSUME NEW p \in Plans
  PROVE  /\ ValidPart(p) \in Plans
         /\ DOMAIN ValidPart(p) \subseteq Flows
         /\ \A f \in DOMAIN ValidPart(p) : ValidPart(p)[f] \in Valid
<1>1. PICK F \in SUBSET Flows : p \in [F -> Specs]
  BY PlansAreFunctions
<1> DEFINE D == {g \in F : p[g] \in Valid}
<1>2. ValidPart(p) = [f \in D |-> p[f]]
  BY <1>1 DEF ValidPart
<1>3. ValidPart(p) \in [D -> Specs] /\ D \in SUBSET Flows
  BY <1>1, <1>2 DEF Specs
<1>4. ValidPart(p) \in Plans
  BY <1>3, PlansAreFunctions
<1> QED
  BY <1>2, <1>3, <1>4

LEMMA ScheduledType == TypeOK => Scheduled \in Plans
<1> SUFFICES ASSUME TypeOK PROVE Scheduled \in Plans
  OBVIOUS
<1> DEFINE D == {g \in Flows : flow[g] \in Specs}
<1>1. Scheduled \in [D -> Specs]
  BY DEF Scheduled
<1> QED
  BY <1>1, PlansAreFunctions

LEMMA InitInv == Init => SchedulerInv
<1> SUFFICES ASSUME Init PROVE SchedulerInv
  OBVIOUS
<1>1. DbTypeOK /\ LoopTypeOK
  <2>1. flow \in [Flows -> Specs \cup {"none", "gone"}]
    BY DEF Init
  <2>2. edits \in 0..MaxEdits
    BY BoundsAssumption DEF Init
  <2>3. LoopTypeOK
    BY EmptyPlan DEF Init, LoopTypeOK
  <2> QED
    BY <2>1, <2>2, <2>3 DEF DbTypeOK
<1>2. RunnerTypeOK
  BY EmptyPlan DEF Init, RunnerTypeOK, Empty
<1>3. JobTypeOK
  BY BoundsAssumption DEF Init, JobTypeOK, Ticks
<1>4. RunnerInv /\ DueInv
  BY EmptyPlan DEF Init, RunnerInv, DueInv
<1> QED
  BY <1>1, <1>2, <1>3, <1>4 DEF SchedulerInv, TypeOK

\* A step that touches neither loop nor runner nor the times of the last starts.
LEMMA QuietStep ==
  ASSUME SchedulerInv, UNCHANGED <<loopVars, runnerVars, now, fired>>,
         DbTypeOK', JobTypeOK'
  PROVE  SchedulerInv'
BY DEF SchedulerInv, TypeOK, LoopTypeOK, RunnerTypeOK, RunnerInv, DueInv, loopVars, runnerVars

LEMMA EditKeeps ==
  ASSUME SchedulerInv, NEW f \in Flows, NEW s \in Specs \cup {"none", "gone"}, Edit(f, s)
  PROVE  SchedulerInv'
<1>1. DbTypeOK' /\ JobTypeOK'
  BY BoundsAssumption DEF SchedulerInv, TypeOK, DbTypeOK, JobTypeOK, Edit, jobVars
<1> QED
  BY <1>1, QuietStep DEF Edit, jobVars

LEMMA JobKeeps ==
  ASSUME SchedulerInv, NEW f \in Flows, NEW t \in Ticks,
         CreateRun(f, t) \/ ExecuteWorkflow(f, t) \/ MarkFailed(f, t)
  PROVE  SchedulerInv'
<1>1. PICK s \in {"none", "starting", "rejected"} \cup Leaks : Job(f, t, s)
  BY DEF CreateRun, ExecuteWorkflow, MarkFailed, Leaks
<1>2. DbTypeOK' /\ JobTypeOK'
  BY <1>1 DEF SchedulerInv, TypeOK, DbTypeOK, JobTypeOK, Job, dbVars
<1> QED
  BY <1>1, <1>2, QuietStep DEF Job

LEMMA TickKeeps == SchedulerInv /\ Tick => SchedulerInv'
<1> SUFFICES ASSUME SchedulerInv, Tick PROVE SchedulerInv'
  OBVIOUS
<1>1. TypeOK'
  BY BoundsAssumption
  DEF SchedulerInv, TypeOK, DbTypeOK, LoopTypeOK, RunnerTypeOK, JobTypeOK, Ticks,
      Tick, dbVars, loopVars, runnerVars, jobVars
<1>2. RunnerInv'
  BY DEF SchedulerInv, RunnerInv, Tick, loopVars, runnerVars
<1>3. DueInv'
  BY BoundsAssumption
  DEF SchedulerInv, TypeOK, JobTypeOK, DueInv, Tick, Ticks, runnerVars, jobVars
<1> QED
  BY <1>1, <1>2, <1>3 DEF SchedulerInv

\* A step of the loop that leaves the runner alone.
LEMMA LoopStep ==
  ASSUME SchedulerInv, UNCHANGED <<dbVars, runnerVars, now, jobVars>>, LoopTypeOK', RunnerInv'
  PROVE  SchedulerInv'
BY DEF SchedulerInv, TypeOK, DbTypeOK, RunnerTypeOK, JobTypeOK, DueInv, dbVars, runnerVars, jobVars

LEMMA LoopKeeps ==
  ASSUME SchedulerInv, Start \/ List \/ ListFails \/ Reconcile \/ Stop \/ Restart
  PROVE  SchedulerInv'
<1>1. CASE Start
  BY <1>1, LoopStep, EmptyPlan
  DEF Start, SchedulerInv, TypeOK, LoopTypeOK, RunnerInv, runnerVars
<1>2. CASE List
  BY <1>2, LoopStep, ScheduledType
  DEF List, SchedulerInv, TypeOK, LoopTypeOK, RunnerInv, runnerVars
<1>3. CASE ListFails \/ Reconcile
  BY <1>3, LoopStep
  DEF ListFails, Reconcile, SchedulerInv, TypeOK, LoopTypeOK, RunnerInv, runnerVars
<1>4. CASE Stop
  <2>1. LoopTypeOK'
    BY <1>4 DEF Stop, SchedulerInv, TypeOK, LoopTypeOK
  <2>2. RunnerInv'
    BY <1>4 DEF Stop, SchedulerInv, RunnerInv, runnerVars
  <2> QED
    BY <1>4, <2>1, <2>2, LoopStep DEF Stop
<1>5. CASE Restart
  BY <1>5, LoopStep, EmptyPlan
  DEF Restart, SchedulerInv, TypeOK, LoopTypeOK, RunnerInv, runnerVars
<1> QED
  BY <1>1, <1>2, <1>3, <1>4, <1>5

\* The old runner is stopped: before a new one, at the end of the loop, or because
\* the process goes.
LEMMA StopKeeps ==
  ASSUME SchedulerInv, StopOld \/ LoopEnds \/ Exit
  PROVE  SchedulerInv'
<1>1. StopCron /\ UNCHANGED <<dbVars, stopping, desired, current, now, fired>>
  BY DEF StopOld, LoopEnds, Exit, jobVars
<1>2. loop' \in {"building", "ended", "exited"}
  BY DEF StopOld, LoopEnds, Exit
<1>3. DbTypeOK' /\ LoopTypeOK'
  BY <1>1, <1>2 DEF SchedulerInv, TypeOK, DbTypeOK, LoopTypeOK, dbVars
<1>4. RunnerTypeOK'
  BY <1>1, EmptyPlan DEF StopCron, RunnerTypeOK, Empty
<1>5. JobTypeOK'
  <2>1. CASE UNCHANGED job
    BY <1>1, <2>1 DEF SchedulerInv, TypeOK, JobTypeOK
  <2>2. CASE Exit
    <3>1. PICK C : job' = [j \in DOMAIN job |->
                       IF j \in C \/ job[j] \in {"starting", "rejected"} THEN "abandoned"
                       ELSE IF job[j] = "creating" THEN "none" ELSE job[j]]
      BY <2>2 DEF Exit
    <3>2. job \in [Flows \X Ticks -> {"none", "creating", "starting", "rejected"} \cup Leaks]
      BY DEF SchedulerInv, TypeOK, JobTypeOK
    <3>3. job' \in [Flows \X Ticks -> {"none", "creating", "starting", "rejected"} \cup Leaks]
      BY <3>1, <3>2 DEF Leaks
    <3> QED
      BY <1>1, <3>3 DEF SchedulerInv, TypeOK, JobTypeOK
  <2> QED
    BY <2>1, <2>2 DEF StopOld, LoopEnds, jobVars
<1>6. RunnerInv' /\ DueInv'
  BY <1>1, <1>2, EmptyPlan DEF SchedulerInv, RunnerInv, DueInv, StopCron
<1> QED
  BY <1>3, <1>4, <1>5, <1>6 DEF SchedulerInv, TypeOK

LEMMA InstallKeeps == SchedulerInv /\ Install => SchedulerInv'
<1> SUFFICES ASSUME SchedulerInv, Install PROVE SchedulerInv'
  OBVIOUS
<1>1. desired \in Plans /\ now \in Nat
  BY BoundsAssumption DEF SchedulerInv, TypeOK, LoopTypeOK, JobTypeOK, Ticks
<1>2. plan' = ValidPart(desired) /\ due' = [f \in DOMAIN plan' |-> now + 1]
  BY DEF Install
<1>3. DbTypeOK' /\ LoopTypeOK' /\ JobTypeOK'
  BY DEF SchedulerInv, TypeOK, DbTypeOK, LoopTypeOK, JobTypeOK, Install, dbVars, jobVars
<1>4. RunnerTypeOK'
  BY <1>1, <1>2, ValidPartType DEF RunnerTypeOK, Install
<1>5. RunnerInv'
  BY <1>2 DEF RunnerInv, Install
<1>6. DueInv'
  <2> SUFFICES ASSUME NEW f \in Flows
               PROVE  fired'[f] <= now' /\ (f \in DOMAIN plan' => fired'[f] < due'[f])
    BY DEF DueInv
  <2>1. fired' = fired /\ now' = now /\ fired[f] <= now /\ fired[f] \in Nat
    BY BoundsAssumption DEF Install, jobVars, SchedulerInv, TypeOK, JobTypeOK, DueInv
  <2> QED
    BY <1>1, <1>2, <2>1
<1> QED
  BY <1>3, <1>4, <1>5, <1>6 DEF SchedulerInv, TypeOK

LEMMA FireKeeps ==
  ASSUME SchedulerInv, NEW f \in Flows, Fire(f)
  PROVE  SchedulerInv'
<1>1. now \in Ticks /\ now \in Nat /\ now <= MaxTime
  BY BoundsAssumption DEF SchedulerInv, TypeOK, JobTypeOK, Ticks
<1>2. DbTypeOK' /\ LoopTypeOK' /\ RunnerInv'
  BY DEF SchedulerInv, TypeOK, DbTypeOK, LoopTypeOK, RunnerInv, Fire, dbVars, loopVars
<1>3. RunnerTypeOK'
  BY <1>1 DEF SchedulerInv, TypeOK, RunnerTypeOK, Fire
<1>4. JobTypeOK'
  BY <1>1, BoundsAssumption DEF SchedulerInv, TypeOK, JobTypeOK, Fire
<1>5. DueInv'
  <2> SUFFICES ASSUME NEW g \in Flows
               PROVE  fired'[g] <= now' /\ (g \in DOMAIN plan' => fired'[g] < due'[g])
    BY DEF DueInv
  <2>1. now' = now /\ plan' = plan
    BY DEF Fire
  <2>2. due' = [due EXCEPT ![f] = now + 1] /\ due \in [DOMAIN plan -> Nat]
    BY DEF Fire, SchedulerInv, TypeOK, RunnerTypeOK
  <2>3. fired' = [fired EXCEPT ![f] = now] /\ fired \in [Flows -> 0..MaxTime]
    BY DEF Fire, SchedulerInv, TypeOK, JobTypeOK
  <2>4. fired[g] <= now /\ (g \in DOMAIN plan => fired[g] < due[g])
    BY DEF SchedulerInv, DueInv
  <2> QED
    BY <1>1, <2>1, <2>2, <2>3, <2>4
<1> QED
  BY <1>2, <1>3, <1>4, <1>5 DEF SchedulerInv, TypeOK

LEMMA NextKeeps == SchedulerInv /\ [Next]_vars => SchedulerInv'
<1> SUFFICES ASSUME SchedulerInv, [Next]_vars PROVE SchedulerInv'
  OBVIOUS
<1>1. CASE UNCHANGED vars
  BY <1>1 DEF vars, dbVars, loopVars, runnerVars, jobVars, SchedulerInv, TypeOK, DbTypeOK,
     LoopTypeOK, RunnerTypeOK, JobTypeOK, RunnerInv, DueInv
<1>2. CASE \E f \in Flows, s \in Specs \cup {"none", "gone"} : Edit(f, s)
  BY <1>2, EditKeeps
<1>3. CASE Tick
  BY <1>3, TickKeeps
<1>4. CASE Start \/ List \/ ListFails \/ Reconcile \/ Stop \/ Restart
  BY <1>4, LoopKeeps
<1>5. CASE StopOld \/ LoopEnds \/ Exit
  BY <1>5, StopKeeps
<1>6. CASE Install
  BY <1>6, InstallKeeps
<1>7. CASE \E f \in Flows : Fire(f)
  BY <1>7, FireKeeps
<1>8. CASE \E f \in Flows, t \in Ticks :
             CreateRun(f, t) \/ ExecuteWorkflow(f, t) \/ MarkFailed(f, t)
  BY <1>8, JobKeeps
<1> QED
  BY <1>1, <1>2, <1>3, <1>4, <1>5, <1>6, <1>7, <1>8, Zenon DEF Next, Loop

\* Every reachable state: what is installed and when it is due.
THEOREM SchedulerInvariant == Spec => []SchedulerInv
BY InitInv, NextKeeps, PTL DEF Spec

\* reconcile never mistakes a plan that is not installed for one that is.
THEOREM PlanIsInstalledAlways == Spec => []PlanIsInstalled
<1>1. SchedulerInv => PlanIsInstalled
  BY DEF SchedulerInv, RunnerInv, PlanIsInstalled
<1> QED
  BY <1>1, SchedulerInvariant, PTL

\* Nothing fires once Stop has returned.
THEOREM StopIsFinalAlways == Spec => []StopIsFinal
<1>1. SchedulerInv => StopIsFinal
  BY EmptyPlan DEF SchedulerInv, RunnerInv, StopIsFinal
<1> QED
  BY <1>1, SchedulerInvariant, PTL

\* A new goroutine is made by Fire only, at a tick later than the last one.
LEMMA FiresOnce ==
  ASSUME SchedulerInv, [Next]_vars, NEW f \in Flows, NEW t \in Ticks,
         job[<<f, t>>] # "creating", job'[<<f, t>>] = "creating"
  PROVE  t = now /\ fired[f] < now
<1>1. job \in [Flows \X Ticks -> {"none", "creating", "starting", "rejected"} \cup Leaks]
  BY DEF SchedulerInv, TypeOK, JobTypeOK
<1>2. ~ UNCHANGED job
  OBVIOUS
<1>3. ~ Exit
  <2> SUFFICES ASSUME Exit PROVE FALSE
    OBVIOUS
  <2>1. PICK C : job' = [j \in DOMAIN job |->
                     IF j \in C \/ job[j] \in {"starting", "rejected"} THEN "abandoned"
                     ELSE IF job[j] = "creating" THEN "none" ELSE job[j]]
    BY DEF Exit
  <2>2. job'[<<f, t>>] # "creating"
    BY <1>1, <2>1
  <2> QED
    BY <2>2
<1>4. ASSUME NEW g \in Flows, NEW u \in Ticks,
             CreateRun(g, u) \/ ExecuteWorkflow(g, u) \/ MarkFailed(g, u)
      PROVE  FALSE
  <2>1. PICK s \in {"none", "starting", "rejected"} \cup Leaks : Job(g, u, s)
    BY <1>4 DEF CreateRun, ExecuteWorkflow, MarkFailed, Leaks
  <2>2. job'[<<f, t>>] \in {job[<<f, t>>], s}
    BY <1>1, <2>1 DEF Job
  <2> QED
    BY <2>2 DEF Leaks
<1>5. PICK g \in Flows : Fire(g)
  BY <1>2, <1>3, <1>4, Zenon
  DEF Next, Loop, vars, jobVars, Edit, Tick, Start, Stop, List, ListFails, StopOld, Install,
      Reconcile, LoopEnds, Restart
<1>6. f = g /\ t = now
  BY <1>1, <1>5 DEF Fire
<1>7. fired[f] < due[f] /\ due[f] <= now /\ fired[f] \in Nat /\ due[f] \in Nat /\ now \in Nat
  BY <1>5, <1>6, BoundsAssumption
  DEF Fire, SchedulerInv, TypeOK, RunnerTypeOK, JobTypeOK, DueInv, Ticks
<1> QED
  BY <1>6, <1>7

\* No activation starts two runs, whenever runners are replaced.
THEOREM OncePerTickAlways == Spec => OncePerTick
<1> DEFINE Once == \A f \in Flows : \A t \in Ticks :
                     job[<<f, t>>] # "creating" /\ job'[<<f, t>>] = "creating"
                       => t = now /\ fired[f] < now
<1>1. SchedulerInv /\ [Next]_vars => [Once]_vars
  BY FiresOnce
<1> QED
  BY <1>1, SchedulerInvariant, PTL DEF Spec, OncePerTick
==============================================================================
