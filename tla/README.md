# Verification of FlowCraft

FlowCraft lets users draw workflows ("flows") in a browser and runs them. It is
a Go API (`src/api`), a Go worker in front of a Temporal server, a Postgres
database, and a Next.js client (`src/web`). This directory holds TLA+ modules
translated from that code, the TLC configurations that check them on small
instances, and proofs checked by TLAPS. `PROJECT.json` maps every definition to
the lines it stands for.

Contents: [Inventory](#inventory) · [Plan](#plan) · [Modules](#modules-and-the-code) ·
[Runs](#runs-and-bounds) · [Fairness](#fairness) · [Proofs](#proofs) ·
[Findings](#findings) · [Limits](#what-is-not-modelled)

To repeat a check: `tlc -config Push.cfg MCPush.tla` (the module and
configuration of each run are in `PROJECT.json`); `tlapm PushProofs.tla`.

## Inventory

| Part | Code | State | Operations |
|---|---|---|---|
| Run lifecycle | `api/internal/adapters/http/run_handler.go`, `temporal/workflows.go`, `run_repository.go`, `run_step_repository.go` | rows `runs`, `run_steps`; the workflow `run-<id>`; attempts of activities | create, cancel, the workflow's status writes, retries and timeouts, deletion of the flow |
| Flow executor | `temporal/activities.go` (`ExecuteNodeActivity`) | `visited`, call stack of `executeNode`, step rows | plan, execute nodes depth first, retry, error branch, error trigger, continue on fail, skip |
| Cron scheduler | `temporal/scheduler.go`, `temporal/worker.go` | `currentByFlow`, the cron runner, the ticker | start, stop, reconcile every 15 s, start a scheduled run |
| Realtime push | `adapters/realtime/postgres_listener.go`, `adapters/websocket/*.go` | the LISTEN connection, the hub's client set, bounded channels | listen with retry, broadcast, register, unregister, the two pumps |
| Web socket client | `web/src/hooks/use-websocket.ts` | `_socket`, `_reconnectTimeout`, listeners | subscribe, connect, reconnect, close |
| Run pages, dashboard | `web/src/features/runs`, `features/dashboard` | query cache, poll timer, filters, page | poll while active, refetch on a message, filter, turn pages |
| Builder: opening, saving, running | `features/builder/hooks/use-builder-{load,save,topbar}.ts` | the cached row, the store, the top bar's name, requests under way | load, refetch, edit, save, autosave, run |
| Builder: canvas | `features/builder/store`, `components/canvas`, `components/node`, `lib/migrate-agent-subnodes.ts` | nodes, edges, notes, the store's selection and React Flow's | add, connect, duplicate, delete, select, open a flow and migrate it |
| Builder: wizard | `features/builder/wizard` | mode, step, draft, test | the steps' edits, next, back, test, confirm, close |
| Builder: inspector | `features/builder/components/inspector`, `lib/schedule-utils.ts`, `lib/if-utils.ts` | the selected node's data, the schedule form | patches of the node |
| Session | `features/auth`, `lib/fetcher.ts`, `lib/auth.ts` | the stored token, what was validated, requests | log in, sign up, third-party login, log out, gate, 401 |
| Workspace | `features/workspaces`, `features/flows`, `features/projects` | scope, project, the cached lists, dialogs | change workspace, create, import, duplicate, archive, delete, project settings |
| Credentials, variables (pages) | `features/credentials`, `features/variables` | dialogs, drafts, filters | create, edit, delete |
| API services | `core/services/*_service.go`, `adapters/http/*_handler.go` | users, sessions, memberships and scoped rows | one request, one row |
| If conditions, templates | `temporal/if_eval.go`, `activities_utils.go` | none (pure) | evaluate, render |
| External connectors | `adapters/external/*` | none of ours | HTTP calls to third parties |

### How the parts interact

The API handler (or the scheduler) inserts a `runs` row and asks the Temporal
server to open `RunFlowWorkflow`. The workflow runs three kinds of activities on
a worker; each of them writes rows directly. The cancel handler writes the same
rows from the API process. Every update of a run's or a step's state notifies a
Postgres channel in the same statement; the insert of a run, `CancelOpenSteps`
and a deletion do not. The API's listener forwards a notification to the hub, the
hub to every open socket, and a page that gets it fetches the run again. Nothing
but the rows is shared between the processes.

### What is hard, and what would be correct

**Run lifecycle.** Four writers in three processes (starter, canceller, status
activities, executor) and no condition in any `UPDATE`. A call to Temporal may
fail after it took effect; a status activity the server gave up on may still
write; the executor has no heartbeat and hears nothing of a cancellation. A run
should say *success* only if its nodes were executed to the end, keep the verdict
of its workflow unless something interfered, never be executed twice, leave no
node's step open behind a success, and end.

**Flow executor.** A recursive depth-first walk over graphs that may have cycles,
self loops, parallel edges and merges, in which five things may happen to a
failure. It should execute exactly what the outcomes of the executed nodes lead
to, each node once, merges after all their inputs, and succeed only if every
failure was tolerated or handled by the error trigger. The recursion must end.

**Scheduler.** A loop that replaces a runner under the feet of jobs that are
running, compares with what it remembers to have installed, and is stopped or
killed at any point. No activation may start two runs; every schedule is followed
in the end; a row that was inserted should be handed over, or marked failed.

**Hub and pumps.** Three goroutines per connection, unbuffered and bounded
channels, a channel that one of them closes. No send on a closed channel, no
second close, no gap in what a connected browser gets, no leak, no deadlock.

**Run pages.** Notifications may be lost at each of three hops, answers may be
older than the notifications that arrive before them. The page should end up with
the verdict and not go back from it.

**Builder, the open flow.** Loads, refetches, saves, the autosave's timer, the
debounced name and runs overlap, while the user goes on editing or opens another
flow. No request may write one flow into another, what is not marked as changed
should be saved, and a run should execute what was on the screen.

**Builder, its parts.** The wizard validates the step that is left and no other, while
tests are under way that outlive it; panels derive what they show from data older
versions stored; nodes go in three ways, each with its own clean-up; stored flows are
migrated when they are opened. What is added should be configured, what is shown
should be what the node holds, no edge should point to a node that is gone, and no
agent should lose its model.

**Session.** Five kinds of requests may be answered after the session changed. A
session that ended should not come back.

**Workspace and lists.** Scope and project are captured at a click and used after an
await; one mutation touches lists that are cached for several scopes. A flow should
be where it was asked for, a fresh list should be the server's, a table should not be
empty while it has rows, and a dialog should act on the item it was opened for.

**Services.** Roles are checked before, not with, the change they allow; rows are
written whole after they were read.

## Plan

Done, in this order, each on the ones before it:

1. `RunStatus` (abstract) and `RunLifecycle`, which implements it.
2. `FlowGraph`, `FlowPlan`, `FlowExecutor`; `ExecutorInRun` ties the last to the
   abstract executor inside `RunLifecycle`.
3. `Hub`.
4. `RunPage`, over `RunStatus` instead of the whole of `RunLifecycle`, and over
   what `Hub` guarantees of a message.
5. `Scheduler`, whose job is the starter of `RunLifecycle`.
6. Proofs, beside each of these: `RunLifecycleProofs`, `FlowGraphProofs`, `FlowPlanProofs`,
   `FlowExecutorProofs`, `SchedulerProofs`, and of the composed parts `PushProofs`,
   `WebAppProofs`, `BuilderProofs`.
7. `WsClient`, and `MCPush`, which puts it beside `Hub` and `RunPage`.
8. `FlowEditor`: the open flow against its requests.
9. `NodeCatalog`, then `Wizard`, `Inspector`, `FlowDefinition` and `Canvas` over it;
   `MCBuilder`.
10. `Session`, `Workspace`, `ListPages`; `MCWebApp` with `FlowEditor`.

Next:

11. `Access`: members, roles and the rows of a project, for the API's services.

## Modules and the code

An operator whose name begins with `Mut` is not part of a model: it is the
definition that follows it with a seeded bug. Running a configuration with the
seeded definition in place shows that a property notices; `PROJECT.json` pairs
them under `mutants`.

**`RunStatus`** is the row `runs` as its readers see it: `status`, the two time
stamps, and `disturbed`, which says that something interfered (an accepted cancel,
an unconfirmed start, an attempt the server gave up on).

**`RunLifecycle`** is the detailed model. Every SQL statement and every remote call
is a step.

| Variables | Code |
|---|---|
| `status`, `startedAt`, `finishedAt`, `step`, `flowExists` | rows of `runs`, `run_steps`, `flows` |
| `wf`, `cancelReq`, `awaits`, `act`, `attempt` | the Temporal server's record of `run-<id>`: which activity the workflow waits for and where its attempt is |
| `late` | status writes of attempts that were given up |
| `exec`, `planned`, `visited`, `cur` | `ExecuteNodeActivity`: the steps its definition asks for, and how far it is |
| `starter`, `canceller` | the handlers (or the cron job) and the statement they are at |
| `disturbed`, `dropped` | history: something interfered; the error of a write was ignored, or its writer died |

`CreateRun … StarterDies` are `RunHandler.create` and the scheduler's job,
`CancelRead … CancellerDies` `RunHandler.cancel`; `AttemptStarts … LateNever` the
server's retry policy (three attempts for status and load, one for the nodes, as in
`workflows.go`), `Advance` and `ObserveCancel` the workflow's tasks; `PlanSteps …
WorkerDies` the statements of `ExecuteNodeActivity`; `DeleteFlow` the cascade.
`Plans` are the sets of steps that a definition may ask for; `Manual` is the step of a
flow without nodes, which stands for no node, so that the last loop of the executor
passes over it (`NodeSteps`).
After the workflow's context is canceled every later activity on it resolves at once
with a `CanceledError`: the workflow's own write of `canceled` never runs, and only the
cancel handler's does. That is why `ObserveCancel` closes the workflow without a write.

**`FlowGraph`** has the notions planning and execution share: runnable nodes,
execution edges, roots, triggers, start nodes, the two orders. A node's kind is
reduced to what the executor tells apart. `Flows` is the family of flows of an instance,
`flow` the one that is executed.

**`FlowPlan`** is the planning loop (`indegree`, `queue`, `orderedIDs`).
**`FlowExecutor`** is the walk: `stack` holds the calls of `executeNode` that are in
their loop over edges, `doing` and `attempt` the node in `executeStep`, `outcome` what
became of each node. A node's work is one of: success, failure, its own timeout,
interruption. `rescued` (the node in whose routed failure the error trigger was
executed) and `tooLate` (nodes whose routed failure found it visited) are history.
**`ExecutorInRun`** maps it to `RunLifecycle`'s executor (`exec <- phase`,
`cur <- doing`, `visited <- visited ∪ skipped`, `Plans <-` what the flows plan, the
manual step among it) and states that every step is a step of
`RunLifecycle!ExecuteNode` or invisible.

**`Hub`** has one action per case of the `select` and per step of `HandleWS`,
`readPump` and `writePump`; `broadcast` and `send[c]` are the Go channels with their
capacities. A rendezvous on `register` or `unregister` is one step. `sent`, `out`,
`joined` and `got` are history.

**`RunPage`** composes the row (`RunStatus`), the listener, the notifications under
way, one socket and one query of react-query, on the detail page or the dashboard.
`missed` is history: a change of which no notification or fetch will tell.

**`Scheduler`** has the goroutine's place (`loop`), `desired` and `currentByFlow`
(`current`), the cron runner (`live`, `plan`, `due`) and one job per flow and tick.
Users' edits, lists and inserts that fail, late timers, stop, exit and restart are
actions. A job that leaves its row queued for good ends in one of three states
(`Leaks`): the insert was committed and an error returned (`unconfirmed`), the write of
*failed* was lost too (`unwritten`), the process exited in between (`abandoned`).

**`WsClient`** is the module `use-websocket.ts`: every socket it opened with its
`readyState`, `_socket`, `_isConnected`, and its timers, of which `handle` is the one
`_reconnectTimeout` names and `lost` counts those whose handle was overwritten.
Signing in and out changes the token and tells the socket nothing.

**`FlowEditor`** is the builder page from outside.

| Variables | Code |
|---|---|
| `rows` | the server's flows: a name, and the edits its content has |
| `cache`, `stale`, `gets` | react-query's `["flow", id]`: data, age, the request under way |
| `route`, `shown`, `busy` | the page, whether the canvas is mounted, `saving` and `running` of its hooks |
| `store`, `topbar` | `useBuilderStore` (flow, name, content, dirty, active run); `localName` and its debounced value |
| `saves`, `starts` | `PATCH` and run requests, which outlive the page |
| `outdated`, `raced`, `missed` | history: the view is of a row that the server has replaced; another exception of the properties happened; edits that a run was clicked over and does not have |

`useBuilderLoad` is an effect of the row that arrived, with the top bar's effects that
follow it before the next event: that is where the old name is written over the loaded
one.

**`NodeCatalog`** is data and the rules over it: apps and their actions with required
fields, the agent's tools, model providers, every node type's fields and `validate`,
and the four other places that judge a node (`validateSchema`,
`validateCredentialRequirement`, `isAppActionConfigured`, `validateTool`). A field
holds "text" or "blank".

**`Wizard`** has the store's mode, step, draft and test; one action per control of
each step. `tests` are the requests under way, `added` what was confirmed. The Model
step's effect, which fills in a model, is part of showing it (`Shown`).

**`Inspector`** is the panel of one node of each type. Cron expressions are sequences
of fields, each a star, a step, a list or something else, so that parsing and writing
are modelled by what they do with those. The app panel's effects, which replace an
action that its app does not have, are part of the edit they follow.

**`FlowDefinition`** is `normalizeNode` and `migrateAgentSubnodes`; **`Canvas`** the
builder's store. `flagged` is React Flow's own idea of what is selected: every change
of nodes or edges reports it through `onSelectionChange`, in the same step (`Changed`).

**`Session`** is a tab's session against its requests. A token is a number, `valid`
those the server accepts; a request remembers the token it was sent with and whether
the component that awaits it is still there. Effects, their clean-up and the gate's
question `me` follow a change of page or session in the same commit (`useAuthGate`).

**`Workspace`** has the server's flows and the user's roles, scope and project, the
cached list of flows of each workspace with its fetch, and the requests under way.
Hooks and components keep their names. A flow has a name, which a save in the builder
changes (`useBuilderSave`); that save and the deletion of a project are the user's
changes no list is told of (`Silent`). Everything the server does is external to it: it
serves a request, or fails, and others change projects and flows.

**`ListPages`** has tables with a filter, a text, a page and a page size (`Commit` is
a render with its effects), and the dialogs of the variables' and credentials' pages,
which may be closed while they wait.

`MCPush`, `MCBuilder`, `MCWebApp` and `MCFlowExecutor` (planning and walk) put parts
beside each other that share no state the modules look at: a behaviour is of one part
(`focus`), the others stay in one initial state, so that the parts do not multiply; in
that state no fair action is enabled, which would leave the other parts without a fair
behaviour. `MCRunLifecycle`, `MCWebApp` and `MCFlowExecutor` also define the symmetry
sets, plans and families of flows that the configurations use. Symmetry is used where no
liveness property is checked.

## Runs and bounds

| Run | Instance | What it shows |
|---|---|---|
| `lifecycle_safety` | 1 run of 2 nodes, of none, or with nothing planned; 2 attempts, symmetric nodes | `SuccessWasExecuted`, `StepsFollowTheirRun` (a success leaves no node's step open, no step outlives its run; the manual step of a flow without nodes is excepted), `VerdictStands`, `ClosedStepsStayClosed`, `NeverReexecuted`; the row implements `RunStatus` |
| `lifecycle_live` | 1 run of 1 node or none, 2 attempts | workflows return and executions end (`EverythingEnds`), runs settle unless they were disturbed or an update was dropped (`RunsSettle`) |
| `executor` | planning: every graph of three nodes over places, with parallel and reference edges; walk: cyclic flows of three nodes, diamonds of four, three nodes with a self loop, a loop of two and two attempts, the empty flow; each failure setting | `PlanIsSound`: the plan has every node once and is topological off cycles; what is reached is executed and nothing else (`ReachedIsExecuted`, excepting an error trigger that is a start node), merges come after their inputs, each failure was tolerated or handled by the error trigger's execution for this very node (`SuccessMeansHandled`, excepting a failure that found it executed before), steps close once; refinement of the run's abstract executor; the activity ends |
| `push` | 2 connections, channels of capacity 1, 2 messages; 3 sockets, 2 timers; 1 page, 2 notifications | no panic, no gap, delivery, no leak; the client never gives up; the verdict reaches each page, no flicker |
| `scheduler` | 2 flows, a schedule that parses and one that does not, 2 ticks, 2 edits | installed = remembered, one run per activation; schedules are followed, and a row known to be queued is handed over or tried to be marked failed (`SchedulesRun`; the three leaks are ends of it) |
| `web_app` | 2 flows (symmetric), 2 visits, 1 edit, 2 saves; 3 tokens, 2 requests; 1 project, 2 flows, 2 pages; 3 rows | `SavedIsOwn`; `CleanIsSaved`, `RunStartsSaved` (excepting `raced` and `outdated`); `EndedStaysEnded`; `LandsWhereAsked`; `ListIsCurrent` (excepting `Silent`); `PageHasRows`, `DialogsAct` |
| `builder` | 3 apps, 2 openings of the wizard of 4 edits each; 3 edits of a node, 8 expressions; 4 stored flows, elements up to the seventh | `AddedIsConfigured` (excepting bare tools), `TestEnds`; `ScheduleIsKept`, `PanelShowsNode` (excepting `HidesChange`); `GraphIsWhole`, `OpenedIsMigrated` |
| `lifecycle_final`, `executor_timeout`, `executor_start`, `executor_routed`, `flow_name` | as small as shows it | the five divergences under [Findings](#findings) |

Why these bounds are enough to be interesting:

- Runs share nothing but the flow, whose deletion affects each of them alone, so one
  run shows every interleaving around a run. Two steps give one that is being
  executed while another waits, is closed or is skipped; the manual step stands for the
  flow without nodes. Two attempts give a late
  write of the first under the second; a third attempt adds no new kind of step
  (`lifecycle_final` has three, as the code does).
- Three nodes have every cycle shape that matters to the planner (self loop, pair,
  triangle, a node behind a cycle); four are the least in which two branches of
  different length meet in a merge. The walk looks at the settings of one node at a
  time, and each family gives all its nodes the same one; triggers and merges, which
  cannot fail, ignore it.
- Channels of capacity 1 are full after one message: the second finds the slow
  client, and `broadcast` blocks the listener. Two clients have one drop out while the
  other is served.
- Two notifications suffice for one that is late or lost and one that is in time;
  each refetch forgets what came before it.
- Three sockets are one that closes, one that replaces it and one that either's
  `onclose` makes; two timers are the named one and one whose handle was overwritten.
- Two ticks have an activation before and after a runner is replaced; two edits
  change a schedule and change it back.

- Two visits of the builder leave requests of a flow behind while the other, or the
  same one again, is open; the second save or run is the one that overtakes.
- Three tokens are the one from before, one that replaces it and one that a
  third-party login brings meanwhile; with two requests each races one other.
- Two pages change the workspace once and come back; one project and the personal
  workspace are two scopes, in each of which a flow may be wrong.
- Three rows on pages of one or two rows have a first, a middle and a last page.
- Four edits fill what the longest way through the wizard asks for one step's fields
  and change an earlier choice; two openings leave a test behind.
- Three edits of a node change what another panel edit depends on and change it back.
  Expressions are those of each mode, with seconds, out of range and unparsable.

All deadlocks that the configurations tolerate are ends: a run is over, the activity
returned, planning ended, the browsers have gone, the process stopped.

## Fairness

- `RunLifecycle`: a handler that runs finishes or its process dies; the server
  delivers tasks and results and enforces the start-to-close timeout of a dead
  worker's attempt (Temporal's contract, with the timeouts `workflows.go` sets); a
  worker takes scheduled attempts and goes on with what it took. No user has to act
  and no fault has to happen.
- `FlowExecutor`: the worker goes on, and every node ends, at the latest when the
  activity's start-to-close timeout ends its context.
- `Hub`: the goroutines are scheduled; reads and writes have deadlines
  (`hub.go`: `pongWait`, `writeWait`) and the ping ticker fires. Browsers may stay
  away.
- `RunPage`: the tab is visible, the API answers, the reconnect timer fires; strong
  fairness on the arrival of an answer and of a message says that not every one is
  overtaken or lost for ever. No particular notification has to arrive.
- `Wizard`: a request is answered, fails or times out (`fetcher.ts` sets a timeout).
  Users need not do anything. The other parts of the web application have no
  liveness property and no fairness.
- `Scheduler`: the goroutines go on while the process lives; strong fairness on
  `List` says that the database does not fail every time.

## Proofs

For every value of the constants under the named assumptions, by TLAPS:

| Theorem | States |
|---|---|
| `RunLifecycleProofs!TypeCorrect` | the types of the rows, the server's record and the processes |
| `ExecutionInvariant`, `SuccessWasExecutedAlways` | *success* only with `exec = "ok"` and a start time |
| `NeverReexecutedAlways` | no run begins its nodes twice |
| `RowInvariant`, `VerdictStandsAlways` | a run that nothing interfered with keeps the verdict of its workflow |
| `StepInvariant`, `StepsFollowTheirRunAlways` | a success leaves no node's step open, no step outlives its run |
| `ClosedStepsStayClosedAlways` | a closed step is opened again only by the executor of a canceled run |
| `RunStatusImplemented` | the lifecycle implements the abstract row `RunStatus` |
| `FlowPlanProofs!PlanInvariant`, `PlanIsSoundAlways` | the plan has every node once and is topological off the cycles |
| `FlowExecutorProofs!WalkInvariant`, `HandlerInvariant`, `ReachedIsExecutedAlways` | an activity executes only what the outcomes lead to, or an error trigger at the start, and skips nothing of it when it ends well |
| `MergeAfterInputsAlways` | merges after all their inputs |
| `SuccessMeansHandledAlways` | behind a success each failure was tolerated, handled by the error trigger, or routed too late |
| `StepsCloseOnceAlways` | a closed step is not written again |
| `ExecutorImplemented` | the walk implements the executor inside `RunLifecycle` |
| `SchedulerProofs!SchedulerInvariant`, `PlanIsInstalledAlways`, `StopIsFinalAlways`, `OncePerTickAlways` | the safety properties of the scheduler |
| `PushProofs!ChannelsInvariant`, `NeverPanicsAlways` | the hub touches no closed channel |
| `StreamInvariant`, `NoGapAlways` | a connected browser gets every message, in order, until it is dropped |
| `ClientRetriesAlways` | the socket client never gives up |
| `NoFlickerAlways` | a page does not go back from the verdict of an undisturbed run |
| `WebAppProofs!EditorTypeCorrect`, `EditsInvariant`, `SavedIsOwnAlways` | no request writes one flow into another |
| `EditorInvariant`, `CleanIsSavedAlways` | what is not marked as changed is the server's row, unless raced or outdated |
| `RunStartsSavedAlways` | a run executes the edits on the screen at the click, with the same exceptions |
| `SessionInvariant`, `EndedStaysEndedAlways` | no late answer brings an ended session back |
| `ListInvariant`, `PageHasRowsAlways`, `DialogsActAlways` | no empty page while there are rows; dialogs act on the item of their click |
| `WorkspaceInvariant`, `LandsWhereAskedAlways`, `ListIsCurrentAlways` | flows land in the workspace of the click; fresh lists are the server's, but for the changes in `Silent` |
| `BuilderProofs!ScheduleIsKeptAlways` | a schedule made with the simple forms reads back as it was made |
| `PanelShowsNodeAlways` | what each panel shows is what its node holds, but for `HidesChange` |
| `AddedIsConfiguredAlways` | the wizard adds nothing that is shown as unfinished, but bare tools |
| `GraphIsWholeAlways` | edges join nodes that exist, the inspector shows elements that exist |
| `OpenedIsMigratedAlways` | opening a flow migrates it once and for all; no agent loses a valid model |

An invariant that a run checks is seldom inductive. What each is strengthened by is
defined in its component's module, or in the proof module when only the proof speaks of
it:

**Run lifecycle.** `SuccessWasExecuted`: the state from which
`success` is written does not say that the nodes were executed. `ExecutionInv` adds
where the evidence is. *Evidence* (`exec = "ok"` and a start time) never goes away,
because an execution that ended is never begun again; that needs
`ExecutionIsFresh` (it has not begun before the activity's only attempt is taken,
from which the policy of one attempt follows). Whoever may write `success` has
evidence: the workflow once it awaits `markSuccess` (`AwaitsAreEvident` follows the
answer of each activity), and every late attempt of that write
(`SuccessIsEvident`).
`VerdictStands` needs `RowInv`: as long as nothing disturbed the run, the row is at most
one write behind the workflow, and no handler is at a statement that disagrees with it.
`StepsFollowTheirRun` needs `StepInv`: what the executor has passed is closed, what it has
not reached waits, and only the cancel handler writes behind its back. The proofs are
local: every action is about one run (`Acts`), and leaves all variables of every other
run as they were (`Stays`), so each conjunct is shown for one run and one group of
actions. From `RowInv` and the types follows, action by action, that each step is one of
`RunStatus` or leaves the row alone.

**Plan.** `PlanInv` is the accounting of the loop: the remaining indegree of a node
counts its edges from nodes that are not planned, and is 0 exactly for what is queued or
planned. When the queue is empty, each node that is left has a predecessor that is left, so
the rest is on or behind cycles: `Looped` is the largest such set of nodes.

**Walk.** `WalkInv` ties the call stack to what was visited (`NothingIsForgotten`: a
followed edge leads to a node that was visited or is still pending), keeps
outcomes final, and ties step rows to `visited` and `skipped` unless a write was dropped.
`HandlerInv` follows the routed failures: between the outcome and the call of the error
trigger nothing else is on top of the stack, so that the trigger is executed for this
node or was executed before.
`ExecutorImplemented` needs both: `RunLifecycle` skips only what was not visited. Its
theorem assumes `SizeFits`, which `MCFlowExecutor` states as an assumption and TLC
evaluates: no flow of the family has more nodes than the run has steps for.

**Composition.** `ExecutorImplemented` maps the walk to the executor of `RunLifecycle`,
about which the lifecycle's theorems are proved; `RunStatusImplemented` lets `RunPage`
use the abstract row in place of the lifecycle, so `NoFlicker` is about the rows the
lifecycle really writes.

**Hub.** `NeverPanics` says that no member of the map has a closed channel. It needs
that a client that was dropped does not come back: `ChannelInv` ties the map and the
closed channels to the progress of the handler, which registers once. `StreamInv` says
that what a client got, its pump writes and its channel holds are consecutive messages
up to the last one the hub took, and that the broadcast channel goes on from there.
**Client.** `ClientRetries` is inductive by itself. **Page.** `PageInv`: as long as
nothing disturbed the run, a verdict that is cached or on its way is the row's, unless
the row is deleted.

**Scheduler.** `SchedulerInv` is the type invariant with `RunnerInv` (at each place of
the loop: a runner with exactly the parsed entries of `currentByFlow`, or none) and
`DueInv` (an entry is due later than it was fired). `OncePerTick` follows: a new
runner's entries are due after now, and a flow was fired at most now.

**Builder page.** `EditsStay`: wherever content is, in the cache, an answer, the store or
a save, it carries edits of its own flow only. `EditorInv` joins `CleanIsSaved` with
`RunInv`, while nothing raced: one save of a flow is under way, no start relies on
another, once it is served the row is what it sent, and until it is answered the page
that sent it shows changes (`Unanswered`); `VisitsInv` says that this page has not been
replaced.

**Session.** `SessionInv`: tokens are issued once, and an answer that may still sign
somebody in is about the session that is open or one that has not been open yet.

**Lists.** `FilterHasRows` (a flows' filter is of an owner with a row) and `DialogsFollow`
(an open dialog and every call hold the item of the click) make `PageHasRows` and
`DialogsAct` arithmetic about the last page. **Workspace.** `ToldInv`: lists and requests
name a flow with its own workspace. `QueryInv`: a fresh list, and an answer to come, is
the server's unless it was marked or a served change will mark it. The second is proved
by saying of each action how a query *fades* (`Fades`) and which requests it keeps.

**Panels.** `ScheduleIsKept` needs `FormFits`, the ranges of the form's numbers, because
parsing clamps and writing does not; the expression that was written is then compared
field by field with how it is read. `PanelShowsNode` needs `PanelInv`, what a node may
hold after any edits of what older versions stored (`ConfigFits`: the configuration of a
tool-wizard tool has the credential the wizard stored); each panel has its lemma, which
ends with the node that the effects of the panel leave. **Wizard.** `WizardInv` adds to
`AddedIsConfigured` what the draft of each mode has (`DraftFits`: an agent's tools are
bare, as the Tools step adds them) and that the step that is shown exists. A step
validates what is left: the proof shows for each edit that the steps before it do not
look at what it changes (`StepLooksAt`, `PassedAgain`); what is confirmed then satisfies
four rules from two steps' validations.

**Canvas.** `CanvasInv`: edges join nodes (`Whole`) and the selection names elements
(`SelectionFits`). Deleting by key leaves a selection that fits nothing; `ChangedKeeps`
is the reason that it does not stay: React Flow then reports in the same step, because
the flagged elements are others. `OpenedIsMigrated` is inductive: a change sets
`touched`, the rest leaves nodes and edges. What is left is about the migration
(`MigrationOf`): a node is what its own part made of it, or has another model, a real one
that was taken over while its own was not valid (`Attached`); so nothing is left in the
configuration that a second opening would take (`NodeIsFinal`), and a list of tools that
was normalized is its own normal form (`ToolsAreFinal`).

The migration and every deletion work along a list (`Kept`, `attachedAll`). These are
recursive functions, and the library's induction takes an operator; the proofs use
induction over a set instead (`ClosedIsAll`: a set of naturals that has 0 and successors
has all, by the least number it lacks). `Followed` shows that the recursive function
exists, `KeptAlong` and `AttachedAlong` unfold it.

Assumptions, each named in the module that declares the constant and evaluated by TLC:
`NoStep` and `NoNode` are no step or node; flows are finite graphs over their nodes
(`FlowsAssumption`); bounds are naturals, capacities and attempts positive; schedules that
parse, that do not, "none" and "gone" are distinct; "Untitled", "no flow", the personal
scope, "all", "absent" and `NoApp` are not names of the things they stand beside; stored
cron expressions are sequences of fields; stored flows are ones the builder saved
(`IsStored`: nodes with the fields of a node and numbers of their own, tools with the fields of a
tool, edges between nodes; a flow whose edges lead nowhere would be opened as it is), and
new elements get numbers above theirs (`FirstId`). The bounds of the models are constants
too: no theorem depends on their size.

The inductive invariants are not configured in a run once they are proved; each was
checked by TLC first. Every invariant and every safety action property that a passing
run checks is stated by a theorem. What stays with TLC:

- liveness under fairness, and `ENABLED`, which the provers do not handle;
- the five divergences below, which are counterexamples.

## Findings

1. **A terminal status is not final** (`lifecycle_final`, `TerminalIsFinal`).
   `UpdateStatus` has no condition. A `markRunning` on its way when the run is canceled
   turns *canceled* back into *running*, where it stays; a start that was reported as
   failed and accepted all the same turns *failed* into *running* and *success*.
   The run page stops polling at the first terminal status.
2. **A slow request ends the run** (`executor_timeout`, `ErrorsContinue`): the HTTP
   client's own timeout is a `DeadlineExceeded`, so it is taken for the end of the
   activity: no retry, no error branch, no continue on fail, and the step says
   "canceled by user".
3. **An error trigger runs at the start** (`executor_start`, `ErrorTriggerNotAtStart`).
   Without incoming edges it is a root; when the flow has no other trigger the roots
   are the start nodes (`activities.go:425`), and it is executed although nothing failed.
   `docs/node-connectors.md:71`: "The Error Trigger does not run at the start of a
   workflow."
4. **A second routed failure is dropped** (`executor_routed`, `RoutedFailuresJump`).
   The call of the error trigger returns at once when it was visited
   (`activities.go:583`); nobody handles the failure and the run says success.
   `docs/node-connectors.md:72`: "When a node has **Route to error trigger** enabled and
   it fails, the workflow jumps to the Error Trigger branch."
5. **A flow opens under another name** (`flow_name`, `OpenedIsTheFlow`). When the loaded
   name reaches the store, the top bar's effect still has the debounced name from
   before and writes it over the loaded one: "Untitled Flow", or the name of the flow
   that was open before. The flow is marked as changed, so the autosave stores it.

### Known divergences

Met while modelling, faithful in the models, without a run of their own; a property they
would violate excepts them by name:

- A run stays queued for good when the API dies between the insert and the start or its
  write of *failed* is lost (`run_handler.go:281`; `dropped`), and when the scheduler's
  insert is committed but returns an error, its write of *failed* fails (the error is
  ignored, `scheduler.go:178`) or its process exits in between (`Leaks`).
- A save leaves the query cache as it is (`use-builder-save.ts:22`). A flow that is opened
  again within 60 s of its load shows the row from before the save, as saved; a run
  without an edit then executes the server's row, which is not what is shown, and an
  edit and a save write the old content over the new one (`outdated`).
- A save that renames a flow and the deletion of a project invalidate no list of flows
  (`use-builder-save.ts:22`, `use-project-settings.ts:141`; `Silent`).
- Tools added on the Tools step of the agent's wizard have neither credential nor
  configuration (`use-agent-tools-step.ts:30`); no step asks for them, and the inspector
  shows those with required fields as "Needs config" (`Bare`).
- The credential of a tool that the tool wizard added is in its configuration too
  (`toolSlice.ts:46`). A change in the inspector writes the tool's only, and the panel
  goes on showing the configuration's (`AgentToolItem.tsx:36`; `HidesChange`).
- Two sockets may be open at once: the `onclose` of an old one clears `_socket` while a
  newer one is open (`use-websocket.ts:62`), in spite of the comment above it.
  Messages then arrive twice, which the pages survive.
- `markSaved` after the await clears the changed flag of edits made while a save was
  under way, and of another flow opened meanwhile (`use-builder-save.ts`); a refetch
  hydrates the store over unsaved edits of the same flow (`use-builder-load.ts:45`). The
  flag `raced` of `FlowEditor` is set by exactly these, and `CleanIsSaved` and
  `RunStartsSaved` except them.
- `BuilderPage` does not look at the error of a load: it shows the store's last flow
  under another address. A save goes to the store's flow (`SavedIsOwn`).
- A run that was started in a flow that was left shows its steps in the one that is open
  (`use-builder-topbar.ts:121`).
- A fresh list of flows may lack a change when it was read before and arrives after the
  change; lists survive a sign-out in the cache.
- The answer of a save or deletion closes whatever dialog is open by then
  (`use-variables-page.ts:99`); the item that is written is the right one all the same.
- A new flow's form that is loaded again drops its project until the projects are there.
- The Cancel button of the wizard waits for a test, its cross does not.
- Tools that an older flow kept in an agent's configuration are not migrated: an agent
  without a list of tools is given an empty one first (`store/utils.ts:33`,
  `node-catalog-utils.ts:34`), so that `migrate-agent-subnodes.ts:137` never applies. A
  valid model in the configuration of an agent that has an incomplete one of its own
  stays there unused (`migrate-agent-subnodes.ts:123`).
- Cancellation does not stop the executor: nodes begin, and their steps are written
  running, after the run says *canceled* (`ClosedStepsStayClosed` has the exception).
- A merge one of whose branches was not taken is skipped, and what follows it too. A
  flow that is one cycle and whose first planned node is a merge executes nothing and
  succeeds.
- A flow without nodes leaves its manual step queued although the run succeeds: the last
  loop passes over a step without a node (`activities.go:661`). `StepsFollowTheirRun`
  speaks of the steps of nodes.
- An `if` node that fails with an error branch follows its "false" edges. An edge on
  the port "error" is followed after a success too when the error branch is switched
  off again.
- The dashboard is stale after a lost notification, or one that overtakes the first
  fetch. The comment "Initial fetch only, no polling" on the run detail page
  (`use-run-detail-page.ts:60`) is not what `useRunDetailQuery` does.
- Several workers start a scheduled run each. Every change of any flow restarts the
  interval of every `@every` schedule. `Stop` waits for the loop, not for jobs.

## What is not modelled

- The API's services, apart from what the web application sees of them: members and
  roles, ownership, encryption of credentials, sessions, password resets, users. Each
  request reads and writes a row; membership changes check the caller's role first and
  act later (`project_service.go:139`), a project's deletion is two statements (`:106`).
  `Access` is planned for them.
- The inspector's views of a run's inputs and outputs; the in-app documentation; layout,
  menus, toasts, hot keys, themes, positions and sizes on the canvas, undo (which no
  component uses).
- OAuth connections of credentials, mail and the files of an import: their outcome is a
  choice.
- If conditions and templates: pure functions over JSON, whose result is a choice
  in the executor.
- Connectors: each call is an outcome of its node.
- Node tests, system, health, mailer, configuration, migrations: no state of their own
  or pure I/O. Keys and cascades of the schema appear in `RunLifecycle`.
- Outputs, logs and time stamps beyond "set or not"; the calendar of cron (a tick is an
  activation); the backoff of the listener; payloads that do not parse; the query for
  steps, which polls for ever; flows with duplicate node ids, which
  the builder does not make.
- Database isolation: each statement is atomic, and no code relies on more.
- Step keys are `STEP_%02d` and compared as text, so that more than 99 sort wrongly on
  display; steps are numbers here.
