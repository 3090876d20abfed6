----------------------------- MODULE FlowEditor -----------------------------
(***************************************************************************)
(* A browser tab that opens flows in the builder, edits, saves and runs    *)
(* them, and the flows on the server.  The builder's store outlives its    *)
(* page: the page of a flow loads the flow through the query cache and     *)
(* puts what it gets into the store; saving sends what the store holds     *)
(* when Save is clicked and marks the store saved when the answer comes,   *)
(* whatever is in the store by then.  Nothing is done to the cache then.   *)
(*                                                                         *)
(* The content of a flow is the set of edits made to it, each with the     *)
(* flow that was in the store when it was made.  Only this tab writes.     *)
(***************************************************************************)
EXTENDS Naturals, FiniteSets

CONSTANTS
  Flows,      \* the flows on the server, named as they are
  Untitled,   \* the name in the store before a flow is opened
  NoFlow,
  MaxEdits,   \* bound: edits made
  MaxVisits,  \* bound: openings of the builder
  MaxSaves    \* bound: saves sent

ASSUME FlowEditorAssumption ==
  /\ Untitled \notin Flows /\ NoFlow \notin Flows \cup {Untitled}
  /\ MaxEdits \in Nat /\ MaxVisits \in Nat /\ MaxSaves \in Nat

VARIABLES
  rows,      \* the server's flows
  cache,     \* the query cache: its row of each flow, or none
  stale,     \* the flows whose cached row is older than a minute
  gets,      \* loads under way, with the row once the server has read it
  route,     \* the flow whose page is open
  shown,     \* whether the canvas is mounted on it
  store,     \* the builder's store
  topbar,    \* the top bar: the name typed, and its debounced value
  busy,      \* whether the mounted top bar is saving, or starting a run
  saves,     \* saves under way
  starts,    \* requests to start a run under way
  missed,    \* ghost: edits saved for a run that what it executes does not have
  outdated,  \* ghost: the store was loaded with a row the server had replaced, or
             \* a save of an earlier page replaced it since
  raced,     \* ghost: a save was answered, or a load shown, over other edits,
             \* or a save or a start was sent during another of the flow
  counts     \* bounds: edits, visits, saves so far

editorVars == <<rows, cache, stale, gets, route, shown, store, topbar, busy, saves, starts,
                missed, outdated, raced, counts>>

RowOf(name, content) == [name |-> name, content |-> content]
NoRow == RowOf(NoFlow, {})
serializeDefinition == RowOf(store.name, store.content)

FlowEditorInit ==
  /\ rows = [f \in Flows |-> RowOf(f, {})]
  /\ cache = [f \in Flows |-> NoRow] /\ stale = {} /\ gets = {}
  /\ route = NoFlow /\ shown = FALSE
  /\ store = [flow |-> NoFlow, name |-> Untitled, content |-> {}, dirty |-> FALSE, run |-> NoFlow]
  /\ topbar = [typed |-> Untitled, debounced |-> Untitled]
  /\ busy = [saving |-> FALSE, running |-> FALSE] /\ saves = {} /\ starts = {} /\ missed = {}
  /\ outdated = FALSE /\ raced = FALSE /\ counts = [edits |-> 0, visits |-> 0, saves |-> 0]

(***************************************************************************)
(* Loading.  The row goes into the store under its flow, in one effect.    *)
(* The top bar then follows the new name, but its debounced value is still *)
(* the name before, which it puts back into the store as an edit.          *)
(***************************************************************************)
useBuilderLoad(f, row, debounced) ==
  /\ store' = [flow |-> f, content |-> row.content, run |-> NoFlow,
               name |-> debounced, dirty |-> debounced # row.name]
  /\ topbar' = [typed |-> debounced, debounced |-> debounced]
  /\ outdated' = (row # rows[f])
  /\ raced' = (raced \/ (shown /\ store.flow = f /\ store.dirty))
\* A canvas that is mounted takes the name the store has for the top bar.
mounted == /\ topbar' = [typed |-> store.name, debounced |-> store.name]
           /\ UNCHANGED <<store, outdated, raced>>
waiting(f) == \E g \in gets : g.flow = f
getFlow(f) == IF waiting(f) THEN gets ELSE gets \cup {[flow |-> f, row |-> NoRow]}

\* A cached row is shown at once, and loaded again when it is old.
open(f) ==
  /\ route = NoFlow /\ counts.visits < MaxVisits
  /\ route' = f /\ counts' = [counts EXCEPT !.visits = @ + 1]
  /\ busy' = [saving |-> FALSE, running |-> FALSE]
  /\ IF cache[f] # NoRow
     THEN /\ shown' = TRUE /\ useBuilderLoad(f, cache[f], store.name)
          /\ gets' = IF f \in stale THEN getFlow(f) ELSE gets
     ELSE /\ shown' = FALSE /\ gets' = getFlow(f)
          /\ UNCHANGED <<store, topbar, outdated, raced>>
  /\ UNCHANGED <<rows, cache, stale, saves, starts, missed>>
leave ==
  /\ route # NoFlow
  /\ route' = NoFlow /\ shown' = FALSE
  /\ UNCHANGED <<rows, cache, stale, gets, store, topbar, busy, saves, starts, missed,
                 outdated, raced, counts>>
cacheAges(f) ==
  /\ cache[f] # NoRow /\ f \notin stale
  /\ stale' = stale \cup {f}
  /\ UNCHANGED <<rows, cache, gets, route, shown, store, topbar, busy, saves, starts,
                 missed, outdated, raced, counts>>
\* The network comes back: what is shown and old is loaded again.
refetchOnReconnect ==
  /\ route \in stale /\ ~waiting(route)
  /\ gets' = getFlow(route)
  /\ UNCHANGED <<rows, cache, stale, route, shown, store, topbar, busy, saves, starts,
                 missed, outdated, raced, counts>>
getServed(g) ==
  /\ g \in gets /\ g.row = NoRow
  /\ gets' = (gets \ {g}) \cup {[g EXCEPT !.row = rows[g.flow]]}
  /\ UNCHANGED <<rows, cache, stale, route, shown, store, topbar, busy, saves, starts,
                 missed, outdated, raced, counts>>
\* The same row again changes nothing; another one is put into the store,
\* over what is there.
getAnswered(g) ==
  /\ g \in gets /\ g.row # NoRow
  /\ gets' = gets \ {g} /\ stale' = stale \ {g.flow}
  /\ cache' = [cache EXCEPT ![g.flow] = g.row]
  /\ IF route = g.flow /\ (~shown \/ cache[route] # g.row)
     THEN /\ shown' = TRUE
          /\ useBuilderLoad(route, g.row, IF shown THEN topbar.debounced ELSE store.name)
     ELSE UNCHANGED <<shown, store, topbar, outdated, raced>>
  /\ UNCHANGED <<rows, route, busy, saves, starts, missed, counts>>
\* The page does not look at the error: it shows what the store holds.
BuilderPage(g) ==
  /\ g \in gets
  /\ gets' = gets \ {g}
  /\ IF route = g.flow /\ ~shown THEN shown' = TRUE /\ mounted
     ELSE UNCHANGED <<shown, store, topbar, outdated, raced>>
  /\ UNCHANGED <<rows, cache, stale, route, busy, saves, starts, missed, counts>>

(***************************************************************************)
(* Editing the elements, and the name in the top bar.                      *)
(***************************************************************************)
edit ==
  /\ shown /\ counts.edits < MaxEdits
  /\ store' = [store EXCEPT !.content = @ \cup {<<store.flow, counts.edits + 1>>}, !.dirty = TRUE]
  /\ counts' = [counts EXCEPT !.edits = @ + 1]
  /\ UNCHANGED <<rows, cache, stale, gets, route, shown, topbar, busy, saves, starts,
                 missed, outdated, raced>>
setFlowName(name) ==
  /\ shown /\ counts.edits < MaxEdits /\ name # topbar.typed
  /\ topbar' = [topbar EXCEPT !.typed = name]
  /\ counts' = [counts EXCEPT !.edits = @ + 1]
  /\ UNCHANGED <<rows, cache, stale, gets, route, shown, store, busy, saves, starts,
                 missed, outdated, raced>>
useDebounce ==
  /\ shown /\ topbar.typed # topbar.debounced
  /\ topbar' = [topbar EXCEPT !.debounced = topbar.typed]
  /\ store' = [store EXCEPT !.name = topbar.typed, !.dirty = @ \/ topbar.typed # store.name]
  /\ UNCHANGED <<rows, cache, stale, gets, route, shown, busy, saves, starts, missed,
                 outdated, raced, counts>>

(***************************************************************************)
(* Saving, by the button, every minute, or before a run.                   *)
(***************************************************************************)
MutSave(run) ==
  /\ shown /\ store.flow # NoFlow /\ store.dirty /\ ~busy.saving /\ counts.saves < MaxSaves
  /\ saves' = saves \cup {[id |-> counts.saves, flow |-> route, row |-> serializeDefinition,
                           visit |-> counts.visits, run |-> run, served |-> FALSE]}
  /\ raced' = (raced \/ \E s \in saves \cup starts : s.flow = store.flow)
  /\ busy' = [busy EXCEPT !.saving = TRUE]
  /\ counts' = [counts EXCEPT !.saves = @ + 1]
  /\ UNCHANGED <<rows, cache, stale, gets, route, shown, store, topbar, starts, missed,
                 outdated>>
save(run) ==
  /\ shown /\ store.flow # NoFlow /\ store.dirty /\ ~busy.saving /\ counts.saves < MaxSaves
  /\ saves' = saves \cup {[id |-> counts.saves, flow |-> store.flow, row |-> serializeDefinition,
                           visit |-> counts.visits, run |-> run, served |-> FALSE]}
  /\ raced' = (raced \/ \E s \in saves \cup starts : s.flow = store.flow)
  /\ busy' = [busy EXCEPT !.saving = TRUE]
  /\ counts' = [counts EXCEPT !.saves = @ + 1]
  /\ UNCHANGED <<rows, cache, stale, gets, route, shown, store, topbar, starts, missed,
                 outdated>>
updateFlow(s) ==
  /\ s \in saves /\ ~s.served
  /\ saves' = (saves \ {s}) \cup {[s EXCEPT !.served = TRUE]}
  /\ rows' = [rows EXCEPT ![s.flow] = s.row]
  /\ outdated' = (outdated \/ (store.flow = s.flow /\ s.visit # counts.visits))
  /\ UNCHANGED <<cache, stale, gets, route, shown, store, topbar, busy, starts, missed,
                 raced, counts>>
\* The state of a top bar that is gone takes no more changes.
Settled(s, b) == IF route # NoFlow /\ s.visit = counts.visits THEN b ELSE busy
\* What was on the screen goes with it, for the ghost only: what was saved for the
\* run, or what the server is said to have.
startRun(f, content, visit) ==
  starts \cup {[flow |-> f, content |-> content, visit |-> visit, served |-> FALSE]}
markSaved(s) ==
  /\ s \in saves /\ s.served
  /\ saves' = saves \ {s}
  /\ store' = [store EXCEPT !.dirty = FALSE]
  /\ outdated' = (outdated /\ store.flow # s.flow)
  /\ raced' = (raced \/ store.flow # s.flow \/ serializeDefinition # s.row)
  /\ starts' = IF s.run THEN startRun(s.flow, s.row.content, s.visit) ELSE starts
  /\ busy' = Settled(s, [saving |-> FALSE, running |-> s.run])
  /\ UNCHANGED <<rows, cache, stale, gets, route, shown, topbar, missed, counts>>
MutSaveFailed(s) ==
  /\ s \in saves
  /\ saves' = saves \ {s}
  /\ store' = [store EXCEPT !.dirty = FALSE]
  /\ starts' = IF s.run THEN startRun(s.flow, s.row.content, s.visit) ELSE starts
  /\ busy' = Settled(s, [saving |-> FALSE, running |-> s.run])
  /\ UNCHANGED <<rows, cache, stale, gets, route, shown, topbar, missed, outdated,
                 raced, counts>>
\* An error, maybe after the server has written.  There is no run then.
saveFailed(s) ==
  /\ s \in saves
  /\ saves' = saves \ {s} /\ busy' = Settled(s, [busy EXCEPT !.saving = FALSE])
  /\ UNCHANGED <<rows, cache, stale, gets, route, shown, store, topbar, starts, missed,
                 outdated, raced, counts>>

(***************************************************************************)
(* Running: what the server has of the flow when the request gets there.   *)
(***************************************************************************)
onRun ==
  /\ shown /\ store.flow # NoFlow /\ ~busy.saving /\ ~busy.running
  /\ \/ save(TRUE)
     \/ /\ ~store.dirty /\ starts = {}
        /\ starts' = startRun(store.flow, IF outdated THEN {} ELSE store.content, counts.visits)
        /\ raced' = (raced \/ \E s \in saves : s.flow = store.flow)
        /\ busy' = [busy EXCEPT !.running = TRUE]
        /\ UNCHANGED <<rows, cache, stale, gets, route, shown, store, topbar, saves,
                       missed, outdated, counts>>
runServed(s) ==
  /\ s \in starts /\ ~s.served
  /\ starts' = (starts \ {s}) \cup {[s EXCEPT !.served = TRUE]}
  /\ missed' = missed \cup (s.content \ rows[s.flow].content)
  /\ UNCHANGED <<rows, cache, stale, gets, route, shown, store, topbar, busy, saves,
                 outdated, raced, counts>>
\* The run becomes the one that is shown, whatever flow is open by now.
setActiveRunId(s) ==
  /\ s \in starts
  /\ starts' = starts \ {s}
  /\ store' = IF s.served THEN [store EXCEPT !.run = s.flow] ELSE store
  /\ busy' = Settled(s, [busy EXCEPT !.running = FALSE])
  /\ UNCHANGED <<rows, cache, stale, gets, route, shown, topbar, saves, missed,
                 outdated, raced, counts>>

FlowEditorNext ==
  \/ (\E f \in Flows : open(f) \/ cacheAges(f)) \/ leave \/ refetchOnReconnect
  \/ (\E g \in gets : getServed(g) \/ getAnswered(g) \/ BuilderPage(g))
  \/ edit \/ (\E name \in Flows : setFlowName(name)) \/ useDebounce
  \/ save(FALSE) \/ onRun
  \/ (\E s \in saves : updateFlow(s) \/ markSaved(s) \/ saveFailed(s))
  \/ (\E s \in starts : runServed(s) \/ setActiveRunId(s))

FlowEditorSpec == FlowEditorInit /\ [][FlowEditorNext]_editorVars

(***************************************************************************)
(* A flow on the server holds only edits that were made to it: no save     *)
(* that is late, or of a page that is gone, writes the content of one flow *)
(* into another.                                                           *)
(***************************************************************************)
SavedIsOwn == \A f \in Flows : \A e \in rows[f].content : e[1] = f

(***************************************************************************)
(* What is not marked as changed is what the server has, name and content. *)
(* There are exceptions, all visible to the user as a flow shown as saved  *)
(* that is not: raced, a save was answered over later edits or in another  *)
(* flow, or was sent while another save or run of the flow was under way;  *)
(* and outdated: a save leaves the cached row as it is, so that a flow     *)
(* opened again within a minute of its load shows the row before the save, *)
(* as does a load that a save overtakes.                                   *)
(***************************************************************************)
CleanIsSaved ==
  store.flow # NoFlow /\ ~store.dirty /\ ~raced /\ ~outdated
    => serializeDefinition = rows[store.flow]

(***************************************************************************)
(* A run executes all the edits that were on the screen at the click: if   *)
(* some are unsaved they are saved first, and nothing is started when that *)
(* fails.  The same exceptions: a run of an outdated view that was not     *)
(* edited executes the server's row, not what is shown.                    *)
(***************************************************************************)
RunStartsSaved == ~raced => missed = {}

(***************************************************************************)
(* What the variables hold.                                                *)
(***************************************************************************)
Contents == SUBSET ((Flows \cup {NoFlow}) \X Nat)
Row == [name : Flows \cup {Untitled, NoFlow}, content : Contents]
EditorTypeOK ==
  /\ rows \in [Flows -> Row] /\ cache \in [Flows -> Row] /\ stale \subseteq Flows
  /\ gets \subseteq [flow : Flows, row : Row]
  /\ route \in Flows \cup {NoFlow} /\ shown \in BOOLEAN /\ raced \in BOOLEAN
  /\ (shown => route \in Flows)
  /\ store \in [flow : Flows \cup {NoFlow}, name : Flows \cup {Untitled, NoFlow},
               content : Contents, dirty : BOOLEAN, run : Flows \cup {NoFlow}]
  /\ topbar \in [typed : Flows \cup {Untitled, NoFlow}, debounced : Flows \cup {Untitled, NoFlow}]
  /\ busy \in [saving : BOOLEAN, running : BOOLEAN]
  /\ saves \subseteq [id : Nat, flow : Flows, row : Row, visit : Nat, run : BOOLEAN, served : BOOLEAN]
  /\ starts \subseteq [flow : Flows, content : Contents, visit : Nat, served : BOOLEAN]
  /\ outdated \in BOOLEAN /\ missed \in Contents
  /\ counts \in [edits : Nat, visits : Nat, saves : Nat]

(***************************************************************************)
(* Why SavedIsOwn holds: wherever the content of a flow is, in the cache,  *)
(* on its way, in the store or in a save, it goes with its own flow.       *)
(***************************************************************************)
Own(f, content) == \A e \in content : e[1] = f
EditsStay ==
  /\ SavedIsOwn
  /\ \A f \in Flows : Own(f, cache[f].content)
  /\ \A g \in gets : Own(g.flow, g.row.content)
  /\ \A s \in saves : Own(s.flow, s.row.content)
  /\ Own(store.flow, store.content)

(***************************************************************************)
(* Why CleanIsSaved and RunStartsSaved hold, while nothing has raced: one  *)
(* save of a flow is under way, no start that relies on another; once it   *)
(* is served, the flow is what it sent, and stays so for the start that    *)
(* follows it; until it is answered, its page shows changes.               *)
(***************************************************************************)
SavesAlone ==
  /\ \A s, t \in saves : s.flow = t.flow => s = t
  /\ \A s \in saves, t \in starts : s.flow = t.flow => t.content = {}
SavedFirst ==
  /\ \A s \in saves : s.served => rows[s.flow] = s.row
  /\ \A s \in starts : s.content \subseteq rows[s.flow].content
Unanswered == \A s \in saves : s.visit = counts.visits /\ s.flow = store.flow => store.dirty
RunInv == ~raced => missed = {} /\ SavesAlone /\ SavedFirst /\ Unanswered
\* A page that saved its flow shows it, and the store holds it, until it is left.
OfThisVisit(s) == s.visit = counts.visits /\ s.flow = route => shown /\ store.flow = route
VisitsInv == \A s \in saves : s.visit <= counts.visits /\ OfThisVisit(s)
EditorInv == RunInv /\ VisitsInv /\ CleanIsSaved

(***************************************************************************)
(* "On mount: - Load flow by id from API. - Hydrate builder store"         *)
(* (docs/prompts/07-builder-ui-dnd-persist.md:29-32): the builder that is  *)
(* shown and was not edited has the flow of its page under its name.       *)
(***************************************************************************)
OpenedIsTheFlow ==
  shown /\ counts.edits = 0 /\ gets = {} => store.flow = route /\ store.name = route
=============================================================================
