---------------------------- MODULE WebAppProofs ----------------------------
(***************************************************************************)
(* Theorems about the browser tab: the flow that is opened and saved, the  *)
(* session, the workspace and the pages that list things, for any sets of  *)
(* flows, projects and rows and any bounds on what the user does.          *)
(***************************************************************************)
EXTENDS FlowEditor, Session, Workspace, ListPages, FiniteSetTheorems, TLAPS

------------------------------------------------------------------------------
(* FlowEditor: the types. *)

Names == Flows \cup {Untitled, NoFlow}
Route == Flows \cup {NoFlow}

LEMMA NoRowIsRow == NoRow \in Row
BY DEF NoRow, RowOf, Row, Contents

LEMMA EditorTypesInit == FlowEditorInit => EditorTypeOK
<1> SUFFICES ASSUME FlowEditorInit PROVE EditorTypeOK
  OBVIOUS
<1>1. \A f \in Flows : RowOf(f, {}) \in Row
  BY DEF RowOf, Row, Contents
<1>2. {} \in Contents
  BY DEF Contents
<1>3. rows \in [Flows -> Row] /\ cache \in [Flows -> Row]
  BY <1>1, NoRowIsRow DEF FlowEditorInit
<1>4. /\ store \in [flow : Flows \cup {NoFlow}, name : Flows \cup {Untitled, NoFlow},
                    content : Contents, dirty : BOOLEAN, run : Flows \cup {NoFlow}]
      /\ topbar \in [typed : Flows \cup {Untitled, NoFlow}, debounced : Flows \cup {Untitled, NoFlow}]
      /\ busy \in [saving : BOOLEAN, running : BOOLEAN]
      /\ counts \in [edits : Nat, visits : Nat, saves : Nat]
  BY <1>2 DEF FlowEditorInit
<1> QED
  BY <1>2, <1>3, <1>4 DEF FlowEditorInit, EditorTypeOK

\* What a load does to the store, the top bar and the ghosts.
LEMMA LoadTypes ==
  ASSUME EditorTypeOK, NEW f \in Flows, NEW row \in Row, NEW debounced \in Names,
         useBuilderLoad(f, row, debounced)
  PROVE  /\ store' \in [flow : Flows \cup {NoFlow}, name : Flows \cup {Untitled, NoFlow},
                        content : Contents, dirty : BOOLEAN, run : Flows \cup {NoFlow}]
         /\ topbar' \in [typed : Flows \cup {Untitled, NoFlow},
                         debounced : Flows \cup {Untitled, NoFlow}]
         /\ outdated' \in BOOLEAN /\ raced' \in BOOLEAN
<1>1. row.content \in Contents /\ row.name \in Names
  BY DEF Row, Names
<1>2. raced' \in BOOLEAN /\ outdated' \in BOOLEAN
  BY Zenon DEF useBuilderLoad
<1>3. (debounced # row.name) \in BOOLEAN
  OBVIOUS
<1> QED
  BY <1>1, <1>2, <1>3 DEF useBuilderLoad, Names

LEMMA getFlowTypes ==
  ASSUME EditorTypeOK, NEW f \in Flows
  PROVE  getFlow(f) \subseteq [flow : Flows, row : Row]
BY NoRowIsRow DEF EditorTypeOK, getFlow

LEMMA OpenTypes ==
  ASSUME EditorTypeOK, NEW f \in Flows, open(f)
  PROVE  EditorTypeOK'
<1>1. /\ route' = f /\ busy' = [saving |-> FALSE, running |-> FALSE]
      /\ counts' = [counts EXCEPT !.visits = @ + 1]
      /\ UNCHANGED <<rows, cache, stale, saves, starts, missed>>
  BY DEF open
<1>2. counts' \in [edits : Nat, visits : Nat, saves : Nat]
      /\ busy' \in [saving : BOOLEAN, running : BOOLEAN]
  BY <1>1 DEF EditorTypeOK
<1>3. CASE cache[f] # NoRow
  <2>1. cache[f] \in Row /\ store.name \in Names
    BY DEF EditorTypeOK, Names
  <2>2. /\ shown' = TRUE /\ useBuilderLoad(f, cache[f], store.name)
        /\ gets' = IF f \in stale THEN getFlow(f) ELSE gets
    BY <1>3 DEF open
  <2>3. gets' \subseteq [flow : Flows, row : Row]
    BY <2>2, getFlowTypes DEF EditorTypeOK
  <2> QED
    BY <1>1, <1>2, <2>1, <2>2, <2>3, LoadTypes DEF EditorTypeOK
<1>4. CASE cache[f] = NoRow
  <2>1. /\ shown' = FALSE /\ gets' = getFlow(f)
        /\ UNCHANGED <<store, topbar, outdated, raced>>
    BY <1>4 DEF open
  <2> QED
    BY <1>1, <1>2, <2>1, getFlowTypes DEF EditorTypeOK
<1> QED
  BY <1>3, <1>4

LEMMA LoadingTypes ==
  ASSUME EditorTypeOK,
         \/ leave \/ refetchOnReconnect
         \/ \E f \in Flows : cacheAges(f)
         \/ \E g \in gets : getServed(g) \/ BuilderPage(g)
  PROVE  EditorTypeOK'
<1>1. CASE leave
  <2>1. /\ route' = NoFlow /\ shown' = FALSE
        /\ UNCHANGED <<rows, cache, stale, gets, store, topbar, busy, saves, starts, missed,
                       outdated, raced, counts>>
    BY <1>1 DEF leave
  <2>2. route' \in Flows \cup {NoFlow} /\ shown' \in BOOLEAN /\ (shown' => route' \in Flows)
    BY <2>1
  <2>3. outdated' \in BOOLEAN /\ raced' \in BOOLEAN
    BY <2>1 DEF EditorTypeOK
  <2> QED
    BY <2>1, <2>2, <2>3 DEF EditorTypeOK
<1>2. CASE refetchOnReconnect
  BY <1>2, getFlowTypes DEF refetchOnReconnect, EditorTypeOK
<1>3. ASSUME NEW f \in Flows, cacheAges(f) PROVE EditorTypeOK'
  BY <1>3 DEF cacheAges, EditorTypeOK
<1>4. ASSUME NEW g \in gets, getServed(g) PROVE EditorTypeOK'
  <2>1. g \in [flow : Flows, row : Row] /\ rows[g.flow] \in Row
    BY DEF EditorTypeOK
  <2>2. gets' \subseteq [flow : Flows, row : Row]
    BY <1>4, <2>1 DEF getServed, EditorTypeOK
  <2> QED
    BY <1>4, <2>2 DEF getServed, EditorTypeOK
<1>5. ASSUME NEW g \in gets, BuilderPage(g) PROVE EditorTypeOK'
  <2>1. /\ gets' \subseteq gets
        /\ UNCHANGED <<rows, cache, stale, route, busy, saves, starts, missed, counts>>
    BY <1>5 DEF BuilderPage
  <2>2. CASE route = g.flow /\ ~shown
    <3>1. /\ shown' = TRUE /\ topbar' = [typed |-> store.name, debounced |-> store.name]
          /\ UNCHANGED <<store, outdated, raced>>
      BY <1>5, <2>2 DEF BuilderPage, mounted
    <3>2. route \in Flows
      BY <2>2 DEF EditorTypeOK
    <3> QED
      BY <2>1, <3>1, <3>2 DEF EditorTypeOK
  <2>3. CASE ~(route = g.flow /\ ~shown)
    <3>1. UNCHANGED <<shown, store, topbar, outdated, raced>>
      BY <1>5, <2>3 DEF BuilderPage
    <3> QED
      BY <2>1, <3>1 DEF EditorTypeOK
  <2> QED
    BY <2>2, <2>3
<1> QED
  BY <1>1, <1>2, <1>3, <1>4, <1>5

LEMMA AnsweredTypes ==
  ASSUME EditorTypeOK, NEW g \in gets, getAnswered(g)
  PROVE  EditorTypeOK'
<1>1. g \in [flow : Flows, row : Row]
  BY DEF EditorTypeOK
<1>2. /\ gets' \subseteq gets /\ stale' \subseteq stale
      /\ cache' = [cache EXCEPT ![g.flow] = g.row]
      /\ UNCHANGED <<rows, route, busy, saves, starts, missed, counts>>
  BY DEF getAnswered
<1>3. cache' \in [Flows -> Row]
  BY <1>1, <1>2 DEF EditorTypeOK
<1>4. CASE route = g.flow /\ (~shown \/ cache[route] # g.row)
  <2>1. /\ shown' = TRUE
        /\ useBuilderLoad(route, g.row, IF shown THEN topbar.debounced ELSE store.name)
    BY <1>4 DEF getAnswered
  <2>2. (IF shown THEN topbar.debounced ELSE store.name) \in Names
    BY DEF EditorTypeOK, Names
  <2>3. route \in Flows /\ g.row \in Row
    BY <1>1, <1>4
  <2> QED
    BY <1>2, <1>3, <2>1, <2>2, <2>3, LoadTypes DEF EditorTypeOK
<1>5. CASE ~(route = g.flow /\ (~shown \/ cache[route] # g.row))
  <2>1. UNCHANGED <<shown, store, topbar, outdated, raced>>
    BY <1>5 DEF getAnswered
  <2> QED
    BY <1>2, <1>3, <2>1 DEF EditorTypeOK
<1> QED
  BY <1>4, <1>5

LEMMA EditingTypes ==
  ASSUME EditorTypeOK, edit \/ useDebounce \/ \E name \in Flows : setFlowName(name)
  PROVE  EditorTypeOK'
<1>1. CASE edit
  <2>1. store.content \cup {<<store.flow, counts.edits + 1>>} \in Contents
    BY DEF EditorTypeOK, Contents
  <2> DEFINE more == store.content \cup {<<store.flow, counts.edits + 1>>}
  <2>2. store' = [store EXCEPT !.content = more, !.dirty = TRUE]
    BY <1>1 DEF edit
  <2> HIDE DEF more
  <2>3. store' \in [flow : Flows \cup {NoFlow}, name : Flows \cup {Untitled, NoFlow},
                    content : Contents, dirty : BOOLEAN, run : Flows \cup {NoFlow}]
    BY <2>1, <2>2 DEF EditorTypeOK, more
  <2>4. counts' \in [edits : Nat, visits : Nat, saves : Nat]
    BY <1>1 DEF edit, EditorTypeOK
  <2> QED
    BY <1>1, <2>3, <2>4 DEF edit, EditorTypeOK
<1>2. ASSUME NEW name \in Flows, setFlowName(name) PROVE EditorTypeOK'
  BY <1>2 DEF setFlowName, EditorTypeOK
<1>3. CASE useDebounce
  <2> DEFINE d == store.dirty \/ topbar.typed # store.name
  <2>1. d \in BOOLEAN
    BY Zenon
  <2>2. store' = [store EXCEPT !.name = topbar.typed, !.dirty = d]
    BY <1>3, Zenon DEF useDebounce
  <2> HIDE DEF d
  <2>3. store' \in [flow : Flows \cup {NoFlow}, name : Flows \cup {Untitled, NoFlow},
                    content : Contents, dirty : BOOLEAN, run : Flows \cup {NoFlow}]
    BY <2>1, <2>2 DEF EditorTypeOK
  <2> QED
    BY <1>3, <2>3 DEF useDebounce, EditorTypeOK
<1> QED
  BY <1>1, <1>2, <1>3

LEMMA SaveTypes ==
  ASSUME EditorTypeOK, NEW run \in BOOLEAN, save(run)
  PROVE  EditorTypeOK'
<1> DEFINE new == [id |-> counts.saves, flow |-> store.flow, row |-> serializeDefinition,
                   visit |-> counts.visits, run |-> run, served |-> FALSE]
<1>1. serializeDefinition \in Row /\ store.flow \in Flows
  BY DEF serializeDefinition, RowOf, Row, EditorTypeOK, save
<1>2. new \in [id : Nat, flow : Flows, row : Row, visit : Nat, run : BOOLEAN, served : BOOLEAN]
  BY <1>1 DEF EditorTypeOK
<1>3. saves' = saves \cup {new} /\ counts' = [counts EXCEPT !.saves = @ + 1]
      /\ busy' = [busy EXCEPT !.saving = TRUE]
      /\ UNCHANGED <<rows, cache, stale, gets, route, shown, store, topbar, starts, missed, outdated>>
  BY DEF save
<1>4. raced' \in BOOLEAN
  BY Zenon DEF save
<1> HIDE DEF new
<1>5. saves' \subseteq [id : Nat, flow : Flows, row : Row, visit : Nat, run : BOOLEAN, served : BOOLEAN]
  BY <1>2, <1>3 DEF EditorTypeOK
<1>6. counts' \in [edits : Nat, visits : Nat, saves : Nat]
  BY <1>3 DEF EditorTypeOK
<1>7. busy' \in [saving : BOOLEAN, running : BOOLEAN]
  BY <1>3 DEF EditorTypeOK
<1> QED
  BY <1>3, <1>4, <1>5, <1>6, <1>7 DEF EditorTypeOK

LEMMA StartTypes ==
  ASSUME EditorTypeOK, NEW f \in Flows, NEW content \in Contents, NEW visit \in Nat
  PROVE  startRun(f, content, visit) \subseteq
           [flow : Flows, content : Contents, visit : Nat, served : BOOLEAN]
<1>1. [flow |-> f, content |-> content, visit |-> visit, served |-> FALSE]
        \in [flow : Flows, content : Contents, visit : Nat, served : BOOLEAN]
  OBVIOUS
<1> QED
  BY <1>1, Zenon DEF startRun, EditorTypeOK

LEMMA SettledTypes ==
  ASSUME EditorTypeOK, NEW s, NEW b \in [saving : BOOLEAN, running : BOOLEAN]
  PROVE  Settled(s, b) \in [saving : BOOLEAN, running : BOOLEAN]
BY DEF Settled, EditorTypeOK

LEMMA SavedTypes ==
  ASSUME EditorTypeOK, NEW s \in saves, updateFlow(s) \/ markSaved(s) \/ saveFailed(s)
  PROVE  EditorTypeOK'
<1>1. s \in [id : Nat, flow : Flows, row : Row, visit : Nat, run : BOOLEAN, served : BOOLEAN]
  BY DEF EditorTypeOK
<1>2. s.row.content \in Contents /\ s.flow \in Flows /\ s.row \in Row /\ s.visit \in Nat
  BY <1>1 DEF Row
<1>3. CASE updateFlow(s)
  <2>1. [s EXCEPT !.served = TRUE]
          \in [id : Nat, flow : Flows, row : Row, visit : Nat, run : BOOLEAN, served : BOOLEAN]
    BY <1>1
  <2>2. saves' \subseteq [id : Nat, flow : Flows, row : Row, visit : Nat, run : BOOLEAN, served : BOOLEAN]
    BY <1>3, <2>1, Zenon DEF updateFlow, EditorTypeOK
  <2>3. rows' \in [Flows -> Row]
    BY <1>2, <1>3 DEF updateFlow, EditorTypeOK
  <2>4. outdated' \in BOOLEAN
    BY <1>3, Zenon DEF updateFlow
  <2> QED
    BY <1>3, <2>2, <2>3, <2>4 DEF updateFlow, EditorTypeOK
<1>4. CASE markSaved(s)
  <2>1. raced' \in BOOLEAN /\ outdated' \in BOOLEAN
    BY <1>4, Zenon DEF markSaved
  <2>2. busy' \in [saving : BOOLEAN, running : BOOLEAN]
    <3>1. [saving |-> FALSE, running |-> s.run] \in [saving : BOOLEAN, running : BOOLEAN]
      BY <1>1
    <3> QED
      BY <1>4, <3>1, SettledTypes DEF markSaved
  <2>3. starts' \subseteq [flow : Flows, content : Contents, visit : Nat, served : BOOLEAN]
    BY <1>2, <1>4, StartTypes DEF markSaved, EditorTypeOK
  <2> QED
    BY <1>4, <2>1, <2>2, <2>3 DEF markSaved, EditorTypeOK
<1>5. CASE saveFailed(s)
  <2>1. [busy EXCEPT !.saving = FALSE] \in [saving : BOOLEAN, running : BOOLEAN]
    BY DEF EditorTypeOK
  <2>2. busy' \in [saving : BOOLEAN, running : BOOLEAN]
    BY <1>5, <2>1, SettledTypes DEF saveFailed
  <2> QED
    BY <1>5, <2>2 DEF saveFailed, EditorTypeOK
<1> QED
  BY <1>3, <1>4, <1>5

\* Clicking Run without edits: nothing is to be saved.
RunUnsaved ==
  /\ shown /\ store.flow # NoFlow /\ ~store.dirty /\ starts = {}
  /\ starts' = startRun(store.flow, IF outdated THEN {} ELSE store.content, counts.visits)
  /\ raced' = (raced \/ \E s \in saves : s.flow = store.flow)
  /\ busy' = [busy EXCEPT !.running = TRUE]
  /\ UNCHANGED <<rows, cache, stale, gets, route, shown, store, topbar, saves, missed, outdated,
                 counts>>

LEMMA onRunSteps ==
  ASSUME onRun
  PROVE  save(TRUE) \/ RunUnsaved
BY Zenon DEF onRun, RunUnsaved

LEMMA RunTypes ==
  ASSUME EditorTypeOK, RunUnsaved \/ \E s \in starts : runServed(s) \/ setActiveRunId(s)
  PROVE  EditorTypeOK'
<1>1. CASE RunUnsaved
  <2>1. store.flow \in Flows /\ counts.visits \in Nat
        /\ (IF outdated THEN {} ELSE store.content) \in Contents
    BY <1>1 DEF RunUnsaved, EditorTypeOK, Contents
  <2>2. starts' \subseteq [flow : Flows, content : Contents, visit : Nat, served : BOOLEAN]
    BY <1>1, <2>1, StartTypes DEF RunUnsaved
  <2>3. raced' \in BOOLEAN
    BY <1>1, Zenon DEF RunUnsaved
  <2> QED
    BY <1>1, <2>2, <2>3 DEF RunUnsaved, EditorTypeOK
<1>2. ASSUME NEW s \in starts, runServed(s) PROVE EditorTypeOK'
  <2>1. s \in [flow : Flows, content : Contents, visit : Nat, served : BOOLEAN]
    BY DEF EditorTypeOK
  <2>2. missed' \in Contents
    BY <1>2, <2>1 DEF runServed, EditorTypeOK, Contents
  <2>3. [s EXCEPT !.served = TRUE]
          \in [flow : Flows, content : Contents, visit : Nat, served : BOOLEAN]
    BY <2>1
  <2>4. starts' \subseteq [flow : Flows, content : Contents, visit : Nat, served : BOOLEAN]
    BY <1>2, <2>3, Zenon DEF runServed, EditorTypeOK
  <2> QED
    BY <1>2, <2>2, <2>4 DEF runServed, EditorTypeOK
<1>3. ASSUME NEW s \in starts, setActiveRunId(s) PROVE EditorTypeOK'
  <2>1. s \in [flow : Flows, content : Contents, visit : Nat, served : BOOLEAN]
    BY DEF EditorTypeOK
  <2>2. [busy EXCEPT !.running = FALSE] \in [saving : BOOLEAN, running : BOOLEAN]
    BY DEF EditorTypeOK
  <2>3. busy' \in [saving : BOOLEAN, running : BOOLEAN]
    BY <1>3, <2>2, SettledTypes DEF setActiveRunId
  <2> QED
    BY <1>3, <2>1, <2>3 DEF setActiveRunId, EditorTypeOK
<1> QED
  BY <1>1, <1>2, <1>3

LEMMA EditorTypesStep == EditorTypeOK /\ [FlowEditorNext]_editorVars => EditorTypeOK'
<1> SUFFICES ASSUME EditorTypeOK, [FlowEditorNext]_editorVars PROVE EditorTypeOK'
  OBVIOUS
<1>1. CASE UNCHANGED editorVars
  BY <1>1 DEF editorVars, EditorTypeOK
<1>2. ASSUME NEW f \in Flows, open(f) PROVE EditorTypeOK'
  BY <1>2, OpenTypes
<1>3. ASSUME NEW g \in gets, getAnswered(g) PROVE EditorTypeOK'
  BY <1>3, AnsweredTypes
<1>4. ASSUME NEW s \in saves, updateFlow(s) \/ markSaved(s) \/ saveFailed(s) PROVE EditorTypeOK'
  BY <1>4, SavedTypes
<1>5. CASE onRun
  BY <1>5, onRunSteps, SaveTypes, RunTypes
<1> QED
  BY <1>1, <1>2, <1>3, <1>4, <1>5, LoadingTypes, EditingTypes, SaveTypes, RunTypes, Zenon
  DEF FlowEditorNext

\* The rows, the cache, the store and the requests of the builder keep their
\* types (use-builder-load, use-builder-save, use-builder-topbar).
THEOREM EditorTypeCorrect == FlowEditorSpec => []EditorTypeOK
<1> QED
  BY EditorTypesInit, EditorTypesStep, PTL DEF FlowEditorSpec

------------------------------------------------------------------------------
(* FlowEditor: a flow keeps its edits. *)

\* The steps that leave the server's rows alone, and put into the store, the
\* cache and what is under way only what goes with its flow.
LEMMA LoadingKeepsEdits ==
  ASSUME EditorTypeOK, EditsStay,
         \/ leave \/ refetchOnReconnect
         \/ \E f \in Flows : open(f) \/ cacheAges(f)
         \/ \E g \in gets : getServed(g) \/ getAnswered(g) \/ BuilderPage(g)
  PROVE  EditsStay'
<1>1. Own(NoFlow, NoRow.content) /\ \A f \in Flows : Own(f, NoRow.content)
  BY DEF Own, NoRow, RowOf
<1>2. \A f \in Flows : \A g \in getFlow(f) : Own(g.flow, g.row.content)
  BY <1>1 DEF EditsStay, getFlow
<1>3. CASE leave
  BY <1>3 DEF leave, EditsStay, SavedIsOwn
<1>4. CASE refetchOnReconnect
  <2>1. route \in Flows
    BY <1>4 DEF refetchOnReconnect, EditorTypeOK
  <2> QED
    BY <1>2, <1>4, <2>1 DEF refetchOnReconnect, EditsStay, SavedIsOwn
<1>5. ASSUME NEW f \in Flows, cacheAges(f) PROVE EditsStay'
  BY <1>5 DEF cacheAges, EditsStay, SavedIsOwn
<1>6. ASSUME NEW f \in Flows, open(f) PROVE EditsStay'
  <2>1. UNCHANGED <<rows, cache, saves>>
    BY <1>6 DEF open
  <2>2. \A g \in gets' : Own(g.flow, g.row.content)
    BY <1>2, <1>6 DEF open, EditsStay
  <2>3. Own(store'.flow, store'.content)
    BY <1>6 DEF open, useBuilderLoad, EditsStay
  <2> QED
    BY <2>1, <2>2, <2>3 DEF EditsStay, SavedIsOwn
<1>7. ASSUME NEW g \in gets, getServed(g) PROVE EditsStay'
  <2>1. g \in [flow : Flows, row : Row]
    BY DEF EditorTypeOK
  <2> DEFINE new == [g EXCEPT !.row = rows[g.flow]]
  <2>2. new.flow = g.flow /\ new.row = rows[g.flow]
    BY <2>1
  <2>3. Own(new.flow, new.row.content)
    BY <2>1, <2>2 DEF EditsStay, SavedIsOwn, Own
  <2>4. gets' \subseteq gets \cup {new} /\ UNCHANGED <<rows, cache, store, saves>>
    BY <1>7 DEF getServed
  <2> HIDE DEF new
  <2> QED
    BY <2>3, <2>4 DEF EditsStay, SavedIsOwn
<1>8. ASSUME NEW g \in gets, getAnswered(g) PROVE EditsStay'
  <2>1. g \in [flow : Flows, row : Row] /\ Own(g.flow, g.row.content)
    BY DEF EditorTypeOK, EditsStay
  <2>2. /\ gets' \subseteq gets /\ cache' = [cache EXCEPT ![g.flow] = g.row]
        /\ UNCHANGED <<rows, saves>>
    BY <1>8 DEF getAnswered
  <2>3. \A f \in Flows : Own(f, cache'[f].content)
    BY <2>1, <2>2 DEF EditorTypeOK, EditsStay
  <2>4. Own(store'.flow, store'.content)
    BY <1>8, <2>1 DEF getAnswered, useBuilderLoad, EditsStay
  <2> QED
    BY <2>2, <2>3, <2>4 DEF EditsStay, SavedIsOwn
<1>9. ASSUME NEW g \in gets, BuilderPage(g) PROVE EditsStay'
  <2>1. gets' \subseteq gets /\ UNCHANGED <<rows, cache, store, saves>>
    BY <1>9 DEF BuilderPage, mounted
  <2> QED
    BY <2>1 DEF EditsStay, SavedIsOwn
<1> QED
  BY <1>3, <1>4, <1>5, <1>6, <1>7, <1>8, <1>9

LEMMA EditingKeepsEdits ==
  ASSUME EditorTypeOK, EditsStay, edit \/ useDebounce \/ \E name \in Flows : setFlowName(name)
  PROVE  EditsStay'
<1>1. UNCHANGED <<rows, cache, gets, saves>>
  BY DEF edit, useDebounce, setFlowName
<1>2. store'.flow = store.flow
      /\ \A e \in store'.content : e \in store.content \/ e[1] = store.flow
  <2>1. CASE edit
    <3> DEFINE more == store.content \cup {<<store.flow, counts.edits + 1>>}
    <3>1. store' = [store EXCEPT !.content = more, !.dirty = TRUE]
      BY <2>1 DEF edit
    <3>2. \A e \in more : e \in store.content \/ e[1] = store.flow
      OBVIOUS
    <3> HIDE DEF more
    <3>3. store'.flow = store.flow /\ store'.content = more
      BY <3>1 DEF EditorTypeOK
    <3> QED
      BY <3>2, <3>3
  <2>2. CASE useDebounce
    <3>1. store'.flow = store.flow /\ store'.content = store.content
      BY <2>2 DEF useDebounce, EditorTypeOK
    <3> QED
      BY <3>1
  <2>3. CASE \E name \in Flows : setFlowName(name)
    BY <2>3 DEF setFlowName
  <2> QED
    BY <2>1, <2>2, <2>3
<1>3. Own(store'.flow, store'.content)
  BY <1>2 DEF EditsStay, Own
<1> QED
  BY <1>1, <1>3 DEF EditsStay, SavedIsOwn

LEMMA SavingKeepsEdits ==
  ASSUME EditorTypeOK, EditsStay,
         \/ \E run \in BOOLEAN : save(run)
         \/ \E s \in saves : updateFlow(s) \/ markSaved(s) \/ saveFailed(s)
  PROVE  EditsStay'
<1>1. ASSUME NEW run \in BOOLEAN, save(run) PROVE EditsStay'
  <2>1. UNCHANGED <<rows, cache, gets, store>>
    BY <1>1 DEF save
  <2>2. \A s \in saves' : s \in saves \/ (s.flow = store.flow /\ s.row.content = store.content)
    BY <1>1 DEF save, serializeDefinition, RowOf
  <2> QED
    BY <2>1, <2>2 DEF EditsStay, SavedIsOwn
<1>2. ASSUME NEW s \in saves, updateFlow(s) PROVE EditsStay'
  <2>1. s \in [id : Nat, flow : Flows, row : Row, visit : Nat, run : BOOLEAN, served : BOOLEAN]
        /\ Own(s.flow, s.row.content)
    BY DEF EditorTypeOK, EditsStay
  <2> DEFINE new == [s EXCEPT !.served = TRUE]
  <2>2. new.flow = s.flow /\ new.row = s.row
    BY <2>1
  <2>3. saves' \subseteq saves \cup {new} /\ rows' = [rows EXCEPT ![s.flow] = s.row]
        /\ UNCHANGED <<cache, gets, store>>
    BY <1>2 DEF updateFlow
  <2> HIDE DEF new
  <2>4. \A f \in Flows : \A e \in rows'[f].content : e[1] = f
    BY <2>1, <2>3 DEF EditsStay, SavedIsOwn, Own, EditorTypeOK
  <2> QED
    BY <2>1, <2>2, <2>3, <2>4 DEF EditsStay, SavedIsOwn
<1>3. ASSUME NEW s \in saves, markSaved(s) \/ saveFailed(s) PROVE EditsStay'
  <2>1. saves' \subseteq saves /\ UNCHANGED <<rows, cache, gets>>
    BY <1>3 DEF markSaved, saveFailed
  <2>2. store'.flow = store.flow /\ store'.content = store.content
    BY <1>3 DEF markSaved, saveFailed, EditorTypeOK
  <2> QED
    BY <2>1, <2>2 DEF EditsStay, SavedIsOwn
<1> QED
  BY <1>1, <1>2, <1>3

LEMMA RunningKeepsEdits ==
  ASSUME EditorTypeOK, EditsStay, RunUnsaved \/ \E s \in starts : runServed(s) \/ setActiveRunId(s)
  PROVE  EditsStay'
<1>1. UNCHANGED <<rows, cache, gets, saves>>
  BY DEF RunUnsaved, runServed, setActiveRunId
<1>2. store'.flow = store.flow /\ store'.content = store.content
  BY DEF RunUnsaved, runServed, setActiveRunId, EditorTypeOK
<1> QED
  BY <1>1, <1>2 DEF EditsStay, SavedIsOwn

\* The steps by what they are about.
LEMMA EditorSteps ==
  ASSUME [FlowEditorNext]_editorVars
  PROVE  \/ UNCHANGED editorVars
         \/ leave \/ refetchOnReconnect
         \/ \E f \in Flows : open(f) \/ cacheAges(f)
         \/ \E g \in gets : getServed(g) \/ getAnswered(g) \/ BuilderPage(g)
         \/ edit \/ useDebounce \/ \E name \in Flows : setFlowName(name)
         \/ \E run \in BOOLEAN : save(run)
         \/ \E s \in saves : updateFlow(s) \/ markSaved(s) \/ saveFailed(s)
         \/ RunUnsaved
         \/ \E s \in starts : runServed(s) \/ setActiveRunId(s)
<1>1. onRun => (\E run \in BOOLEAN : save(run)) \/ RunUnsaved
  BY onRunSteps
<1>2. save(FALSE) => \E run \in BOOLEAN : save(run)
  OBVIOUS
<1> QED
  BY <1>1, <1>2, Zenon DEF FlowEditorNext

(***************************************************************************)
(* Wherever an edit is, it is with the flow that was in the store when it  *)
(* was made; so a flow on the server holds only its own (use-builder-load, *)
(* use-flow-editor-save).                                                  *)
(***************************************************************************)
THEOREM EditsInvariant == FlowEditorSpec => []EditsStay
<1>1. FlowEditorInit => EditsStay
  BY DEF FlowEditorInit, EditsStay, SavedIsOwn, Own, NoRow, RowOf
<1>2. EditorTypeOK /\ EditsStay /\ [FlowEditorNext]_editorVars => EditsStay'
  <2> SUFFICES ASSUME EditorTypeOK, EditsStay, [FlowEditorNext]_editorVars PROVE EditsStay'
    OBVIOUS
  <2>1. CASE UNCHANGED editorVars
    BY <2>1 DEF editorVars, EditsStay, SavedIsOwn
  <2> QED
    BY <2>1, EditorSteps, LoadingKeepsEdits, EditingKeepsEdits, SavingKeepsEdits,
       RunningKeepsEdits, Zenon
<1> QED
  BY <1>1, <1>2, EditorTypeCorrect, PTL DEF FlowEditorSpec

(***************************************************************************)
(* No save that is late, or of a page that is gone, writes the content of  *)
(* one flow into another (use-flow-editor-save.ts).                        *)
(***************************************************************************)
THEOREM SavedIsOwnAlways == FlowEditorSpec => []SavedIsOwn
<1>1. EditsStay => SavedIsOwn
  BY DEF EditsStay
<1> QED
  BY <1>1, EditsInvariant, PTL

------------------------------------------------------------------------------
(* FlowEditor: what is not marked as changed is saved, and a run executes    *)
(* what is on the screen.                                                    *)

\* The invariant while nothing has raced.
Quiet ==
  /\ missed = {} /\ SavesAlone /\ SavedFirst /\ Unanswered
  /\ store.flow # NoFlow /\ ~store.dirty /\ ~outdated => serializeDefinition = rows[store.flow]

LEMMA EditorFacts == EditorInv <=> VisitsInv /\ (~raced => Quiet)
BY Zenon DEF EditorInv, RunInv, CleanIsSaved, Quiet

\* Steps that add nothing to what is under way, and make the store no cleaner.
LEMMA OthersKeep ==
  ASSUME EditorTypeOK, EditorInv,
         rows' = rows, missed' = missed, saves' \subseteq saves, starts' \subseteq starts,
         counts'.visits = counts.visits, outdated' = outdated, ~raced' => ~raced,
         route' = NoFlow \/ (route' = route /\ (shown => shown')),
         store'.flow = store.flow,
         ~store'.dirty => ~store.dirty /\ store'.name = store.name /\ store'.content = store.content
  PROVE  EditorInv'
<1>1. VisitsInv'
  <2>1. \A s \in saves : s.flow # NoFlow
    BY FlowEditorAssumption DEF EditorTypeOK
  <2> QED
    BY <2>1, EditorFacts DEF VisitsInv, OfThisVisit
<1>2. ASSUME ~raced' PROVE Quiet'
  <2>1. missed = {} /\ SavesAlone /\ SavedFirst /\ Unanswered
        /\ (store.flow # NoFlow /\ ~store.dirty /\ ~outdated => serializeDefinition = rows[store.flow])
    BY <1>2, EditorFacts DEF Quiet
  <2>2. SavesAlone' /\ SavedFirst'
    BY <2>1 DEF SavesAlone, SavedFirst
  <2>3. Unanswered'
    BY <2>1, Zenon DEF Unanswered
  <2>4. ~store'.dirty => serializeDefinition' = serializeDefinition
    BY DEF serializeDefinition
  <2> QED
    BY <2>1, <2>2, <2>3, <2>4, Zenon DEF Quiet
<1> QED
  BY <1>1, <1>2, EditorFacts, PTL

\* A load: what is not marked as changed then is the row, which is the server's
\* unless it is outdated.  A save of this visit would have left its flow marked.
LEMMA LoadKeeps ==
  ASSUME EditorTypeOK, EditorInv, NEW f \in Flows, NEW row \in Row, NEW debounced \in Names,
         useBuilderLoad(f, row, debounced),
         UNCHANGED <<rows, saves, starts, missed>>, route' = f, shown' = TRUE,
         \/ counts'.visits = counts.visits /\ route = f
         \/ counts'.visits = counts.visits + 1
  PROVE  EditorInv'
<1> DEFINE d == debounced # row.name
           o == row # rows[f]
<1>1. /\ store' = [flow |-> f, content |-> row.content, run |-> NoFlow, name |-> debounced, dirty |-> d]
      /\ outdated' = o
  BY Zenon DEF useBuilderLoad
<1>2. ~raced' => ~raced /\ ~(shown /\ store.flow = f /\ store.dirty)
  BY Zenon DEF useBuilderLoad
<1>3. (~d => debounced = row.name) /\ (~o => row = rows[f])
  OBVIOUS
<1> HIDE DEF d, o
<1>4. store'.flow = f /\ store'.content = row.content /\ store'.name = debounced /\ store'.dirty = d
  BY <1>1
<1>5. \A s \in saves : s.visit \in Nat /\ s.visit <= counts.visits /\ counts.visits \in Nat
  BY EditorFacts DEF VisitsInv, EditorTypeOK
<1>6. VisitsInv'
  <2>1. \A s \in saves : s.visit <= counts'.visits
    BY <1>5
  <2> QED
    BY <1>4, <2>1 DEF VisitsInv, OfThisVisit
<1>7. ASSUME ~raced' PROVE Quiet'
  <2>1. missed = {} /\ SavesAlone /\ SavedFirst /\ Unanswered
    BY <1>2, <1>7, EditorFacts DEF Quiet
  <2>2. SavesAlone' /\ SavedFirst'
    BY <2>1 DEF SavesAlone, SavedFirst
  <2>3. \A s \in saves : ~(s.visit = counts'.visits /\ s.flow = f)
    <3> SUFFICES ASSUME NEW s \in saves, s.visit = counts'.visits, s.flow = f PROVE FALSE
      OBVIOUS
    <3>1. counts'.visits = counts.visits /\ route = f
      BY <1>5
    <3>2. shown /\ store.flow = f
      BY <3>1, EditorFacts DEF VisitsInv, OfThisVisit
    <3>3. store.dirty
      BY <2>1, <3>1, <3>2 DEF Unanswered
    <3> QED
      BY <1>2, <1>7, <3>2, <3>3
  <2>4. Unanswered'
    BY <1>4, <2>3 DEF Unanswered
  <2>5. row = RowOf(row.name, row.content)
    BY DEF Row, RowOf
  <2>6. ~store'.dirty /\ ~outdated' => serializeDefinition' = rows[f]
    <3>1. serializeDefinition' = RowOf(debounced, row.content)
      BY <1>4 DEF serializeDefinition
    <3> QED
      BY <1>1, <1>3, <1>4, <2>5, <3>1
  <2> QED
    BY <1>4, <2>1, <2>2, <2>4, <2>6 DEF Quiet
<1> QED
  BY <1>6, <1>7, EditorFacts, PTL

LEMMA OpenKeeps ==
  ASSUME EditorTypeOK, EditorInv, NEW f \in Flows, open(f)
  PROVE  EditorInv'
<1>1. /\ route' = f /\ counts' = [counts EXCEPT !.visits = @ + 1]
      /\ UNCHANGED <<rows, saves, starts, missed>>
  BY DEF open
<1>2. counts'.visits = counts.visits + 1 /\ counts.visits \in Nat
  BY <1>1 DEF EditorTypeOK
<1>3. CASE cache[f] # NoRow
  <2>1. shown' = TRUE /\ useBuilderLoad(f, cache[f], store.name)
    BY <1>3 DEF open
  <2>2. cache[f] \in Row /\ store.name \in Names
    BY DEF EditorTypeOK, Names
  <2> QED
    BY <1>1, <1>2, <2>1, <2>2, LoadKeeps
<1>4. CASE cache[f] = NoRow
  <2>1. UNCHANGED <<store, outdated, raced>>
    BY <1>4 DEF open
  <2>2. \A s \in saves : s.visit \in Nat /\ s.visit <= counts.visits
    BY EditorFacts DEF VisitsInv, EditorTypeOK
  <2>3. \A s \in saves : s.visit <= counts'.visits /\ s.visit # counts'.visits
    BY <1>2, <2>2
  <2>4. VisitsInv' /\ Unanswered'
    BY <1>1, <2>3 DEF VisitsInv, OfThisVisit, Unanswered
  <2>5. (SavesAlone => SavesAlone') /\ (SavedFirst => SavedFirst')
        /\ serializeDefinition' = serializeDefinition
    BY <1>1, <2>1 DEF SavesAlone, SavedFirst, serializeDefinition
  <2>6. missed' = missed /\ store' = store /\ outdated' = outdated /\ rows' = rows
    BY <1>1, <2>1
  <2>7. Quiet => Quiet'
    BY <2>4, <2>5, <2>6, Zenon DEF Quiet
  <2>8. ~raced' => ~raced
    BY <2>1
  <2> QED
    BY <2>4, <2>7, <2>8, EditorFacts, PTL
<1> QED
  BY <1>3, <1>4

LEMMA LoadingKeeps ==
  ASSUME EditorTypeOK, EditorInv,
         \/ leave \/ refetchOnReconnect
         \/ \E f \in Flows : open(f) \/ cacheAges(f)
         \/ \E g \in gets : getServed(g) \/ getAnswered(g) \/ BuilderPage(g)
  PROVE  EditorInv'
<1>1. ASSUME UNCHANGED <<rows, saves, starts, missed, store, outdated, raced, counts>>,
             route' = NoFlow \/ (route' = route /\ (shown => shown'))
      PROVE  EditorInv'
  BY <1>1, OthersKeep
<1>2. CASE leave
  BY <1>1, <1>2 DEF leave
<1>3. CASE refetchOnReconnect
  BY <1>1, <1>3 DEF refetchOnReconnect
<1>4. ASSUME NEW f \in Flows, cacheAges(f) PROVE EditorInv'
  BY <1>1, <1>4 DEF cacheAges
<1>5. ASSUME NEW g \in gets, getServed(g) PROVE EditorInv'
  BY <1>1, <1>5 DEF getServed
<1>6. ASSUME NEW g \in gets, BuilderPage(g) PROVE EditorInv'
  <2>1. UNCHANGED <<rows, saves, starts, missed, store, outdated, raced, counts, route>>
    BY <1>6 DEF BuilderPage, mounted
  <2>2. shown => shown'
    BY <1>6 DEF BuilderPage
  <2> QED
    BY <1>1, <2>1, <2>2
<1>7. ASSUME NEW g \in gets, getAnswered(g) PROVE EditorInv'
  <2>1. UNCHANGED <<rows, route, saves, starts, missed, counts>>
    BY <1>7 DEF getAnswered
  <2>2. CASE route = g.flow /\ (~shown \/ cache[route] # g.row)
    <3>1. /\ shown' = TRUE
          /\ useBuilderLoad(route, g.row, IF shown THEN topbar.debounced ELSE store.name)
      BY <1>7, <2>2 DEF getAnswered
    <3>2. (IF shown THEN topbar.debounced ELSE store.name) \in Names
      BY DEF EditorTypeOK, Names
    <3>3. route \in Flows /\ g.row \in Row
      BY <2>2 DEF EditorTypeOK
    <3> QED
      BY <2>1, <3>1, <3>2, <3>3, LoadKeeps
  <2>3. CASE ~(route = g.flow /\ (~shown \/ cache[route] # g.row))
    <3>1. UNCHANGED <<shown, store, outdated, raced>>
      BY <1>7, <2>3 DEF getAnswered
    <3> QED
      BY <1>1, <2>1, <3>1
  <2> QED
    BY <2>2, <2>3
<1> QED
  BY <1>2, <1>3, <1>4, <1>5, <1>6, <1>7, OpenKeeps

LEMMA EditingKeeps ==
  ASSUME EditorTypeOK, EditorInv, edit \/ useDebounce \/ \E name \in Flows : setFlowName(name)
  PROVE  EditorInv'
<1>1. UNCHANGED <<rows, saves, starts, missed, outdated, raced, route, shown>>
  BY DEF edit, useDebounce, setFlowName
<1>2. counts'.visits = counts.visits
  BY DEF edit, useDebounce, setFlowName, EditorTypeOK
<1>3. /\ store'.flow = store.flow
      /\ ~store'.dirty => ~store.dirty /\ store'.name = store.name /\ store'.content = store.content
  <2>1. CASE edit
    <3>1. store'.dirty /\ store'.flow = store.flow
      BY <2>1 DEF edit, EditorTypeOK
    <3> QED
      BY <3>1
  <2>2. CASE useDebounce
    <3> DEFINE d == store.dirty \/ topbar.typed # store.name
    <3>1. store' = [store EXCEPT !.name = topbar.typed, !.dirty = d]
      BY <2>2, Zenon DEF useDebounce
    <3>2. ~d => ~store.dirty /\ topbar.typed = store.name
      OBVIOUS
    <3> HIDE DEF d
    <3>3. /\ store'.content = store.content /\ store'.dirty = d /\ store'.flow = store.flow
          /\ store'.name = topbar.typed
      BY <3>1 DEF EditorTypeOK
    <3> QED
      BY <3>2, <3>3, Zenon
  <2>3. CASE \E name \in Flows : setFlowName(name)
    BY <2>3 DEF setFlowName
  <2> QED
    BY <2>1, <2>2, <2>3
<1> QED
  BY <1>1, <1>2, <1>3, OthersKeep

LEMMA SaveKeeps ==
  ASSUME EditorTypeOK, EditorInv, NEW run \in BOOLEAN, save(run)
  PROVE  EditorInv'
<1> DEFINE new == [id |-> counts.saves, flow |-> store.flow, row |-> serializeDefinition,
                   visit |-> counts.visits, run |-> run, served |-> FALSE]
<1>1. /\ saves' = saves \cup {new} /\ shown /\ store.dirty
      /\ UNCHANGED <<rows, route, shown, store, outdated, starts, missed>>
  BY DEF save
<1>2. new.flow = store.flow /\ new.served = FALSE /\ new.visit = counts.visits
  OBVIOUS
<1>3. ~raced' => ~raced /\ \A s \in saves \cup starts : s.flow # store.flow
  BY Zenon DEF save
<1>4. counts'.visits = counts.visits /\ counts.visits \in Nat
  BY DEF save, EditorTypeOK
<1> HIDE DEF new
<1>5. VisitsInv'
  BY <1>1, <1>2, <1>4, EditorFacts DEF VisitsInv, OfThisVisit
<1>6. ASSUME ~raced' PROVE Quiet'
  <2>1. missed = {} /\ SavesAlone /\ SavedFirst
    BY <1>3, <1>6, EditorFacts DEF Quiet
  <2>2. SavesAlone'
    BY <1>1, <1>2, <1>3, <1>6, <2>1 DEF SavesAlone
  <2>3. SavedFirst'
    BY <1>1, <1>2, <2>1 DEF SavedFirst
  <2>4. Unanswered' /\ store'.dirty
    BY <1>1 DEF Unanswered
  <2> QED
    BY <1>1, <2>1, <2>2, <2>3, <2>4 DEF Quiet
<1> QED
  BY <1>5, <1>6, EditorFacts, PTL

\* The server writes a save: the rows of the others stay, and what is shown as
\* saved of this flow is outdated, unless it is marked as changed.
LEMMA ServedKeeps ==
  ASSUME EditorTypeOK, EditorInv, NEW s \in saves, updateFlow(s)
  PROVE  EditorInv'
<1> DEFINE new == [s EXCEPT !.served = TRUE]
<1>1. s \in [id : Nat, flow : Flows, row : Row, visit : Nat, run : BOOLEAN, served : BOOLEAN]
  BY DEF EditorTypeOK
<1>2. new.flow = s.flow /\ new.row = s.row /\ new.visit = s.visit
  BY <1>1
<1>3. /\ saves' = (saves \ {s}) \cup {new} /\ rows' = [rows EXCEPT ![s.flow] = s.row]
      /\ UNCHANGED <<starts, missed, raced, store, counts, route, shown>>
  BY DEF updateFlow
<1>4. ~outdated' => ~outdated /\ ~(store.flow = s.flow /\ s.visit # counts.visits)
  BY Zenon DEF updateFlow
<1> HIDE DEF new
<1>5. VisitsInv'
  BY <1>2, <1>3, EditorFacts DEF VisitsInv, OfThisVisit
<1>6. rows'[s.flow] = s.row /\ \A f \in Flows : f # s.flow => rows'[f] = rows[f]
  BY <1>1, <1>3 DEF EditorTypeOK
<1>7. ASSUME ~raced PROVE Quiet'
  <2>1. missed = {} /\ SavesAlone /\ SavedFirst /\ Unanswered
        /\ (store.flow # NoFlow /\ ~store.dirty /\ ~outdated => serializeDefinition = rows[store.flow])
    BY <1>7, EditorFacts DEF Quiet
  <2>2. SavesAlone'
    BY <1>2, <1>3, <2>1 DEF SavesAlone
  <2>3. \A t \in saves' : t.served => rows'[t.flow] = t.row
    <3> SUFFICES ASSUME NEW t \in saves', t.served PROVE rows'[t.flow] = t.row
      OBVIOUS
    <3>1. CASE t = new
      BY <1>2, <1>6, <3>1
    <3>2. CASE t # new
      <4>1. t \in saves /\ t # s /\ t.flow \in Flows
        BY <1>3, <3>2 DEF EditorTypeOK
      <4>2. t.flow # s.flow
        BY <2>1, <4>1 DEF SavesAlone
      <4> QED
        BY <1>6, <2>1, <4>1, <4>2 DEF SavedFirst
    <3> QED
      BY <3>1, <3>2
  <2>4. \A t \in starts' : t.content \subseteq rows'[t.flow].content
    <3> SUFFICES ASSUME NEW t \in starts PROVE t.content \subseteq rows'[t.flow].content
      BY <1>3
    <3>1. t.flow \in Flows
      BY DEF EditorTypeOK
    <3>2. CASE t.flow = s.flow
      <4>1. t.content = {}
        BY <2>1, <3>2 DEF SavesAlone
      <4> QED
        BY <4>1
    <3>3. CASE t.flow # s.flow
      BY <1>6, <2>1, <3>1, <3>3 DEF SavedFirst
    <3> QED
      BY <3>2, <3>3
  <2>5. Unanswered'
    BY <1>2, <1>3, <2>1 DEF Unanswered
  <2>6. store.flow # NoFlow /\ ~store.dirty /\ ~outdated' => serializeDefinition = rows'[store.flow]
    <3> SUFFICES ASSUME store.flow # NoFlow, ~store.dirty, ~outdated'
                 PROVE  serializeDefinition = rows'[store.flow]
      OBVIOUS
    <3>1. store.flow # s.flow
      BY <1>4, <2>1 DEF Unanswered
    <3>2. store.flow \in Flows
      BY DEF EditorTypeOK
    <3>3. serializeDefinition = rows[store.flow]
      BY <1>4, <2>1
    <3> QED
      BY <1>6, <3>1, <3>2, <3>3
  <2>7. SavedFirst' /\ serializeDefinition' = serializeDefinition
    BY <1>3, <2>3, <2>4 DEF SavedFirst, serializeDefinition
  <2>8. missed' = missed /\ store' = store
    BY <1>3
  <2> QED
    BY <2>1, <2>2, <2>5, <2>6, <2>7, <2>8, Zenon DEF Quiet
<1>8. ~raced' => ~raced
  BY <1>3
<1> QED
  BY <1>5, <1>7, <1>8, EditorFacts, PTL

\* A save is answered: unless it races, the server has what the store holds.
LEMMA MarkedKeeps ==
  ASSUME EditorTypeOK, EditorInv, NEW s \in saves, markSaved(s)
  PROVE  EditorInv'
<1> DEFINE new == [flow |-> s.flow, content |-> s.row.content, visit |-> s.visit, served |-> FALSE]
<1>1. new.flow = s.flow /\ new.content = s.row.content
  OBVIOUS
<1>2. starts' \subseteq starts \cup {new}
  BY DEF markSaved, startRun
<1>3. /\ saves' = saves \ {s} /\ UNCHANGED <<rows, missed, route, shown, counts>> /\ s.served
      /\ store' = [store EXCEPT !.dirty = FALSE]
  BY DEF markSaved
<1>4. ~raced' => ~raced /\ store.flow = s.flow /\ serializeDefinition = s.row
  BY Zenon DEF markSaved
<1> HIDE DEF new
<1>5. store'.flow = store.flow /\ store'.name = store.name /\ store'.content = store.content
  BY <1>3 DEF EditorTypeOK
<1>6. VisitsInv'
  BY <1>3, <1>5, EditorFacts DEF VisitsInv, OfThisVisit
<1>7. ASSUME ~raced' PROVE Quiet'
  <2>1. missed = {} /\ SavesAlone /\ SavedFirst
    BY <1>4, <1>7, EditorFacts DEF Quiet
  <2>2. SavesAlone'
    BY <1>1, <1>2, <1>3, <2>1 DEF SavesAlone
  <2>3. rows[s.flow] = s.row
    BY <1>3, <2>1 DEF SavedFirst
  <2>4. SavedFirst'
    BY <1>1, <1>2, <1>3, <2>1, <2>3 DEF SavedFirst
  <2>5. \A t \in saves' : t.flow # store.flow
    BY <1>3, <1>4, <1>7, <2>1 DEF SavesAlone
  <2>6. Unanswered'
    BY <1>5, <2>5 DEF Unanswered
  <2>7. serializeDefinition' = rows'[store'.flow]
    <3>1. serializeDefinition' = serializeDefinition
      BY <1>5 DEF serializeDefinition
    <3> QED
      BY <1>3, <1>4, <1>5, <1>7, <2>3, <3>1
  <2> QED
    BY <1>3, <2>1, <2>2, <2>4, <2>6, <2>7 DEF Quiet
<1> QED
  BY <1>6, <1>7, EditorFacts, PTL

\* A run without edits relies on what the server has, unless it is outdated.
LEMMA UnsavedKeeps ==
  ASSUME EditorTypeOK, EditorInv, RunUnsaved
  PROVE  EditorInv'
<1> DEFINE relied == IF outdated THEN {} ELSE store.content
           new == [flow |-> store.flow, content |-> relied, visit |-> counts.visits, served |-> FALSE]
<1>1. new.flow = store.flow /\ new.content = relied
  OBVIOUS
<1>2. /\ starts' = starts \cup {new} /\ store.flow # NoFlow /\ ~store.dirty
      /\ UNCHANGED <<rows, route, shown, store, saves, missed, outdated, counts>>
  BY DEF RunUnsaved, startRun
<1>3. ~raced' => ~raced /\ \A s \in saves : s.flow # store.flow
  BY Zenon DEF RunUnsaved
<1> HIDE DEF new
<1>4. VisitsInv'
  BY <1>2, EditorFacts DEF VisitsInv, OfThisVisit
<1>5. ASSUME ~raced' PROVE Quiet'
  <2>1. missed = {} /\ SavesAlone /\ SavedFirst /\ Unanswered
        /\ (store.flow # NoFlow /\ ~store.dirty /\ ~outdated => serializeDefinition = rows[store.flow])
    BY <1>3, <1>5, EditorFacts DEF Quiet
  <2>2. SavesAlone'
    BY <1>1, <1>2, <1>3, <1>5, <2>1 DEF SavesAlone
  <2>3. relied \subseteq rows[store.flow].content
    <3>1. CASE outdated
      BY <3>1
    <3>2. CASE ~outdated
      <4>1. serializeDefinition.content = store.content
        BY DEF serializeDefinition, RowOf
      <4> QED
        BY <1>2, <2>1, <3>2, <4>1
    <3> QED
      BY <3>1, <3>2
  <2> HIDE DEF relied
  <2>4. SavedFirst'
    BY <1>1, <1>2, <2>1, <2>3 DEF SavedFirst
  <2>5. Unanswered'
    BY <1>2, <2>1 DEF Unanswered
  <2>6. serializeDefinition' = serializeDefinition
    BY <1>2 DEF serializeDefinition
  <2> QED
    BY <1>2, <2>1, <2>2, <2>4, <2>5, <2>6 DEF Quiet
<1> QED
  BY <1>4, <1>5, EditorFacts, PTL

\* The server starts a run of what it has.
LEMMA StartedKeeps ==
  ASSUME EditorTypeOK, EditorInv, NEW s \in starts, runServed(s)
  PROVE  EditorInv'
<1> DEFINE new == [s EXCEPT !.served = TRUE]
<1>1. new.flow = s.flow /\ new.content = s.content
  BY DEF EditorTypeOK
<1>2. /\ starts' = (starts \ {s}) \cup {new}
      /\ missed' = missed \cup (s.content \ rows[s.flow].content)
      /\ UNCHANGED <<rows, route, shown, store, saves, outdated, raced, counts>>
  BY DEF runServed
<1> HIDE DEF new
<1>3. VisitsInv'
  BY <1>2, EditorFacts DEF VisitsInv, OfThisVisit
<1>4. ASSUME ~raced PROVE Quiet'
  <2>1. missed = {} /\ SavesAlone /\ SavedFirst /\ Unanswered
        /\ (store.flow # NoFlow /\ ~store.dirty /\ ~outdated => serializeDefinition = rows[store.flow])
    BY <1>4, EditorFacts DEF Quiet
  <2>2. missed' = {}
    BY <1>2, <2>1 DEF SavedFirst
  <2>3. SavesAlone' /\ SavedFirst'
    BY <1>1, <1>2, <2>1 DEF SavesAlone, SavedFirst
  <2>4. Unanswered'
    BY <1>2, <2>1 DEF Unanswered
  <2>5. serializeDefinition' = serializeDefinition
    BY <1>2 DEF serializeDefinition
  <2>6. store' = store /\ outdated' = outdated /\ rows' = rows
    BY <1>2
  <2> QED
    BY <2>1, <2>2, <2>3, <2>4, <2>5, <2>6, Zenon DEF Quiet
<1>5. ~raced' => ~raced
  BY <1>2
<1> QED
  BY <1>3, <1>4, <1>5, EditorFacts, PTL

LEMMA AnsweringKeeps ==
  ASSUME EditorTypeOK, EditorInv,
         (\E s \in saves : saveFailed(s)) \/ (\E s \in starts : setActiveRunId(s))
  PROVE  EditorInv'
<1>1. /\ saves' \subseteq saves /\ starts' \subseteq starts
      /\ UNCHANGED <<rows, missed, route, shown, outdated, raced, counts>>
  BY DEF saveFailed, setActiveRunId
<1>2. /\ store'.flow = store.flow /\ store'.dirty = store.dirty
      /\ store'.name = store.name /\ store'.content = store.content
  BY DEF saveFailed, setActiveRunId, EditorTypeOK
<1> QED
  BY <1>1, <1>2, OthersKeep

LEMMA EditorStep == EditorTypeOK /\ EditorInv /\ [FlowEditorNext]_editorVars => EditorInv'
<1> SUFFICES ASSUME EditorTypeOK, EditorInv, [FlowEditorNext]_editorVars PROVE EditorInv'
  OBVIOUS
<1>1. CASE UNCHANGED editorVars
  BY <1>1, OthersKeep DEF editorVars
<1> QED
  BY <1>1, EditorSteps, LoadingKeeps, EditingKeeps, SaveKeeps, ServedKeeps, MarkedKeeps,
     UnsavedKeeps, StartedKeeps, AnsweringKeeps, Zenon

(***************************************************************************)
(* Unless something raced, one save of a flow is under way, and when it is *)
(* answered the server has what it sent, for the run that follows it; what *)
(* is not marked as changed is what the server has, unless it is outdated  *)
(* (use-flow-editor-save.ts, use-flow-editor-run.ts).                      *)
(***************************************************************************)
THEOREM EditorInvariant == FlowEditorSpec => []EditorInv
<1>1. FlowEditorInit => EditorInv
  BY DEF FlowEditorInit, EditorInv, RunInv, VisitsInv, CleanIsSaved, SavesAlone, SavedFirst,
         Unanswered
<1> QED
  BY <1>1, EditorStep, EditorTypeCorrect, PTL DEF FlowEditorSpec

(***************************************************************************)
(* What the builder does not mark as changed is what the server has, name  *)
(* and content, unless a save or a load raced or the store was loaded with *)
(* a row that a save has replaced, or replaces since (builder-store.ts     *)
(* markSaved, use-builder-save.ts).                                        *)
(***************************************************************************)
THEOREM CleanIsSavedAlways == FlowEditorSpec => []CleanIsSaved
<1>1. EditorInv => CleanIsSaved
  BY DEF EditorInv
<1> QED
  BY <1>1, EditorInvariant, PTL

(***************************************************************************)
(* A run executes all the edits that were on the screen at the click,      *)
(* unless something raced; of a view that is outdated and was not edited,  *)
(* it executes the server's row (use-flow-editor-run.ts).                  *)
(***************************************************************************)
THEOREM RunStartsSavedAlways == FlowEditorSpec => []RunStartsSaved
<1>1. EditorInv => RunStartsSaved
  BY DEF EditorInv, RunInv, RunStartsSaved
<1> QED
  BY <1>1, EditorInvariant, PTL

------------------------------------------------------------------------------
(* Session. *)

Kinds == {"me", "query", "oauth", "login", "signup", "forgot", "reset", "logout"}
RequestType == [kind : Kinds, token : Nat, about : Nat, accepted : BOOLEAN, here : BOOLEAN]
Forms == {"login", "signup", "forgot", "reset", "logout"}

LEMMA RequestFacts ==
  ASSUME NEW k \in Kinds, NEW t \in Nat, NEW a \in Nat
  PROVE  /\ Request(k, t, a) \in RequestType
         /\ Request(k, t, a).kind = k /\ Request(k, t, a).token = t /\ Request(k, t, a).about = a
<1> DEFINE known == a \in valid
<1>1. known \in BOOLEAN
  OBVIOUS
<1>2. Request(k, t, a) = [kind |-> k, token |-> t, about |-> a, accepted |-> known, here |-> TRUE]
  BY DEF Request
<1> HIDE DEF known
<1> QED
  BY <1>1, <1>2 DEF RequestType

\* A request stays what it is; it is heard of by the gate of the same page and
\* session, by the callback page, and by others where their layout stays.
LEMMA StillFacts ==
  ASSUME NEW r \in RequestType, NEW p, NEW s
  PROVE  /\ Still(r, p, s) \in RequestType
         /\ Still(r, p, s).kind = r.kind /\ Still(r, p, s).token = r.token
         /\ Still(r, p, s).about = r.about
         /\ Still(r, p, s).here => r.here
         /\ Still(r, p, s).here /\ r.kind = "me" => p = tab /\ s = session
         /\ Still(r, p, s).here /\ r.kind = "oauth" => p = "callback"
<1> DEFINE asks == CASE r.kind = "me" -> p = tab /\ s = session
                     [] r.kind = "oauth" -> p = "callback"
                     [] OTHER -> layout(p) = layout(tab)
           h == r.here /\ asks
<1>1. h \in BOOLEAN
  BY Zenon
<1>2. h => r.here /\ asks
  OBVIOUS
<1>3. asks /\ r.kind = "me" => p = tab /\ s = session
  OBVIOUS
<1>4. asks /\ r.kind = "oauth" => p = "callback"
  OBVIOUS
<1>5. Still(r, p, s) = [r EXCEPT !.here = h]
  BY Zenon DEF Still
<1> HIDE DEF h, asks
<1>6. Still(r, p, s).here = h /\ Still(r, p, s) \in RequestType
      /\ Still(r, p, s).kind = r.kind /\ Still(r, p, s).token = r.token
      /\ Still(r, p, s).about = r.about
  BY <1>1, <1>5 DEF RequestType
<1> QED
  BY <1>2, <1>3, <1>4, <1>6, Zenon

\* What a request may still do, of those the invariant is about.
Harmless(r, s, top, past) ==
  /\ r.kind = "me" /\ r.here => r.token = s
  /\ r.kind = "oauth" /\ r.here => 0 < r.about /\ r.about <= top /\ r.about # s /\ r.about \notin past

SessionsFit == SessionTypeOK /\ SessionInv /\ EndedStaysEnded

LEMMA SessionFacts ==
  SessionsFit <=>
    /\ SessionTypeOK /\ session \notin ended /\ session <= issued
    /\ \A t \in ended : 0 < t /\ t <= issued
    /\ \A r \in requests : Harmless(r, session, issued, ended)
BY Zenon DEF SessionsFit, SessionInv, EndedStaysEnded, Harmless

\* What becomes of the sessions and of the requests when the gate has run:
\* s is the session that was open, none, or one that is new.
LEMMA GateKeeps ==
  ASSUME SessionsFit, NEW p \in Tabs, NEW s \in Nat, NEW asking, asking \subseteq requests,
         NEW spinning, spinning \subseteq Forms,
         useAuthGate(p, s, asking, spinning),
         issued' \in Nat, issued <= issued', s <= issued',
         s = session \/ s \notin ended,
         p = "callback" => s = session \/ s = NoToken,
         timer' \in BOOLEAN, unloading' \in BOOLEAN, valid' \subseteq Nat
  PROVE  SessionsFit'
<1> DEFINE stays == {Still(r, p, s) : r \in asking}
           new == Request("me", s, s)
<1>1. /\ tab' = p /\ session' = s
      /\ requests' \subseteq stays \cup {new}
      /\ validated' \in {s, validated, NoToken}
      /\ loading' \subseteq Forms
      /\ ended' = IF s # session /\ session # NoToken THEN ended \cup {session} ELSE ended
  <2> DEFINE ref == IF p \in Guarded /\ layout(p) = layout(tab) THEN validated ELSE NoToken
             asks == p \in Guarded /\ s # NoToken /\ ref # s
  <2>1. /\ tab' = p /\ session' = s
        /\ requests' = stays \cup (IF asks THEN {new} ELSE {})
        /\ validated' = IF asks THEN s ELSE ref
        /\ loading' = IF layout(p) = layout(tab) THEN spinning ELSE {}
        /\ ended' = IF s # session /\ session # NoToken THEN ended \cup {session} ELSE ended
    BY Zenon DEF useAuthGate
  <2>2. ref \in {validated, NoToken}
    OBVIOUS
  <2> HIDE DEF ref, asks, stays, new
  <2> QED
    BY <2>1, <2>2
<1>2. /\ new \in RequestType /\ new.kind = "me" /\ new.token = s
  <2>1. "me" \in Kinds
    BY DEF Kinds
  <2>2. /\ Request("me", s, s) \in RequestType
        /\ Request("me", s, s).kind = "me" /\ Request("me", s, s).token = s
    BY <2>1, RequestFacts
  <2> QED
    BY <2>2
<1>3. requests \subseteq RequestType
  BY DEF SessionsFit, SessionTypeOK, RequestType, Kinds
<1>4. /\ session \in Nat /\ issued \in Nat /\ validated \in Nat /\ ended \subseteq Nat
      /\ session \notin ended /\ session <= issued
      /\ \A t \in ended : 0 < t /\ t <= issued
      /\ \A r \in requests : Harmless(r, session, issued, ended)
  BY SessionFacts DEF SessionTypeOK
<1>5. \A r \in stays : r \in RequestType
  BY <1>3, StillFacts
<1>6. s \notin ended' /\ \A t \in ended' : t \in Nat /\ 0 < t /\ t <= issued'
  BY <1>1, <1>4 DEF NoToken
<1>7. ASSUME NEW r \in requests'
      PROVE  Harmless(r, s, issued', ended')
  <2>1. CASE r = new
    BY <1>2, <2>1 DEF Harmless
  <2>2. CASE r \in stays
    <3>1. PICK q \in asking : r = Still(q, p, s)
      BY <2>2
    <3>2. q \in RequestType /\ Harmless(q, session, issued, ended)
      BY <1>3, <1>4
    <3>3. /\ r.kind = q.kind /\ r.token = q.token /\ r.about = q.about /\ (r.here => q.here)
          /\ r.here /\ q.kind = "me" => s = session
          /\ r.here /\ q.kind = "oauth" => p = "callback"
      BY <3>1, <3>2, StillFacts
    <3>4. CASE r.kind = "me" /\ r.here
      BY <3>2, <3>3, <3>4 DEF Harmless
    <3>5. CASE r.kind = "oauth" /\ r.here
      <4>1. /\ q.about \in Nat /\ 0 < q.about /\ q.about <= issued /\ q.about # session
            /\ q.about \notin ended
        BY <3>2, <3>3, <3>5 DEF Harmless, RequestType
      <4>2. s = session \/ s = NoToken
        BY <3>3, <3>5
      <4>3. q.about # s /\ q.about <= issued' /\ q.about \notin ended'
        BY <1>1, <1>4, <4>1, <4>2 DEF NoToken
      <4> QED
        BY <3>3, <3>5, <4>1, <4>3 DEF Harmless
    <3> QED
      BY <3>4, <3>5 DEF Harmless
  <2> QED
    BY <1>1, <2>1, <2>2
<1> HIDE DEF stays, new
<1>8. SessionTypeOK'
  <2>1. requests' \subseteq RequestType
    BY <1>1, <1>2, <1>5
  <2>2. validated' \in Nat /\ ended' \subseteq Nat
    BY <1>1, <1>4, <1>6 DEF NoToken
  <2> QED
    BY <1>1, <2>1, <2>2, Zenon DEF SessionTypeOK, RequestType, Kinds, Forms
<1>9. session' = s
  BY <1>1
<1>10. (/\ SessionTypeOK /\ session \notin ended /\ session <= issued
        /\ \A t \in ended : 0 < t /\ t <= issued
        /\ \A r \in requests : Harmless(r, session, issued, ended))'
  BY <1>6, <1>7, <1>8, <1>9 DEF Harmless
<1> QED
  BY <1>10, SessionFacts, PTL

\* The gate leaves the session as it is, or ends it.
LEMMA GateEnds ==
  ASSUME SessionsFit, NEW p \in Tabs, NEW s \in {session, NoToken},
         NEW asking, asking \subseteq requests, NEW spinning, spinning \subseteq Forms,
         useAuthGate(p, s, asking, spinning), issued' = issued,
         timer' \in BOOLEAN, unloading' \in BOOLEAN, valid' \subseteq Nat
  PROVE  SessionsFit'
<1>1. /\ session \in Nat /\ issued \in Nat /\ session <= issued
      /\ \A t \in ended : 0 < t
  BY DEF SessionsFit, SessionTypeOK, SessionInv
<1>2. s \in Nat /\ s <= issued' /\ issued <= issued' /\ issued' \in Nat
  BY <1>1 DEF NoToken
<1>3. s = session \/ s \notin ended
  BY <1>1 DEF NoToken
<1> QED
  BY <1>2, <1>3, GateKeeps

LEMMA QuietTypes ==
  ASSUME SessionsFit, quiet
  PROVE  issued' = issued /\ timer' \in BOOLEAN /\ unloading' \in BOOLEAN /\ valid' \subseteq Nat
BY DEF SessionsFit, SessionTypeOK, quiet

\* A step that leaves the session, and asks nothing the invariant is about
\* but what a gate asks about the session that is open.
LEMMA RestKeeps ==
  ASSUME SessionsFit, UNCHANGED <<session, ended, issued>>,
         requests' \subseteq RequestType,
         \A r \in requests' : \/ r \in requests \/ r.kind \notin {"me", "oauth"}
                              \/ r.kind = "me" /\ r.token = session,
         tab' \in Tabs, validated' \in Nat, loading' \subseteq Forms,
         timer' \in BOOLEAN, unloading' \in BOOLEAN, valid' \subseteq Nat
  PROVE  SessionsFit'
<1>1. SessionTypeOK'
  BY DEF SessionsFit, SessionTypeOK, RequestType, Kinds, Forms
<1>2. \A r \in requests' : Harmless(r, session, issued, ended)
  BY SessionFacts DEF Harmless
<1>3. (/\ SessionTypeOK /\ session \notin ended /\ session <= issued
       /\ \A t \in ended : 0 < t /\ t <= issued
       /\ \A r \in requests : Harmless(r, session, issued, ended))'
  BY <1>1, <1>2, SessionFacts DEF Harmless
<1> QED
  BY <1>3, SessionFacts, PTL

LEMMA SessionTypes ==
  ASSUME SessionsFit
  PROVE  /\ session \in Nat /\ tab \in Tabs /\ validated \in Nat /\ issued \in Nat
         /\ requests \subseteq RequestType /\ loading \subseteq Forms
         /\ timer \in BOOLEAN /\ unloading \in BOOLEAN /\ valid \subseteq Nat /\ ended \subseteq Nat
BY DEF SessionsFit, SessionTypeOK, RequestType, Kinds, Forms

LEMMA GuardedTabs == Guarded \subseteq Tabs /\ "callback" \notin Guarded
BY DEF Guarded, Tabs

LEMMA GateSteps ==
  ASSUME SessionsFit, AuthGate \/ (\E p \in Tabs : navigate(p)) \/ OAuthCallbackPage \/ onSignOut
  PROVE  SessionsFit'
<1>1. "login" \in Tabs /\ {} \subseteq Forms
  BY DEF Tabs
<1>2. CASE AuthGate
  BY <1>1, <1>2, GateEnds, QuietTypes DEF AuthGate
<1>3. ASSUME NEW p \in Tabs, navigate(p) PROVE SessionsFit'
  BY <1>3, GateEnds, QuietTypes, SessionTypes DEF navigate
<1>4. CASE OAuthCallbackPage
  BY <1>1, <1>4, GateEnds, QuietTypes, SessionTypes DEF OAuthCallbackPage
<1>5. CASE onSignOut
  BY <1>1, <1>5, GateEnds, QuietTypes, SessionTypes DEF onSignOut
<1> QED
  BY <1>2, <1>3, <1>4, <1>5

LEMMA ReloadKeeps ==
  ASSUME SessionsFit, NEW p \in Tabs, reload(p)
  PROVE  SessionsFit'
<1> DEFINE new == Request("me", session, session)
<1>1. "me" \in Kinds
  BY DEF Kinds
<1>2. new \in RequestType /\ new.kind = "me" /\ new.token = session
  BY <1>1, RequestFacts, SessionTypes
<1>3. requests' \subseteq {new}
  BY DEF reload
<1>4. /\ tab' = p /\ loading' = {} /\ timer' = FALSE /\ unloading' = FALSE
      /\ validated' \in {session, NoToken}
      /\ UNCHANGED <<session, valid, issued, ended>>
  BY DEF reload
<1> HIDE DEF new
<1>5. validated' \in Nat /\ valid' \subseteq Nat
  BY <1>4, SessionTypes DEF NoToken
<1>6. FALSE \in BOOLEAN
  OBVIOUS
<1>7. requests' \subseteq RequestType /\ \A r \in requests' : r.kind = "me" /\ r.token = session
  BY <1>2, <1>3
<1> QED
  BY <1>4, <1>5, <1>6, <1>7, RestKeeps

\* A page sends a request that is not a gate's.
LEMMA AskingKeeps ==
  ASSUME SessionsFit,
         \/ query \/ useLoginPage \/ useSignupPage \/ useForgotPasswordPage
         \/ useResetPasswordPage \/ SidebarProfile
  PROVE  SessionsFit'
<1> DEFINE asked1(k) == Request(k, session, session)
<1>1. PICK k \in Kinds \ {"me", "oauth"} :
        /\ requests' \subseteq requests \cup {asked1(k)}
        /\ loading' \subseteq loading \cup Forms
  <2>1. CASE query
    BY <2>1 DEF query, Kinds
  <2>2. ASSUME NEW k \in Forms, submit(k)
        PROVE  /\ k \in Kinds \ {"me", "oauth"} /\ requests' \subseteq requests \cup {asked1(k)}
               /\ loading' \subseteq loading \cup Forms
    BY <2>2 DEF submit, Kinds, Forms
  <2>3. query \/ \E k \in Forms : submit(k)
    BY DEF useLoginPage, useSignupPage, useForgotPasswordPage, useResetPasswordPage,
           SidebarProfile, Forms
  <2> QED
    BY <2>1, <2>2, <2>3
<1>2. UNCHANGED <<session, tab, validated, timer, unloading, valid, issued, ended>>
  BY DEF query, useLoginPage, useSignupPage, useForgotPasswordPage, useResetPasswordPage,
         SidebarProfile, submit
<1>3. asked1(k) \in RequestType /\ asked1(k).kind = k
  BY RequestFacts, SessionTypes
<1> HIDE DEF asked1
<1>4. requests' \subseteq RequestType
      /\ \A r \in requests' : r \in requests \/ r.kind \notin {"me", "oauth"}
  BY <1>1, <1>3, SessionTypes
<1>5. loading' \subseteq Forms
  BY <1>1, SessionTypes
<1> QED
  BY <1>2, <1>4, <1>5, RestKeeps, SessionTypes

\* An answer that only ends a form's waiting.
LEMMA AnsweredKeeps ==
  ASSUME SessionsFit, NEW r \in requests,
         \/ answered(r) \/ notSignedIn(r) \/ resetPassword(r)
  PROVE  SessionsFit'
<1>1. /\ requests' \subseteq requests /\ loading' \subseteq loading
      /\ UNCHANGED <<session, tab, validated, unloading, valid, issued, ended>>
  BY DEF answered, notSignedIn, resetPassword, settled
<1>2. timer' \in BOOLEAN
  <2>1. timer' \in {timer, TRUE}
    BY DEF answered, notSignedIn, resetPassword
  <2> QED
    BY <2>1, SessionTypes
<1>3. requests' \subseteq RequestType /\ loading' \subseteq Forms
  BY <1>1, SessionTypes
<1> QED
  BY <1>1, <1>2, <1>3, RestKeeps, SessionTypes

\* An answer that the token was refused, or to the gate.
LEMMA RefusedKeeps ==
  ASSUME SessionsFit, NEW r \in requests, request(r) \/ me(r)
  PROVE  SessionsFit'
<1>1. requests \ {r} \subseteq requests /\ "login" \in Tabs
  BY DEF Tabs
<1>2. CASE request(r)
  <2>1. PICK p \in Tabs : useAuthGate(p, NoToken, requests \ {r}, loading)
    BY <1>1, <1>2, SessionTypes DEF request
  <2>2. unloading' \in BOOLEAN
    BY <1>2, Zenon DEF request
  <2>3. UNCHANGED <<timer, valid, issued>>
    BY <1>2 DEF request
  <2> QED
    BY <1>1, <2>1, <2>2, <2>3, GateEnds, SessionTypes
<1>3. CASE me(r)
  <2>1. r.kind = "me" /\ quiet
    BY <1>3 DEF me
  <2>2. r.here => r.token = session
    BY <2>1 DEF SessionsFit, SessionInv
  <2>3. PICK p \in Tabs, s \in {session, NoToken} : useAuthGate(p, s, requests \ {r}, loading)
    BY <1>1, <1>3, <2>2, SessionTypes DEF me
  <2> QED
    BY <1>1, <2>1, <2>3, GateEnds, QuietTypes, SessionTypes
<1> QED
  BY <1>2, <1>3

\* An answer that signs in: with a token the server has just created.
LEMMA SignedInKeeps ==
  ASSUME SessionsFit, NEW r \in requests, signedIn(r)
  PROVE  SessionsFit'
<1>1. PICK next \in Guarded : useAuthGate(next, issued', requests \ {r}, settled(r))
  BY DEF signedIn
<1>2. issued' = issued + 1 /\ valid' = valid \cup {issued'} /\ UNCHANGED <<timer, unloading>>
  BY DEF signedIn
<1>3. settled(r) \subseteq Forms /\ requests \ {r} \subseteq requests
  BY SessionTypes DEF settled
<1>4. issued' \in Nat /\ issued <= issued' /\ issued' <= issued' /\ valid' \subseteq Nat
  BY <1>2, SessionTypes
<1>5. issued' \notin ended
  BY <1>2, SessionTypes DEF SessionsFit, SessionInv
<1>6. next \in Tabs /\ next # "callback"
  BY GuardedTabs
<1> QED
  BY <1>1, <1>2, <1>3, <1>4, <1>5, <1>6, GateKeeps, SessionTypes

\* The tab comes back from the provider, with a token that is new.
LEMMA ProviderKeeps ==
  ASSUME SessionsFit, LoginPage
  PROVE  SessionsFit'
<1> DEFINE new == [Request("oauth", session, issued') EXCEPT !.accepted = TRUE]
<1>1. /\ issued' = issued + 1 /\ valid' = valid \cup {issued'}
      /\ tab' = "callback" /\ loading' = {} /\ timer' = FALSE /\ unloading' = FALSE
      /\ requests' = {new} /\ validated' = NoToken /\ UNCHANGED <<session, ended>>
  BY DEF LoginPage
<1>2. "oauth" \in Kinds /\ issued' \in Nat
  BY <1>1, SessionTypes DEF Kinds
<1>3. /\ Request("oauth", session, issued') \in RequestType
      /\ Request("oauth", session, issued').kind = "oauth"
      /\ Request("oauth", session, issued').about = issued'
  BY <1>2, RequestFacts, SessionTypes
<1>4. new \in RequestType /\ new.kind = "oauth" /\ new.about = issued'
  BY <1>3 DEF RequestType
<1> HIDE DEF new
<1>5. Harmless(new, session, issued', ended)
  BY <1>1, <1>4, SessionTypes DEF Harmless, SessionsFit, SessionInv
<1>6. SessionTypeOK'
  <2>1. requests' \subseteq RequestType /\ valid' \subseteq Nat
    BY <1>1, <1>2, <1>4, SessionTypes
  <2>2. "callback" \in Tabs /\ NoToken \in Nat /\ {} \subseteq Forms /\ FALSE \in BOOLEAN
    BY DEF Tabs, NoToken
  <2> QED
    BY <1>1, <1>2, <2>1, <2>2, SessionTypes, Zenon DEF SessionTypeOK, RequestType, Kinds, Forms
<1>7. (/\ SessionTypeOK /\ session \notin ended /\ session <= issued
       /\ \A t \in ended : 0 < t /\ t <= issued
       /\ \A r \in requests : Harmless(r, session, issued, ended))'
  BY <1>1, <1>5, <1>6, SessionFacts, SessionTypes DEF Harmless
<1> QED
  BY <1>7, SessionFacts, PTL

LEMMA CallbackKeeps ==
  ASSUME SessionsFit, NEW r \in requests, useOAuthCallbackPage(r)
  PROVE  SessionsFit'
<1>1. requests \ {r} \subseteq requests /\ "login" \in Tabs
  BY DEF Tabs
<1>2. r \in RequestType /\ quiet
  BY SessionTypes DEF useOAuthCallbackPage
<1>3. CASE \E p \in Tabs : useAuthGate(p, session, requests \ {r}, loading)
  BY <1>1, <1>2, <1>3, GateEnds, QuietTypes, SessionTypes
<1>4. CASE r.here /\ \E next \in Guarded : useAuthGate(next, r.about, requests \ {r}, loading)
  <2>1. PICK next \in Guarded : useAuthGate(next, r.about, requests \ {r}, loading)
    BY <1>4
  <2>2. r.about \in Nat /\ r.about <= issued /\ r.about \notin ended
    BY <1>2, <1>4 DEF useOAuthCallbackPage, RequestType, SessionsFit, SessionInv
  <2>3. next \in Tabs /\ next # "callback"
    BY GuardedTabs
  <2>4. issued' = issued /\ issued \in Nat /\ issued <= issued
    BY <1>2, QuietTypes, SessionTypes
  <2> QED
    BY <1>1, <1>2, <2>1, <2>2, <2>3, <2>4, GateKeeps, QuietTypes, SessionTypes
<1>5. \/ \E p \in Tabs : useAuthGate(p, session, requests \ {r}, loading)
      \/ r.here /\ \E next \in Guarded : useAuthGate(next, r.about, requests \ {r}, loading)
  BY <1>1, SessionTypes DEF useOAuthCallbackPage
<1> QED
  BY <1>3, <1>4, <1>5

LEMMA LeavingKeeps ==
  ASSUME SessionsFit,
         resetDone \/ (\E r \in requests : useLogout(r)) \/ \E t \in 1..MaxTokens : revoked(t)
  PROVE  SessionsFit'
<1>1. "login" \in Tabs /\ FALSE \in BOOLEAN
  BY DEF Tabs
<1>2. CASE resetDone
  <2>1. /\ useAuthGate("login", session, requests, loading)
        /\ timer' = FALSE /\ UNCHANGED <<unloading, valid, issued>>
    BY <1>2 DEF resetDone
  <2> QED
    BY <1>1, <2>1, GateEnds, SessionTypes
<1>3. ASSUME NEW r \in requests, useLogout(r) PROVE SessionsFit'
  <2>1. /\ useAuthGate("login", NoToken, requests \ {r}, settled(r))
        /\ valid' \subseteq valid /\ UNCHANGED <<timer, unloading, issued>>
    BY <1>3 DEF useLogout
  <2>2. settled(r) \subseteq Forms /\ requests \ {r} \subseteq requests /\ valid' \subseteq Nat
    BY <2>1, SessionTypes DEF settled
  <2> QED
    BY <1>1, <2>1, <2>2, GateEnds, SessionTypes
<1>4. ASSUME NEW t \in 1..MaxTokens, revoked(t) PROVE SessionsFit'
  <2>1. /\ valid' \subseteq valid
        /\ UNCHANGED <<session, tab, validated, requests, loading, timer, unloading, issued, ended>>
    BY <1>4 DEF revoked
  <2> QED
    BY <2>1, RestKeeps, SessionTypes
<1> QED
  BY <1>2, <1>3, <1>4

LEMMA SessionStep == SessionsFit /\ [SessionNext]_sessionVars => SessionsFit'
<1> SUFFICES ASSUME SessionsFit, [SessionNext]_sessionVars PROVE SessionsFit'
  OBVIOUS
<1>1. CASE UNCHANGED sessionVars
  BY <1>1 DEF sessionVars, SessionsFit, SessionTypeOK, SessionInv, EndedStaysEnded
<1>2. CASE readAuthSession \/ locationReplaced
  <2>1. "login" \in Tabs
    BY DEF Tabs
  <2> QED
    BY <1>2, <2>1, ReloadKeeps, SessionTypes DEF readAuthSession, locationReplaced
<1>3. ASSUME NEW r \in requests,
             \/ request(r) \/ me(r) \/ answered(r) \/ useLogin(r) \/ useSignup(r)
             \/ useOAuthCallbackPage(r) \/ requestPasswordReset(r) \/ resetPassword(r) \/ useLogout(r)
      PROVE  SessionsFit'
  BY <1>3, RefusedKeeps, AnsweredKeeps, SignedInKeeps, CallbackKeeps, LeavingKeeps, Zenon
  DEF useLogin, useSignup, requestPasswordReset
<1> QED
  BY <1>1, <1>2, <1>3, GateSteps, AskingKeeps, ProviderKeeps, LeavingKeeps, Zenon DEF SessionNext

(***************************************************************************)
(* A request that may still sign somebody in is about the session that is  *)
(* open, or about one that has not been open yet (AuthGate.tsx,            *)
(* use-oauth-callback-page.ts).                                            *)
(***************************************************************************)
THEOREM SessionInvariant == SessionSpec => [](SessionTypeOK /\ SessionInv /\ EndedStaysEnded)
<1>1. SessionInit => SessionsFit
  <2> SUFFICES ASSUME SessionInit PROVE SessionsFit
    OBVIOUS
  <2>1. session \in Nat /\ session <= 1 /\ issued = 1 /\ valid \subseteq Nat
    BY DEF SessionInit, NoToken
  <2>2. tab \in Tabs /\ NoToken \in Nat /\ FALSE \in BOOLEAN
    BY DEF SessionInit, Tabs, NoToken
  <2>3. /\ requests = {} /\ loading = {} /\ ended = {} /\ validated = NoToken
        /\ timer = FALSE /\ unloading = FALSE
    BY DEF SessionInit
  <2>4. SessionTypeOK
    BY <2>1, <2>2, <2>3, Zenon DEF SessionTypeOK
  <2> QED
    BY <2>1, <2>3, <2>4, SessionFacts
<1>2. SessionSpec => []SessionsFit
  BY <1>1, SessionStep, PTL DEF SessionSpec
<1> QED
  BY <1>2, PTL DEF SessionsFit

(***************************************************************************)
(* A session that ended, or that another one replaced, never comes back    *)
(* (auth-store.ts, AuthGate.tsx).                                          *)
(***************************************************************************)
THEOREM EndedStaysEndedAlways == SessionSpec => []EndedStaysEnded
BY SessionInvariant, PTL

------------------------------------------------------------------------------
(* ListPages: the tables. *)

LEMMA FilteredIsCounted ==
  ASSUME NEW rs, NEW f, NEW t
  PROVE  /\ Cardinality(Filtered(rs, f, t)) \in Nat
         /\ Filtered(rs, f, t) # {} => Cardinality(Filtered(rs, f, t)) > 0
<1>1. IsFiniteSet(Ids)
  BY FS_Interval, ListAssumption DEF Ids
<1>2. Filtered(rs, f, t) \subseteq Ids
  BY DEF Filtered
<1>3. IsFiniteSet(Filtered(rs, f, t))
  BY <1>1, <1>2, FS_Subset
<1>4. Cardinality(Filtered(rs, f, t)) \in Nat
  BY <1>3, FS_CardinalityType
<1> QED
  BY <1>3, <1>4, FS_EmptySet

\* The last page starts before the last row.
LEMMA LastPageHasRows ==
  ASSUME NEW n \in Nat, NEW size \in Nat \ {0}, NEW p \in Nat \ {0}
  PROVE  /\ AtLeast1((n + size - 1) \div size) \in Nat \ {0}
         /\ n > 0 /\ p <= AtLeast1((n + size - 1) \div size) => (p - 1) * size < n
<1> DEFINE m == n + size - 1
           q == m \div size
<1>1. m \in Nat
  OBVIOUS
<1> HIDE DEF m
<1>2. q \in Nat /\ q * size <= m
  BY <1>1
<1>3. q * size = 0 => q = 0
  BY <1>2
<1> HIDE DEF q
<1>4. AtLeast1(q) \in Nat \ {0}
  BY <1>2 DEF AtLeast1
<1>5. ASSUME n > 0, p <= AtLeast1(q) PROVE (p - 1) * size < n
  <2>1. CASE p = 1
    BY <1>5, <2>1
  <2>2. CASE p # 1
    <3>1. p <= q
      BY <1>2, <1>5, <2>2 DEF AtLeast1
    <3>2. p * size <= q * size
      BY <1>2, <3>1
    <3>3. (p - 1) * size = p * size - size
      OBVIOUS
    <3>4. p * size \in Nat /\ q * size \in Nat
      BY <1>2
    <3>5. p * size <= n + size - 1
      BY <1>2, <3>2, <3>4 DEF m
    <3> QED
      BY <3>3, <3>4, <3>5
  <2> QED
    BY <2>1, <2>2
<1> QED
  BY <1>4, <1>5 DEF q, m

LEMMA PageFacts ==
  ASSUME NEW rs, NEW f, NEW t, NEW p \in Nat \ {0}, NEW size \in PageSizes
  PROVE  /\ pageCount(rs, f, t, size) \in Nat \ {0}
         /\ pageSafe(rs, f, t, p, size) \in Nat \ {0}
         /\ Filtered(rs, f, t) # {} =>
              (pageSafe(rs, f, t, p, size) - 1) * size < Cardinality(Filtered(rs, f, t))
<1>1. size \in Nat \ {0}
  BY ListAssumption
<1> DEFINE n == Cardinality(Filtered(rs, f, t))
           safe == pageSafe(rs, f, t, p, size)
<1>2. n \in Nat /\ (Filtered(rs, f, t) # {} => n > 0)
  BY FilteredIsCounted
<1>3. pageCount(rs, f, t, size) = AtLeast1((n + size - 1) \div size)
  BY DEF pageCount
<1>4. safe = Least(p, pageCount(rs, f, t, size))
  BY DEF pageSafe
<1> HIDE DEF n, safe
<1>5. pageCount(rs, f, t, size) \in Nat \ {0}
  BY <1>1, <1>2, <1>3, LastPageHasRows
<1>6. safe \in Nat \ {0} /\ safe <= pageCount(rs, f, t, size)
  BY <1>4, <1>5 DEF Least
<1>7. Filtered(rs, f, t) # {} => (safe - 1) * size < n
  BY <1>1, <1>2, <1>3, <1>6, LastPageHasRows
<1> QED
  BY <1>5, <1>6, <1>7 DEF n, safe

\* The page that is shown has rows if a row passes the filter.
LEMMA ShownRows ==
  ASSUME ListTypeOK, Filtered(data, filter, text) # {}
  PROVE  shownRows > 0
<1> DEFINE n == Cardinality(Filtered(data, filter, text))
           start == (pageSafe(data, filter, text, pageNo, pageSize) - 1) * pageSize
<1>1. pageSize \in Nat \ {0} /\ pageNo \in Nat \ {0} /\ pageSize \in PageSizes
  BY ListAssumption DEF ListTypeOK
<1>2. n \in Nat
  BY FilteredIsCounted
<1>3. start \in Nat /\ start < n
  BY <1>1, PageFacts
<1>4. shownRows = IF n <= start THEN 0 ELSE Least(pageSize, n - start)
  BY DEF shownRows
<1> HIDE DEF n, start
<1> QED
  BY <1>1, <1>2, <1>3, <1>4 DEF Least

\* What the variables of the dialogs hold.
DialogTypes ==
  /\ items \subseteq Item
  /\ modalOpen \in BOOLEAN /\ editing \in Nat /\ draft \in Nat /\ saving \in BOOLEAN
  /\ confirmDeleteOpen \in BOOLEAN /\ selectedId \in Nat /\ deleting \in BOOLEAN
  /\ clicked \in Nat /\ calls \subseteq CallType /\ done \subseteq CallType
TableTypes ==
  /\ table \in {"flows", "runs", "items"} /\ data \in [Ids -> Owners \cup {"absent"}]
  /\ filter \in Owners \cup {"all"} /\ text \subseteq Ids
  /\ pageNo \in Nat \ {0} /\ pageSize \in PageSizes
ListFits == ListTypeOK /\ FilterHasRows /\ DialogsFollow

LEMMA DialogsRest ==
  ASSUME DialogTypes, DialogsFollow, UNCHANGED dialogVars
  PROVE  DialogTypes' /\ DialogsFollow'
BY DEF dialogVars, DialogTypes, DialogsFollow

LEMMA TableRests ==
  ASSUME TableTypes, FilterHasRows, UNCHANGED tableVars
  PROVE  TableTypes' /\ FilterHasRows'
BY DEF tableVars, TableTypes, FilterHasRows

LEMMA ListFitsParts == ListFits <=> TableTypes /\ FilterHasRows /\ DialogTypes /\ DialogsFollow
BY Zenon DEF ListFits, ListTypeOK, TableTypes, DialogTypes

\* What follows a change of a table: a filter of flows that no row passes is
\* taken away.
LEMMA CommitKeeps ==
  ASSUME TableTypes, FilterHasRows,
         NEW rs \in [Ids -> Owners \cup {"absent"}], NEW f \in Owners \cup {"all"},
         NEW t \in SUBSET Ids, NEW size \in PageSizes, NEW p \in Nat \ {0},
         Commit(rs, f, t, size, p)
  PROVE  TableTypes' /\ FilterHasRows' /\ UNCHANGED dialogVars
<1> DEFINE owner == useFlowsFilters(rs, f)
<1>1. /\ data' = rs /\ filter' = owner /\ text' = t /\ pageSize' = size
      /\ UNCHANGED <<table, dialogVars>>
      /\ pageNo' = IF owner # filter \/ t # text \/ size # pageSize THEN 1
                   ELSE IF table = "flows" THEN pageSafe(rs, owner, t, p, size) ELSE p
  BY Zenon DEF Commit
<1>2. owner \in Owners \cup {"all"}
  BY DEF useFlowsFilters
<1>3. table = "flows" => owner = "all" \/ \E r \in Ids : rs[r] = owner
  BY DEF useFlowsFilters
<1> HIDE DEF owner
<1>4. pageNo' \in Nat \ {0}
  <2>1. pageSafe(rs, owner, t, p, size) \in Nat \ {0}
    BY PageFacts
  <2>2. pageNo' \in {1, pageSafe(rs, owner, t, p, size), p}
    BY <1>1
  <2> QED
    BY <2>1, <2>2
<1> QED
  BY <1>1, <1>2, <1>3, <1>4 DEF TableTypes, FilterHasRows

LEMMA TableKeeps ==
  ASSUME TableTypes, FilterHasRows, refetched \/ setFilter \/ setPageSize \/ setPage
  PROVE  TableTypes' /\ FilterHasRows' /\ UNCHANGED dialogVars
<1>1. /\ data \in [Ids -> Owners \cup {"absent"}] /\ filter \in Owners \cup {"all"}
      /\ text \in SUBSET Ids /\ pageNo \in Nat \ {0} /\ pageSize \in PageSizes
  BY DEF TableTypes
<1>2. CASE refetched
  BY <1>1, <1>2, CommitKeeps DEF refetched
<1>3. CASE setFilter
  BY <1>1, <1>3, CommitKeeps DEF setFilter
<1>4. CASE setPageSize
  BY <1>1, <1>4, CommitKeeps DEF setPageSize
<1>5. CASE setPage
  <2>1. PICK p \in 1..pageCount(data, filter, text, pageSize) :
          Commit(data, filter, text, pageSize, p)
    BY <1>5 DEF setPage
  <2>2. p \in Nat \ {0}
    BY <1>1, PageFacts
  <2> QED
    BY <1>1, <2>1, <2>2, CommitKeeps
<1> QED
  BY <1>2, <1>3, <1>4, <1>5

------------------------------------------------------------------------------
(* ListPages: the dialogs. *)

\* Opening one: the other is not open.
LEMMA OpeningKeeps ==
  ASSUME DialogTypes, DialogsFollow,
         openCreate \/ \E i \in items : openEdit(i) \/ VariableItem(i)
  PROVE  DialogTypes' /\ DialogsFollow'
<1>1. New \in Nat /\ items \subseteq Nat \ {New}
  BY DEF DialogTypes, New, Item
<1>2. CASE openCreate
  BY <1>1, <1>2, Zenon DEF openCreate, Free, DialogTypes, DialogsFollow
<1>3. ASSUME NEW i \in items, openEdit(i) PROVE DialogTypes' /\ DialogsFollow'
  <2>1. i \in Nat
    BY <1>1
  <2> QED
    BY <1>3, <2>1, Zenon DEF openEdit, Free, DialogTypes, DialogsFollow
<1>4. ASSUME NEW i \in items, VariableItem(i) PROVE DialogTypes' /\ DialogsFollow'
  <2>1. i \in Nat /\ i # New
    BY <1>1
  <2> QED
    BY <1>4, <2>1, Zenon DEF VariableItem, Free, DialogTypes, DialogsFollow
<1> QED
  BY <1>2, <1>3, <1>4

LEMMA ClosingKeeps ==
  ASSUME DialogTypes, DialogsFollow, VariableModal \/ ConfirmDialog
  PROVE  DialogTypes' /\ DialogsFollow'
<1>1. CASE VariableModal
  BY <1>1, Zenon DEF VariableModal, DialogTypes, DialogsFollow
<1>2. CASE ConfirmDialog
  BY <1>2, Zenon DEF ConfirmDialog, DialogTypes, DialogsFollow
<1> QED
  BY <1>1, <1>2

LEMMA CallFacts ==
  ASSUME DialogTypes, NEW k \in {"save", "delete"}, NEW i \in Nat
  PROVE  /\ Call(k, i) \in CallType
         /\ Call(k, i).kind = k /\ Call(k, i).item = i
         /\ Call(k, i).draft = draft /\ Call(k, i).for = clicked
BY DEF Call, CallType, DialogTypes

LEMMA CallingKeeps ==
  ASSUME DialogTypes, DialogsFollow, onSave \/ onDelete
  PROVE  DialogTypes' /\ DialogsFollow'
<1>1. PICK c \in CallType : AsAsked(c) /\ calls' = calls \cup {c}
  <2>1. CASE onSave
    <3>1. editing \in Nat /\ editing = clicked /\ draft = clicked
      BY <2>1 DEF onSave, DialogTypes, DialogsFollow
    <3>2. Call("save", editing) \in CallType /\ AsAsked(Call("save", editing))
      BY <3>1, CallFacts DEF AsAsked
    <3> QED
      BY <2>1, <3>2 DEF onSave
  <2>2. CASE onDelete
    <3>1. selectedId \in Nat /\ selectedId = clicked
      BY <2>2 DEF onDelete, DialogTypes, DialogsFollow
    <3>2. Call("delete", selectedId) \in CallType /\ AsAsked(Call("delete", selectedId))
      BY <3>1, CallFacts DEF AsAsked
    <3> QED
      BY <2>2, <3>2 DEF onDelete
  <2> QED
    BY <2>1, <2>2
<1>2. UNCHANGED <<items, modalOpen, editing, draft, confirmDeleteOpen, selectedId, clicked, done>>
  BY DEF onSave, onDelete
<1>3. saving' \in BOOLEAN /\ deleting' \in BOOLEAN
  <2>1. saving' \in {saving, TRUE} /\ deleting' \in {deleting, TRUE}
    BY Zenon DEF onSave, onDelete
  <2>2. saving \in BOOLEAN /\ deleting \in BOOLEAN /\ TRUE \in BOOLEAN
    BY Zenon DEF DialogTypes
  <2> QED
    BY <2>1, <2>2
<1>4. \A d \in calls' \cup done' : AsAsked(d)
  BY <1>1, <1>2 DEF DialogsFollow
<1>5. calls' \subseteq CallType
  BY <1>1 DEF DialogTypes
<1> QED
  BY <1>2, <1>3, <1>4, <1>5, Zenon DEF DialogTypes, DialogsFollow

LEMMA AnswerKeeps ==
  ASSUME DialogTypes, DialogsFollow, NEW c \in calls, answers(c)
  PROVE  DialogTypes' /\ DialogsFollow'
<1>1. /\ calls' \subseteq calls /\ done' \subseteq done \cup {c}
      /\ UNCHANGED <<editing, draft, clicked>>
  BY DEF answers
<1>2. items' \subseteq Item
  <2>1. items' \subseteq items \cup Ids
    BY Zenon DEF answers
  <2>2. Ids \subseteq Item
    BY DEF Ids, Item, New
  <2> QED
    BY <2>1, <2>2 DEF DialogTypes
<1>3. PICK ok \in BOOLEAN : IF c.kind = "save" THEN saved(c, ok) ELSE deleted
  BY DEF answers
<1>4. /\ modalOpen' \in BOOLEAN /\ saving' \in BOOLEAN /\ confirmDeleteOpen' \in BOOLEAN
      /\ deleting' \in BOOLEAN /\ selectedId' \in Nat
      /\ modalOpen' => modalOpen
      /\ confirmDeleteOpen' => confirmDeleteOpen /\ selectedId' = selectedId
  <2>1. CASE saved(c, ok)
    <3>1. /\ saving' = FALSE /\ modalOpen' = (modalOpen /\ ~ok)
          /\ confirmDeleteOpen' = confirmDeleteOpen /\ selectedId' = selectedId
          /\ deleting' = deleting
      BY <2>1, Zenon DEF saved
    <3> QED
      BY <3>1, Zenon DEF DialogTypes
  <2>2. CASE deleted
    <3>1. /\ deleting' = FALSE /\ confirmDeleteOpen' = FALSE /\ selectedId' = New
          /\ modalOpen' = modalOpen /\ saving' = saving /\ New \in Nat
      BY <2>2 DEF deleted, New
    <3> QED
      BY <3>1, Zenon DEF DialogTypes
  <2> QED
    BY <1>3, <2>1, <2>2
<1>5. \A d \in calls' \cup done' : AsAsked(d) /\ d \in CallType
  BY <1>1 DEF DialogsFollow, DialogTypes
<1>6. editing' \in Nat /\ draft' \in Nat /\ clicked' \in Nat
  BY <1>1 DEF DialogTypes
<1>7. DialogTypes'
  BY <1>2, <1>4, <1>5, <1>6, Zenon DEF DialogTypes
<1> QED
  BY <1>1, <1>4, <1>5, <1>7, Zenon DEF DialogsFollow

LEMMA ListStep == ListFits /\ [ListNext]_listVars => ListFits'
<1> SUFFICES ASSUME ListFits, [ListNext]_listVars
             PROVE  (TableTypes /\ FilterHasRows /\ DialogTypes /\ DialogsFollow)'
  BY ListFitsParts, PTL
<1>1. TableTypes /\ FilterHasRows /\ DialogTypes /\ DialogsFollow
  BY ListFitsParts
<1>2. CASE UNCHANGED listVars
  BY <1>1, <1>2, TableRests, DialogsRest DEF listVars
<1>3. CASE refetched \/ setFilter \/ setPageSize \/ setPage
  BY <1>1, <1>3, TableKeeps, DialogsRest
<1>4. CASE /\ UNCHANGED tableVars
           /\ \/ openCreate \/ VariableModal \/ ConfirmDialog \/ onSave \/ onDelete
              \/ \E i \in items : openEdit(i) \/ VariableItem(i)
              \/ \E c \in calls : answers(c)
  BY <1>1, <1>4, TableRests, OpeningKeeps, ClosingKeeps, CallingKeeps, AnswerKeeps
<1> QED
  BY <1>2, <1>3, <1>4 DEF ListNext

(***************************************************************************)
(* The owner the flows are filtered by has some flow, and an open dialog   *)
(* holds the item of the click that opened it (use-flows-filters.ts,       *)
(* use-variables-page.ts).                                                 *)
(***************************************************************************)
THEOREM ListInvariant == ListSpec => [](ListTypeOK /\ FilterHasRows /\ DialogsFollow)
<1>1. ListInit => ListFits
  <2> SUFFICES ASSUME ListInit PROVE ListFits
    OBVIOUS
  <2>1. TableTypes
    BY DEF ListInit, TableTypes
  <2>2. FilterHasRows
    BY DEF ListInit, FilterHasRows
  <2>3. DialogTypes
    <3>1. New \in Nat /\ {1} \subseteq Item /\ FALSE \in BOOLEAN
      BY DEF New, Item
    <3> QED
      BY <3>1, Zenon DEF ListInit, DialogTypes
  <2>4. DialogsFollow
    BY DEF ListInit, DialogsFollow
  <2> QED
    BY <2>1, <2>2, <2>3, <2>4, ListFitsParts
<1>2. ListSpec => []ListFits
  BY <1>1, ListStep, PTL DEF ListSpec
<1> QED
  BY <1>2, PTL DEF ListFits

(***************************************************************************)
(* No table is empty although a row passes its filter, for any number of   *)
(* rows and sizes of a page; and no filter of an owner who has gone hides  *)
(* the flows (use-flows-page.ts, use-runs-page.ts).                        *)
(***************************************************************************)
THEOREM PageHasRowsAlways == ListSpec => []PageHasRows
<1>1. ListTypeOK /\ FilterHasRows /\ DialogsFollow => PageHasRows
  <2> SUFFICES ASSUME ListTypeOK, FilterHasRows PROVE PageHasRows
    OBVIOUS
  <2>1. ASSUME table = "flows", text = Ids, NEW r \in Ids, data[r] # "absent"
        PROVE  Filtered(data, filter, text) # {}
    <3>1. CASE filter = "all"
      BY <2>1, <3>1 DEF Filtered
    <3>2. CASE filter # "all"
      <4>1. PICK q \in Ids : data[q] = filter
        BY <2>1, <3>2 DEF FilterHasRows
      <4>2. data[q] # "absent"
        BY <3>2, <4>1, ListAssumption DEF ListTypeOK
      <4> QED
        BY <2>1, <4>1, <4>2 DEF Filtered
    <3> QED
      BY <3>1, <3>2
  <2> QED
    BY <2>1, ShownRows DEF PageHasRows
<1> QED
  BY <1>1, ListInvariant, PTL

(***************************************************************************)
(* What is stored or deleted is the item whose dialog the user had opened, *)
(* and the dialog that deletes has one (use-variables-page.ts,             *)
(* use-credentials-page.ts).                                               *)
(***************************************************************************)
THEOREM DialogsActAlways == ListSpec => []DialogsAct
<1>1. DialogsFollow => DialogsAct
  BY DEF DialogsFollow, DialogsAct, ItemsAsAsked, ConfirmActs
<1> QED
  BY <1>1, ListInvariant, PTL

------------------------------------------------------------------------------
(* Workspace: queries and requests. *)

AskedKinds == {"projects", "load", "members", "save", "createProject", "deleteProject", "create",
               "import", "duplicate", "copy", "archive", "delete", "rename", "reset"}

LEMMA ScopeFacts ==
  /\ Personal \in Scopes /\ Projects \subseteq Scopes
  /\ AnyFlow \in FlowType /\ [p \in Projects |-> "none"] \in [Projects -> Roles]
  /\ AnyFlow.told = Personal
BY DEF Scopes, AnyFlow, FlowType, Roles

LEMMA NewFlowFacts ==
  ASSUME NEW f \in Nat, NEW s \in Scopes
  PROVE  NewFlow(f, s) \in FlowType /\ NewFlow(f, s).told = s
BY DEF NewFlow, FlowType

\* A request that names a flow names its workspace.
ToldRight(t) == t.kind \in {"duplicate", "import", "copy"} => t.flow.told = t.scope

LEMMA AskedFacts ==
  ASSUME NEW k \in AskedKinds, NEW s \in Scopes, NEW f \in FlowType
  PROVE  /\ Asked(k, s, f) \in AskedType
         /\ Asked(k, s, f).kind = k /\ Asked(k, s, f).scope = s /\ Asked(k, s, f).flow = f
         /\ Asked(k, s, f).state = "sent"
BY ScopeFacts DEF Asked, AskedType, AskedKinds

LEMMA LoadProjectsFacts ==
  ASSUME NEW then \in {"nothing", "created", "deleted"}, NEW p \in Scopes
  PROVE  /\ LoadProjects(then, p) \in AskedType
         /\ LoadProjects(then, p).state = "sent" /\ LoadProjects(then, p).kind = "projects"
<1>1. /\ Asked("projects", p, AnyFlow) \in AskedType
      /\ Asked("projects", p, AnyFlow).kind = "projects"
      /\ Asked("projects", p, AnyFlow).state = "sent"
  BY AskedFacts, ScopeFacts DEF AskedKinds
<1> QED
  BY <1>1 DEF LoadProjects, AskedType

\* A query that has at most been marked, or is fetched again.
Fades(q, n) ==
  /\ n.data = q.data /\ (n.answer = q.answer \/ n.answer = NoList)
  /\ n.fresh => q.fresh
  /\ q.old => n.old
  /\ n.fetch = "read" => q.fetch = "read" /\ n.answer = q.answer /\ (q.behind => n.behind)

LEMMA FetchedFacts ==
  ASSUME NEW q \in QueryType
  PROVE  Fetched(q) \in QueryType /\ Fades(q, Fetched(q)) /\ Fetched(q).fresh = q.fresh
BY DEF Fetched, QueryType, Fades

LEMMA FadesTwice ==
  ASSUME NEW q, NEW n, NEW m, Fades(q, n), Fades(n, m)
  PROVE  Fades(q, m)
BY Zenon DEF Fades

LEMMA useFlowsQueryFacts ==
  ASSUME NEW qs \in [Scopes -> QueryType], NEW p, NEW s \in Scopes
  PROVE  /\ useFlowsQuery(qs, p, s) \in [Scopes -> QueryType]
         /\ \A k \in Scopes : Fades(qs[k], useFlowsQuery(qs, p, s)[k])
<1>1. \A k \in Scopes : Fades(qs[k], qs[k])
  BY Zenon DEF Fades
<1>2. Fetched(qs[s]) \in QueryType /\ Fades(qs[s], Fetched(qs[s]))
  BY FetchedFacts
<1> QED
  BY <1>1, <1>2 DEF useFlowsQuery

\* The requests of rs are there, and else only ones that have just been sent.
Same(r, t) == t.kind = r.kind /\ t.scope = r.scope /\ t.flow = r.flow /\ t.state = r.state
Stem(rs, ts) ==
  /\ ts \subseteq AskedType
  /\ \A t \in ts : (\E r \in rs : Same(r, t)) \/ (t.state = "sent" /\ ToldRight(t))
Stay(rs, ts) == \A r \in rs : \E t \in ts : Same(r, t)

LEMMA GoFacts ==
  ASSUME WorkspaceTypeOK, NEW p \in Pages, NEW s \in Scopes,
         NEW qs \in [Scopes -> QueryType], NEW rs, rs \subseteq AskedType, Go(p, s, qs, rs)
  PROVE  /\ view' \in Pages /\ active' \in Scopes /\ loaded' \in BOOLEAN
         /\ confirm' \in {NoDialog} \cup [type : {"archive", "delete"}, flow : FlowType]
         /\ lists' \in [Scopes -> QueryType] /\ \A k \in Scopes : Fades(qs[k], lists'[k])
         /\ Stem(rs, asked') /\ Stay(rs, asked')
<1> DEFINE Here(r) == [r EXCEPT !.here = @ /\ p = view]
<1>1. /\ view' = p /\ active' = s /\ lists' = useFlowsQuery(qs, p, s)
      /\ asked' = {Here(r) : r \in rs} \cup Sidebar(p) \cup ProjectSettings(p)
      /\ confirm' = IF p = view THEN confirm ELSE NoDialog
  BY DEF Go
<1>2. loaded' \in BOOLEAN
  BY Zenon DEF Go
<1>3. ASSUME NEW r \in AskedType PROVE Here(r) \in AskedType /\ Same(r, Here(r))
  <2> DEFINE h == r.here /\ p = view
  <2>1. h \in BOOLEAN
    BY Zenon
  <2>2. Here(r) = [r EXCEPT !.here = h]
    OBVIOUS
  <2> HIDE DEF h
  <2> QED
    BY <2>1, <2>2 DEF AskedType, Same
<1>4. \A t \in Sidebar(p) : t \in AskedType /\ t.state = "sent" /\ ToldRight(t)
  BY LoadProjectsFacts, ScopeFacts DEF Sidebar, ToldRight
<1>5. \A t \in ProjectSettings(p) : t \in AskedType /\ t.state = "sent" /\ ToldRight(t)
  <2>1. CASE p \in Projects
    <3>1. "load" \in AskedKinds /\ p \in Scopes
      BY <2>1, ScopeFacts DEF AskedKinds
    <3> QED
      BY <3>1, AskedFacts, ScopeFacts DEF ProjectSettings, ToldRight
  <2>2. CASE p \notin Projects
    BY <2>2 DEF ProjectSettings
  <2> QED
    BY <2>1, <2>2
<1> HIDE DEF Here
<1>6. Stem(rs, asked') /\ Stay(rs, asked')
  BY <1>1, <1>3, <1>4, <1>5 DEF Stem, Stay
<1>7. lists' \in [Scopes -> QueryType] /\ \A k \in Scopes : Fades(qs[k], lists'[k])
  BY <1>1, useFlowsQueryFacts
<1>8. confirm' \in {NoDialog} \cup [type : {"archive", "delete"}, flow : FlowType]
  BY <1>1 DEF WorkspaceTypeOK
<1> QED
  BY <1>1, <1>2, <1>6, <1>7, <1>8

WorkspaceFits == WorkspaceTypeOK /\ ToldInv /\ QueryInv

\* A change that has been served and is not answered yet.
Changes(r, s) == r.state = "served" /\ changes(r) /\ (r.kind = "reset" \/ r.scope = s)

LEMMA ChangingFacts == \A s : Changing(s) <=> \E r \in asked : Changes(r, s)
BY DEF Changing, Changes

LEMMA SameChanges ==
  ASSUME NEW r, NEW t, Same(r, t), NEW s
  PROVE  (Changes(r, s) <=> Changes(t, s)) /\ (ToldRight(r) <=> ToldRight(t))
BY DEF Same, Changes, changes, ToldRight

\* A step that changes no flows, and no list of them but marks it, or lets it
\* be fetched again; an answer to a change that goes has marked it.
LEMMA FlowsRest ==
  ASSUME WorkspaceFits, flows' = flows,
         \A k \in Scopes : Fades(lists[k], lists'[k]),
         \A t \in asked' : ToldRight(t),
         \A k \in Scopes : \/ lists'[k].old \/ ~lists'[k].fresh
                           \/ \A r \in asked : Changes(r, k) => \E t \in asked' : Changes(t, k)
  PROVE  ToldInv' /\ QueryInv'
<1>1. ToldInv /\ QueryInv
  BY DEF WorkspaceFits
<1>2. ToldInv'
  BY <1>1 DEF ToldInv, ToldHere, ToldRight, Fades
<1>3. ASSUME NEW k \in Scopes PROVE Current(k)'
  <2>1. Current(k) /\ Fades(lists[k], lists'[k])
    BY <1>1 DEF QueryInv
  <2>2. ASSUME lists'[k].fresh, ~lists'[k].old, ~(\E t \in asked' : Changes(t, k))
        PROVE  lists'[k].data = flows'[k]
    <3>1. ~Changing(k)
      BY <2>2, ChangingFacts
    <3>2. lists[k].fresh /\ ~lists[k].old
      BY <2>1, <2>2 DEF Fades
    <3> QED
      BY <2>1, <3>1, <3>2 DEF Current, Fades
  <2>3. ASSUME lists'[k].fetch = "read", ~lists'[k].behind
        PROVE  lists'[k].answer = flows'[k]
    BY <2>1, <2>3 DEF Current, Fades
  <2>4. Changing(k)' <=> \E t \in asked' : Changes(t, k)
    BY DEF Changing, Changes, changes
  <2> QED
    BY <2>2, <2>3, <2>4 DEF Current
<1> QED
  BY <1>2, <1>3 DEF QueryInv

LEMMA FadesSelf == \A q : Fades(q, q)
BY Zenon DEF Fades

\* A step that goes somewhere, without any request but r, which is no change
\* that was served.
LEMMA GoKeeps ==
  ASSUME WorkspaceFits, NEW p \in Pages, NEW s \in Scopes, NEW rs, rs \subseteq AskedType,
         Go(p, s, lists, rs), flows' = flows,
         \A r \in rs : r \in asked \/ (r.state = "sent" /\ ToldRight(r)),
         \A r \in asked : r \in rs \/ ~(r.state = "served" /\ changes(r)),
         roles' \in [Projects -> Roles], projects' \in [Projects -> Roles],
         form' \in [scope : {"personal", "project"}, project : Scopes],
         visited' \in Nat, sent' \in Nat
  PROVE  WorkspaceFits'
<1>1. WorkspaceTypeOK /\ lists \in [Scopes -> QueryType] /\ flows \in [Scopes -> SUBSET FlowType]
      /\ \A r \in asked : ToldRight(r)
  BY DEF WorkspaceFits, WorkspaceTypeOK, ToldInv, ToldRight
<1>2. /\ view' \in Pages /\ active' \in Scopes /\ loaded' \in BOOLEAN
      /\ confirm' \in {NoDialog} \cup [type : {"archive", "delete"}, flow : FlowType]
      /\ lists' \in [Scopes -> QueryType] /\ \A k \in Scopes : Fades(lists[k], lists'[k])
      /\ Stem(rs, asked') /\ Stay(rs, asked')
  BY <1>1, GoFacts
<1>3. \A t \in asked' : ToldRight(t)
  BY <1>1, <1>2, SameChanges DEF Stem
<1>4. ASSUME NEW k \in Scopes, NEW r \in asked, Changes(r, k)
      PROVE  \E t \in asked' : Changes(t, k)
  <2>1. r \in rs
    BY <1>4 DEF Changes
  <2>2. PICK t \in asked' : Same(r, t)
    BY <1>2, <2>1 DEF Stay
  <2> QED
    BY <1>4, <2>2, SameChanges
<1>5. ToldInv' /\ QueryInv'
  BY <1>2, <1>3, <1>4, FlowsRest
<1>6. WorkspaceTypeOK'
  BY <1>1, <1>2 DEF WorkspaceTypeOK, Stem
<1> QED
  BY <1>5, <1>6 DEF WorkspaceFits

------------------------------------------------------------------------------
(* Workspace: the user's steps. *)

FormType == [scope : {"personal", "project"}, project : Scopes]

LEMMA WorkspaceTypes ==
  ASSUME WorkspaceFits
  PROVE  /\ roles \in [Projects -> Roles] /\ projects \in [Projects -> Roles]
         /\ flows \in [Scopes -> SUBSET FlowType] /\ lists \in [Scopes -> QueryType]
         /\ active \in Scopes /\ view \in Pages /\ loaded \in BOOLEAN /\ form \in FormType
         /\ confirm \in {NoDialog} \cup [type : {"archive", "delete"}, flow : FlowType]
         /\ asked \subseteq AskedType /\ visited \in Nat /\ sent \in Nat
         /\ \A r \in asked : ToldRight(r)
BY DEF WorkspaceFits, WorkspaceTypeOK, ToldInv, ToldRight, FormType

LEMMA PageKinds ==
  /\ Projects \subseteq Pages
  /\ "flows" \in Pages /\ "new" \in Pages /\ "settings" \in Pages /\ "builder" \in Pages
BY DEF Pages

LEMMA LeaveKeeps ==
  ASSUME WorkspaceFits, NEW p \in Pages, NEW s \in Scopes, Leave(p, s), form' \in FormType
  PROVE  WorkspaceFits'
<1>1. /\ Go(p, s, lists, asked) /\ visited' = visited + 1
      /\ UNCHANGED <<roles, flows, projects, sent>>
  BY DEF Leave
<1>2. /\ roles \in [Projects -> Roles] /\ projects \in [Projects -> Roles]
      /\ asked \subseteq AskedType /\ visited \in Nat /\ sent \in Nat
  BY WorkspaceTypes
<1> QED
  BY <1>1, <1>2, GoKeeps DEF FormType

\* A request is sent.
LEMMA SentKeeps ==
  ASSUME WorkspaceFits, NEW r \in AskedType, r.state = "sent", ToldRight(r), Sent(r)
  PROVE  WorkspaceFits'
<1>1. /\ asked' = asked \cup {r} /\ sent' = sent + 1
      /\ UNCHANGED <<roles, flows, active, projects, lists, view, loaded, form, confirm, visited>>
  BY DEF Sent
<1>2. \A t \in asked' : ToldRight(t)
  BY <1>1, WorkspaceTypes
<1>3. \A k \in Scopes : Fades(lists[k], lists'[k])
  BY <1>1, FadesSelf
<1>4. ToldInv' /\ QueryInv'
  BY <1>1, <1>2, <1>3, FlowsRest
<1>5. WorkspaceTypeOK'
  BY <1>1, WorkspaceTypes DEF WorkspaceTypeOK, FormType
<1> QED
  BY <1>4, <1>5 DEF WorkspaceFits

LEMMA AskingSent ==
  ASSUME WorkspaceFits, NEW k \in AskedKinds, NEW s \in Scopes, NEW f \in FlowType,
         k \in {"duplicate", "import", "copy"} => f.told = s, Sent(Asked(k, s, f))
  PROVE  WorkspaceFits'
BY AskedFacts, SentKeeps DEF ToldRight

\* Only the form or the dialog changes.
LEMMA FormKeeps ==
  ASSUME WorkspaceFits, form' \in FormType,
         confirm' \in {NoDialog} \cup [type : {"archive", "delete"}, flow : FlowType],
         UNCHANGED <<bounded, roles, flows, active, projects, lists, view, loaded, asked>>
  PROVE  WorkspaceFits'
<1>1. \A k \in Scopes : Fades(lists[k], lists'[k])
  BY FadesSelf
<1>2. \A t \in asked' : ToldRight(t)
  BY WorkspaceTypes
<1>3. ToldInv' /\ QueryInv'
  BY <1>1, <1>2, FlowsRest
<1>4. WorkspaceTypeOK'
  BY WorkspaceTypes DEF WorkspaceTypeOK, FormType, bounded
<1> QED
  BY <1>3, <1>4 DEF WorkspaceFits

\* The only project there is can be chosen.
LEMMA FormEffectsFacts ==
  ASSUME NEW f \in FormType, NEW ps
  PROVE  FormEffects(f, ps) \in FormType
<1>1. ASSUME NEW g \in FormType PROVE FormEffect(g, ps) \in FormType
  <2> DEFINE only == CHOOSE p \in Listed(ps) : TRUE
  <2>1. Cardinality(Listed(ps)) = 1 => only \in Scopes
    <3>1. Cardinality({}) = 0
      BY FS_EmptySet
    <3>2. Cardinality(Listed(ps)) = 1 => Listed(ps) # {}
      BY <3>1
    <3>3. Listed(ps) \subseteq Scopes
      BY DEF Listed, Scopes
    <3> QED
      BY <3>2, <3>3
  <2> HIDE DEF only
  <2>2. FormEffect(g, ps) = IF g.scope # "project" \/ g.project \in Listed(ps) THEN g
                            ELSE [g EXCEPT !.project = IF @ = Personal /\ Cardinality(Listed(ps)) = 1
                                                       THEN only ELSE Personal]
    BY DEF FormEffect, only
  <2> DEFINE one == Cardinality(Listed(ps)) = 1
  <2> HIDE DEF one
  <2> QED
    BY <2>1, <2>2, ScopeFacts DEF FormType, one
<1> QED
  BY <1>1 DEF FormEffects

LEMMA GoingKeeps ==
  ASSUME WorkspaceFits,
         \/ SidebarWorkspaces \/ SidebarNav \/ onRowOpen \/ leaveBuilder
         \/ onCreatePersonal \/ onCreateProject \/ NewFlowPage \/ setConfirm
  PROVE  WorkspaceFits'
<1>1. active \in Scopes /\ form \in FormType
  BY WorkspaceTypes
<1>2. CASE SidebarWorkspaces
  <2>1. form' = form /\ \E p \in Pages, s \in Scopes : Leave(p, s)
    BY <1>1, <1>2, PageKinds, ScopeFacts DEF SidebarWorkspaces, Listed
  <2> QED
    BY <1>1, <2>1, LeaveKeeps
<1>3. CASE SidebarNav \/ onRowOpen \/ leaveBuilder
  <2>1. form' = form /\ \E p \in Pages : Leave(p, active)
    BY <1>3, PageKinds DEF SidebarNav, onRowOpen, leaveBuilder
  <2> QED
    BY <1>1, <2>1, LeaveKeeps
<1>4. CASE onCreatePersonal
  <2>1. PersonalForm \in FormType
    BY ScopeFacts DEF PersonalForm, FormType
  <2> QED
    BY <1>1, <1>4, <2>1, LeaveKeeps, PageKinds DEF onCreatePersonal
<1>5. CASE onCreateProject
  <2>1. [scope |-> "project", project |-> active] \in FormType
    BY <1>1 DEF FormType
  <2>2. form' \in FormType
    BY <1>5, <2>1, FormEffectsFacts DEF onCreateProject
  <2> QED
    BY <1>1, <1>5, <2>2, LeaveKeeps, PageKinds DEF onCreateProject
<1>6. CASE NewFlowPage
  <2>1. form' \in FormType
    <3>1. form.project \in Scopes /\ Listed(projects) \subseteq Scopes
      BY <1>1, ScopeFacts DEF FormType, Listed
    <3> QED
      BY <1>6, <3>1 DEF NewFlowPage, FormType
  <2>2. /\ confirm' = confirm
        /\ UNCHANGED <<bounded, roles, flows, active, projects, lists, view, loaded, asked>>
    BY <1>6 DEF NewFlowPage
  <2> QED
    BY <2>1, <2>2, FormKeeps, WorkspaceTypes
<1>7. CASE setConfirm
  <2>1. /\ confirm' = NoDialog /\ form' = form
        /\ UNCHANGED <<bounded, roles, flows, active, projects, lists, view, loaded, asked>>
    BY <1>7 DEF setConfirm
  <2> QED
    BY <1>1, <2>1, FormKeeps
<1> QED
  BY <1>2, <1>3, <1>4, <1>5, <1>6, <1>7

\* What the list shows is in the workspace that is open.
LEMMA listedFacts ==
  ASSUME WorkspaceFits, NEW f \in listed
  PROVE  f \in FlowType /\ f.told = active
<1>0. active \in Scopes /\ lists \in [Scopes -> QueryType] /\ ToldInv
  BY WorkspaceTypes DEF WorkspaceFits
<1>1. lists[active] \in QueryType /\ ToldHere(lists[active].data, active)
  <2>1. lists[active] \in QueryType
    BY <1>0
  <2> QED
    BY <1>0, <2>1, Zenon DEF ToldInv
<1>2. lists[active].data # NoList /\ f \in lists[active].data
  BY DEF listed
<1> QED
  BY <1>1, <1>2 DEF ToldHere, QueryType

LEMMA AskingWorkspaceKeeps ==
  ASSUME WorkspaceFits,
         \/ (\E p \in Projects : CreateProjectModal(p)) \/ saveProject \/ onDeleteProject
         \/ handleCreate \/ onImportFile \/ FlowRowMenu \/ onConfirm
         \/ useBuilderSave \/ useResetWorkspace
  PROVE  WorkspaceFits'
<1>1. active \in Scopes /\ form \in FormType
  BY WorkspaceTypes
<1>2. CASE (\E p \in Projects : CreateProjectModal(p)) \/ saveProject \/ onDeleteProject
           \/ useResetWorkspace
  <2>1. PICK k \in AskedKinds, s \in Scopes :
          k \notin {"duplicate", "import", "copy"} /\ Sent(Asked(k, s, AnyFlow))
    BY <1>2, ScopeFacts
    DEF CreateProjectModal, saveProject, onDeleteProject, useResetWorkspace, AskedKinds
  <2> QED
    BY <2>1, AskingSent, ScopeFacts
<1>3. CASE handleCreate
  <2>1. PICK s \in Scopes : Sent(Asked("create", s, AnyFlow))
    BY <1>1, <1>3, ScopeFacts DEF handleCreate, FormType
  <2>2. "create" \in AskedKinds /\ "create" \notin {"duplicate", "import", "copy"}
    BY DEF AskedKinds
  <2> QED
    BY <2>1, <2>2, AskingSent, ScopeFacts
<1>4. CASE onImportFile
  <2> DEFINE f == [AnyFlow EXCEPT !.told = active]
  <2>1. f \in FlowType /\ f.told = active
    BY <1>1, ScopeFacts DEF FlowType
  <2>2. "import" \in AskedKinds /\ Sent(Asked("import", active, f))
    BY <1>4 DEF AskedKinds, onImportFile
  <2> HIDE DEF f
  <2> QED
    BY <1>1, <2>1, <2>2, AskingSent
<1>5. CASE FlowRowMenu
  <2>1. PICK f \in listed :
          \/ Sent(Asked("duplicate", active, f))
          \/ \E type \in {"archive", "delete"} :
               /\ confirm' = [type |-> type, flow |-> f]
               /\ UNCHANGED <<roles, flows, active, projects, lists, view, loaded, form, asked, bounded>>
    BY <1>5, Zenon DEF FlowRowMenu
  <2>2. f \in FlowType /\ f.told = active
    BY listedFacts
  <2>3. CASE Sent(Asked("duplicate", active, f))
    <3>1. "duplicate" \in AskedKinds
      BY DEF AskedKinds
    <3> QED
      BY <1>1, <2>2, <2>3, <3>1, AskingSent
  <2>4. ASSUME NEW type \in {"archive", "delete"}, confirm' = [type |-> type, flow |-> f],
               UNCHANGED <<roles, flows, active, projects, lists, view, loaded, form, asked, bounded>>
        PROVE  WorkspaceFits'
    BY <1>1, <2>2, <2>4, FormKeeps
  <2> QED
    BY <2>1, <2>3, <2>4
<1>6. CASE onConfirm
  <2>1. confirm \in [type : {"archive", "delete"}, flow : FlowType]
    BY <1>6, WorkspaceTypes DEF onConfirm
  <2>2. /\ confirm.type \in AskedKinds /\ confirm.type \notin {"duplicate", "import", "copy"}
        /\ confirm.flow \in FlowType /\ confirm.flow.told \in Scopes
    BY <2>1 DEF AskedKinds, FlowType
  <2> QED
    BY <1>6, <2>2, AskingSent DEF onConfirm
<1>7. CASE useBuilderSave
  <2>1. PICK s \in Scopes : \E f \in flows[s] : Sent(Asked("rename", s, f))
    BY <1>7 DEF useBuilderSave
  <2>2. flows[s] \subseteq FlowType
    BY WorkspaceTypes
  <2>3. "rename" \in AskedKinds /\ "rename" \notin {"duplicate", "import", "copy"}
    BY DEF AskedKinds
  <2> QED
    BY <2>1, <2>2, <2>3, AskingSent
<1> QED
  BY <1>2, <1>3, <1>4, <1>5, <1>6, <1>7

------------------------------------------------------------------------------
(* Workspace: the lists. *)

\* One list changes.
LEMMA ListKeeps ==
  ASSUME WorkspaceFits, NEW s \in Scopes, NEW n \in QueryType,
         lists' = [lists EXCEPT ![s] = n], queryOnly, visited' \in Nat, sent' \in Nat,
         ToldHere(n.data, s), ToldHere(n.answer, s),
         n.fresh /\ ~n.old /\ ~Changing(s) => n.data = flows[s],
         n.fetch = "read" /\ ~n.behind => n.answer = flows[s]
  PROVE  WorkspaceFits'
<1>1. /\ roles' = roles /\ flows' = flows /\ active' = active /\ projects' = projects
      /\ view' = view /\ loaded' = loaded /\ form' = form /\ confirm' = confirm
      /\ asked' = asked
  BY DEF queryOnly
<1>2. lists' \in [Scopes -> QueryType] /\ lists'[s] = n /\ \A k \in Scopes \ {s} : lists'[k] = lists[k]
  BY WorkspaceTypes
<1>3. WorkspaceTypeOK'
  BY <1>1, <1>2, WorkspaceTypes DEF WorkspaceTypeOK, FormType
<1>4. ToldInv'
  BY <1>1, <1>2 DEF WorkspaceFits, ToldInv, ToldHere
<1>5. ASSUME NEW k \in Scopes PROVE Current(k)'
  <2>1. Changing(k)' <=> Changing(k)
    BY <1>1 DEF Changing, changes
  <2>2. CASE k = s
    BY <1>1, <1>2, <2>1, <2>2 DEF Current
  <2>3. CASE k # s
    <3>1. Current(k)
      BY DEF WorkspaceFits, QueryInv
    <3>2. lists'[k] = lists[k]
      BY <1>2, <2>3
    <3> QED
      BY <1>1, <2>1, <3>1, <3>2 DEF Current
  <2> QED
    BY <2>2, <2>3
<1> QED
  BY <1>3, <1>4, <1>5 DEF WorkspaceFits, QueryInv

LEMMA ListFacts ==
  ASSUME WorkspaceFits, NEW s \in Scopes
  PROVE  /\ lists[s] \in QueryType /\ flows[s] \in SUBSET FlowType
         /\ ToldHere(lists[s].data, s) /\ ToldHere(lists[s].answer, s) /\ ToldHere(flows[s], s)
         /\ lists[s].fresh /\ ~lists[s].old /\ ~Changing(s) => lists[s].data = flows[s]
         /\ lists[s].fetch = "read" /\ ~lists[s].behind => lists[s].answer = flows[s]
<1>1. lists \in [Scopes -> QueryType] /\ flows \in [Scopes -> SUBSET FlowType]
  BY WorkspaceTypes
<1>2. ToldInv /\ Current(s)
  BY DEF WorkspaceFits, QueryInv
<1>3. lists[s] \in QueryType /\ flows[s] \in SUBSET FlowType
  BY <1>1
<1>4. ToldHere(lists[s].data, s) /\ ToldHere(lists[s].answer, s) /\ ToldHere(flows[s], s)
  BY <1>2, Zenon DEF ToldInv, ToldHere
<1>5. /\ lists[s].fresh /\ ~lists[s].old /\ ~Changing(s) => lists[s].data = flows[s]
      /\ lists[s].fetch = "read" /\ ~lists[s].behind => lists[s].answer = flows[s]
  BY <1>2, Zenon DEF Current
<1> QED
  BY <1>3, <1>4, <1>5

LEMMA onReloadKeeps ==
  ASSUME WorkspaceFits, onReload
  PROVE  WorkspaceFits'
<1> DEFINE n == Fetched(lists[active])
<1>1. active \in Scopes /\ lists \in [Scopes -> QueryType] /\ visited \in Nat /\ sent \in Nat
  BY WorkspaceTypes
<1>2. n \in QueryType /\ Fades(lists[active], n) /\ n.fetch = "sent" /\ n.answer = NoList
  BY <1>1, FetchedFacts DEF Fetched, QueryType
<1>3. /\ lists' = [lists EXCEPT ![active] = n] /\ queryOnly
      /\ sent' = sent + 1 /\ visited' = visited
  BY DEF onReload
<1> HIDE DEF n
<1>4. /\ ToldHere(n.data, active) /\ ToldHere(n.answer, active)
      /\ n.fresh /\ ~n.old /\ ~Changing(active) => n.data = flows[active]
  BY <1>1, <1>2, ListFacts DEF Fades, ToldHere
<1>5. visited' \in Nat /\ sent' \in Nat /\ n.fetch # "read"
  BY <1>1, <1>2, <1>3
<1> QED
  BY <1>1, <1>2, <1>3, <1>4, <1>5, ListKeeps

LEMMA agesKeeps ==
  ASSUME WorkspaceFits, NEW s \in Scopes, ages(s)
  PROVE  WorkspaceFits'
<1> DEFINE n == [lists[s] EXCEPT !.fresh = FALSE]
<1>1. lists[s] \in QueryType /\ visited \in Nat /\ sent \in Nat
  BY WorkspaceTypes
<1>2. /\ n \in QueryType /\ n.data = lists[s].data /\ n.answer = lists[s].answer /\ n.fresh = FALSE
      /\ n.fetch = lists[s].fetch /\ n.behind = lists[s].behind
  BY <1>1 DEF QueryType
<1>3. /\ lists' = [lists EXCEPT ![s] = n] /\ queryOnly
      /\ visited' = visited + 1 /\ sent' = sent
  BY DEF ages
<1> HIDE DEF n
<1>4. /\ ToldHere(n.data, s) /\ ToldHere(n.answer, s)
      /\ n.fetch = "read" /\ ~n.behind => n.answer = flows[s]
  BY <1>2, ListFacts
<1>5. visited' \in Nat /\ sent' \in Nat
  BY <1>1, <1>3
<1>6. n.fresh /\ ~n.old /\ ~Changing(s) => n.data = flows[s]
  BY <1>2, Zenon
<1> QED
  BY <1>2, <1>3, <1>4, <1>5, <1>6, ListKeeps

LEMMA fetchServedKeeps ==
  ASSUME WorkspaceFits, NEW s \in Scopes, fetchServed(s)
  PROVE  WorkspaceFits'
<1> DEFINE n == [lists[s] EXCEPT !.fetch = "read", !.answer = flows[s]]
<1>1. lists[s] \in QueryType /\ flows[s] \in SUBSET FlowType /\ visited \in Nat /\ sent \in Nat
      /\ lists \in [Scopes -> QueryType]
  BY WorkspaceTypes
<1>2. /\ n \in QueryType /\ n.data = lists[s].data /\ n.answer = flows[s] /\ n.fresh = lists[s].fresh
      /\ n.old = lists[s].old
  BY <1>1 DEF QueryType
<1>3. /\ lists' = [lists EXCEPT ![s] = n] /\ queryOnly
      /\ visited' = visited /\ sent' = sent
  BY <1>1 DEF fetchServed, bounded
<1> HIDE DEF n
<1>4. /\ ToldHere(n.data, s) /\ ToldHere(n.answer, s)
      /\ n.fresh /\ ~n.old /\ ~Changing(s) => n.data = flows[s]
  BY <1>2, ListFacts
<1> QED
  BY <1>1, <1>2, <1>3, <1>4, ListKeeps

LEMMA fetchAnsweredKeeps ==
  ASSUME WorkspaceFits, NEW s \in Scopes, fetchAnswered(s)
  PROVE  WorkspaceFits'
<1>1. lists[s] \in QueryType /\ visited \in Nat /\ sent \in Nat
  BY WorkspaceTypes
<1>2. queryOnly /\ visited' = visited /\ sent' = sent /\ lists[s].fetch # "idle"
  BY DEF fetchAnswered, bounded
<1>3. CASE lists[s].fetch = "sent"
  <2> DEFINE n == [lists[s] EXCEPT !.fetch = "idle"]
  <2>1. /\ n \in QueryType /\ n.data = lists[s].data /\ n.answer = lists[s].answer /\ n.fetch = "idle"
        /\ n.fresh = lists[s].fresh /\ n.old = lists[s].old
    BY <1>1 DEF QueryType
  <2>2. lists' = [lists EXCEPT ![s] = n]
    BY <1>3 DEF fetchAnswered
  <2> HIDE DEF n
  <2>3. /\ ToldHere(n.data, s) /\ ToldHere(n.answer, s)
        /\ n.fresh /\ ~n.old /\ ~Changing(s) => n.data = flows[s]
    BY <2>1, ListFacts
  <2> QED
    BY <1>1, <1>2, <2>1, <2>2, <2>3, ListKeeps
<1>4. CASE lists[s].fetch = "read"
  <2> DEFINE n == [data |-> lists[s].answer, fetch |-> "idle", answer |-> NoList, fresh |-> TRUE,
                   old |-> lists[s].behind, behind |-> FALSE]
  <2>1. /\ n \in QueryType /\ n.data = lists[s].answer /\ n.answer = NoList /\ n.fetch = "idle"
        /\ n.old = lists[s].behind
    BY <1>1 DEF QueryType
  <2>2. lists' = [lists EXCEPT ![s] = n]
    BY <1>4 DEF fetchAnswered
  <2> HIDE DEF n
  <2>3. /\ ToldHere(n.data, s) /\ ToldHere(n.answer, s)
        /\ n.fresh /\ ~n.old /\ ~Changing(s) => n.data = flows[s]
    BY <1>4, <2>1, ListFacts DEF ToldHere
  <2> QED
    BY <1>1, <1>2, <2>1, <2>2, <2>3, ListKeeps
<1> QED
  BY <1>1, <1>2, <1>3, <1>4 DEF QueryType

------------------------------------------------------------------------------
(* Workspace: the answers, and what the code does after them. *)

LEMMA AskedFields ==
  ASSUME NEW r \in AskedType
  PROVE  /\ r.kind \in AskedKinds /\ r.scope \in Scopes /\ r.flow \in FlowType
         /\ r.then \in {"nothing", "created", "deleted"} /\ r.state \in {"sent", "served"}
         /\ r.answer \in [Projects -> Roles]
<1>1. r.kind \in AskedKinds
  BY DEF AskedType, AskedKinds
<1>2. r.scope \in Scopes /\ r.flow \in FlowType
  BY DEF AskedType
<1>3. r.then \in {"nothing", "created", "deleted"} /\ r.state \in {"sent", "served"}
  BY DEF AskedType
<1>4. r.answer \in [Projects -> Roles]
  BY DEF AskedType
<1> QED
  BY <1>1, <1>2, <1>3, <1>4

LEMMA loadProjectsKeeps ==
  ASSUME WorkspaceFits, NEW r \in asked, loadProjects(r)
  PROVE  WorkspaceFits'
<1> DEFINE kept == IF active \in Listed(r.answer) THEN active ELSE Personal
<1>1. /\ r \in AskedType /\ asked \subseteq AskedType /\ form \in FormType /\ active \in Scopes
      /\ view \in Pages /\ roles \in [Projects -> Roles] /\ visited \in Nat /\ sent \in Nat
      /\ \A t \in asked : ToldRight(t)
  BY WorkspaceTypes
<1>2. /\ r.kind = "projects" /\ projects' = r.answer /\ roles' = roles /\ flows' = flows
      /\ visited' = visited /\ sent' = sent
      /\ form' = IF view = "new" THEN FormEffects(form, r.answer) ELSE form
  BY DEF loadProjects, bounded
<1>3. form' \in FormType /\ projects' \in [Projects -> Roles]
  BY <1>1, <1>2, FormEffectsFacts, AskedFields
<1>4. kept \in Scopes
  BY <1>1, ScopeFacts
<1>5. \/ Go("flows", r.scope, lists, asked \ {r})
      \/ Go("flows", Personal, lists, asked \ {r})
      \/ Go(view, kept, lists, asked \ {r})
  BY Zenon DEF loadProjects
<1> HIDE DEF kept
<1>6. \E p \in Pages, s \in Scopes : Go(p, s, lists, asked \ {r})
  <2>1. r.scope \in Scopes /\ Personal \in Scopes /\ "flows" \in Pages
    BY <1>1, AskedFields, PageKinds, ScopeFacts
  <2> QED
    BY <1>1, <1>4, <1>5, <2>1
<1>7. ~(r.state = "served" /\ changes(r))
  BY <1>2 DEF changes
<1> QED
  BY <1>1, <1>2, <1>3, <1>6, <1>7, GoKeeps DEF FormType

\* An answer that is no change of flows leads to one more request.
LEMMA NextRequestKeeps ==
  ASSUME WorkspaceFits, NEW r \in asked, ~changes(r), NEW p \in Pages, NEW s \in Scopes,
         NEW n \in AskedType, n.state = "sent", ToldRight(n),
         \/ Go(p, s, lists, (asked \ {r}) \cup {n})
         \/ Go(p, s, lists, asked \ {r}),
         UNCHANGED <<roles, flows, projects, form, bounded>>
  PROVE  WorkspaceFits'
<1>1. /\ asked \subseteq AskedType /\ form \in FormType /\ roles \in [Projects -> Roles]
      /\ projects \in [Projects -> Roles] /\ visited \in Nat /\ sent \in Nat
      /\ \A t \in asked : ToldRight(t)
  BY WorkspaceTypes
<1>2. PICK rs \in {(asked \ {r}) \cup {n}, asked \ {r}} : Go(p, s, lists, rs)
  BY Zenon
<1>3. /\ rs \subseteq AskedType
      /\ \A t \in rs : t \in asked \/ (t.state = "sent" /\ ToldRight(t))
      /\ \A t \in asked : t \in rs \/ ~(t.state = "served" /\ changes(t))
  BY <1>1
<1> QED
  BY <1>1, <1>2, <1>3, GoKeeps DEF FormType, bounded

LEMMA handleCreateProjectKeeps ==
  ASSUME WorkspaceFits, NEW r \in asked, handleCreateProject(r)
  PROVE  WorkspaceFits'
<1> DEFINE then == CASE r.kind = "createProject" -> "created"
                     [] r.kind = "deleteProject" -> "deleted" [] OTHER -> "nothing"
<1>1. r \in AskedType /\ active \in Scopes /\ view \in Pages
  BY WorkspaceTypes
<1>2. /\ r.kind \in {"createProject", "deleteProject", "save"}
      /\ Go(view, active, lists, (asked \ {r}) \cup {LoadProjects(then, r.scope)})
      /\ UNCHANGED <<roles, flows, projects, form, bounded>>
  BY DEF handleCreateProject
<1>3. then \in {"nothing", "created", "deleted"}
  BY <1>2
<1> HIDE DEF then
<1>4. /\ LoadProjects(then, r.scope) \in AskedType
      /\ LoadProjects(then, r.scope).state = "sent" /\ ToldRight(LoadProjects(then, r.scope))
  BY <1>1, <1>3, AskedFields, LoadProjectsFacts DEF ToldRight
<1>5. ~changes(r)
  BY <1>2 DEF changes
<1> QED
  BY <1>1, <1>2, <1>4, <1>5, NextRequestKeeps

LEMMA useProjectSettingsKeeps ==
  ASSUME WorkspaceFits, NEW r \in asked, useProjectSettings(r)
  PROVE  WorkspaceFits'
<1>1. /\ r \in AskedType /\ asked \subseteq AskedType /\ form \in FormType /\ active \in Scopes
      /\ view \in Pages /\ \A t \in asked : ToldRight(t)
  BY WorkspaceTypes
<1>2. UNCHANGED <<roles, flows, projects, form, bounded>> /\ r.kind \in {"load", "members"}
  BY DEF useProjectSettings
<1>3. ~changes(r)
  BY <1>2 DEF changes
<1>4. LoadProjects("nothing", Personal) \in AskedType
      /\ LoadProjects("nothing", Personal).state = "sent" /\ ToldRight(LoadProjects("nothing", Personal))
  BY ScopeFacts, LoadProjectsFacts DEF ToldRight
<1>5. CASE r.kind = "load"
  <2> DEFINE n == [Asked("members", r.scope, AnyFlow) EXCEPT !.here = r.here, !.answer = r.answer]
  <2>1. Go(view, r.scope, lists, (asked \ {r}) \cup {n})
    BY <1>5 DEF useProjectSettings
  <2>2. n \in AskedType /\ n.state = "sent" /\ n.kind = "members"
    <3>1. /\ Asked("members", r.scope, AnyFlow) \in AskedType
          /\ Asked("members", r.scope, AnyFlow).kind = "members"
          /\ Asked("members", r.scope, AnyFlow).state = "sent"
      BY <1>1, AskedFields, AskedFacts, ScopeFacts DEF AskedKinds
    <3>2. r.here \in BOOLEAN /\ r.answer \in [Projects -> Roles]
      BY <1>1 DEF AskedType
    <3> QED
      BY <3>1, <3>2 DEF AskedType
  <2> HIDE DEF n
  <2> QED
    BY <1>1, <1>2, <1>3, <2>1, <2>2, AskedFields, NextRequestKeeps DEF ToldRight
<1>6. CASE /\ r.kind = "members" /\ loaded' = TRUE /\ asked' = asked \ {r}
           /\ UNCHANGED <<active, lists, view, confirm>>
  <2>1. \A k \in Scopes : Fades(lists[k], lists'[k])
    BY <1>6, FadesSelf
  <2>2. \A t \in asked' : ToldRight(t)
    BY <1>1, <1>6
  <2>3. ASSUME NEW k \in Scopes, NEW t \in asked, Changes(t, k) PROVE t \in asked'
    BY <1>3, <1>6, <2>3 DEF Changes
  <2>4. ToldInv' /\ QueryInv'
    BY <1>2, <2>1, <2>2, <2>3, FlowsRest
  <2>5. WorkspaceTypeOK'
    BY <1>2, <1>6, WorkspaceTypes DEF WorkspaceTypeOK, FormType, bounded
  <2> QED
    BY <2>4, <2>5 DEF WorkspaceFits
<1>7. CASE r.kind = "members" /\ Go(IF r.here THEN "flows" ELSE view, active, lists, asked \ {r})
  <2>1. PICK p \in Pages : Go(p, active, lists, asked \ {r})
    BY <1>1, <1>7, PageKinds
  <2> QED
    BY <1>1, <1>2, <1>3, <1>4, <2>1, NextRequestKeeps
<1> QED
  <2>1. \/ r.kind = "load"
        \/ /\ r.kind = "members" /\ loaded' = TRUE /\ asked' = asked \ {r}
           /\ UNCHANGED <<active, lists, view, confirm>>
        \/ r.kind = "members" /\ Go(IF r.here THEN "flows" ELSE view, active, lists, asked \ {r})
    BY Zenon DEF useProjectSettings
  <2> QED
    BY <1>5, <1>6, <1>7, <2>1

\* As GoKeeps, with lists that have been marked for the changes that go.
LEMMA MarkedGoKeeps ==
  ASSUME WorkspaceFits, NEW p \in Pages, NEW s \in Scopes, NEW rs, rs \subseteq asked,
         NEW qs \in [Scopes -> QueryType], \A k \in Scopes : Fades(lists[k], qs[k]),
         \A k \in Scopes : qs[k].old \/ ~qs[k].fresh \/ \A t \in asked : Changes(t, k) => t \in rs,
         Go(p, s, qs, rs), UNCHANGED <<roles, flows, projects, form, bounded>>
  PROVE  WorkspaceFits'
<1>1. WorkspaceTypeOK /\ asked \subseteq AskedType /\ \A t \in asked : ToldRight(t)
  BY WorkspaceTypes DEF WorkspaceFits
<1>2. /\ view' \in Pages /\ active' \in Scopes /\ loaded' \in BOOLEAN
      /\ confirm' \in {NoDialog} \cup [type : {"archive", "delete"}, flow : FlowType]
      /\ lists' \in [Scopes -> QueryType] /\ \A k \in Scopes : Fades(qs[k], lists'[k])
      /\ Stem(rs, asked') /\ Stay(rs, asked')
  BY <1>1, GoFacts
<1>3. \A k \in Scopes : Fades(lists[k], lists'[k])
  BY <1>2, FadesTwice
<1>4. \A t \in asked' : ToldRight(t)
  BY <1>1, <1>2, SameChanges DEF Stem
<1>5. ASSUME NEW k \in Scopes
      PROVE  \/ lists'[k].old \/ ~lists'[k].fresh
             \/ \A r \in asked : Changes(r, k) => \E t \in asked' : Changes(t, k)
  <2>1. CASE qs[k].old \/ ~qs[k].fresh
    BY <1>2, <2>1, Zenon DEF Fades
  <2>2. ASSUME NEW r \in rs, Changes(r, k) PROVE \E t \in asked' : Changes(t, k)
    <3>1. PICK t \in asked' : Same(r, t)
      BY <1>2 DEF Stay
    <3> QED
      BY <2>2, <3>1, SameChanges
  <2> QED
    BY <2>1, <2>2
<1>6. ToldInv' /\ QueryInv'
  BY <1>3, <1>4, <1>5, FlowsRest
<1>7. WorkspaceTypeOK'
  BY <1>1, <1>2, WorkspaceTypes DEF WorkspaceTypeOK, Stem, FormType, bounded
<1> QED
  BY <1>6, <1>7 DEF WorkspaceFits

LEMMA invalidateFlowsFacts ==
  ASSUME WorkspaceFits
  PROVE  /\ invalidateFlows(view, active) \in [Scopes -> QueryType]
         /\ \A k \in Scopes : /\ Fades(lists[k], invalidateFlows(view, active)[k])
                              /\ ~invalidateFlows(view, active)[k].fresh
<1> DEFINE aged(q) == [q EXCEPT !.fresh = FALSE]
<1>1. ASSUME NEW q \in QueryType
      PROVE  aged(q) \in QueryType /\ Fades(q, aged(q)) /\ ~aged(q).fresh
  BY DEF QueryType, Fades
<1>2. ASSUME NEW q \in QueryType
      PROVE  aged(Fetched(q)) \in QueryType /\ Fades(q, aged(Fetched(q))) /\ ~aged(Fetched(q)).fresh
  <2>1. Fetched(q) \in QueryType /\ Fades(q, Fetched(q))
    BY FetchedFacts
  <2>2. /\ aged(Fetched(q)) \in QueryType /\ Fades(Fetched(q), aged(Fetched(q)))
        /\ ~aged(Fetched(q)).fresh
    BY <1>1, <2>1
  <2> HIDE DEF aged
  <2> QED
    BY <2>1, <2>2, FadesTwice
<1>3. \A k \in Scopes : lists[k] \in QueryType
  BY WorkspaceTypes
<1>4. \A k \in Scopes : invalidateFlows(view, active)[k] \in {aged(lists[k]), aged(Fetched(lists[k]))}
  BY DEF invalidateFlows
<1>5. invalidateFlows(view, active) = [k \in Scopes |-> invalidateFlows(view, active)[k]]
  BY DEF invalidateFlows
<1> HIDE DEF aged
<1>6. ASSUME NEW k \in Scopes
      PROVE  /\ invalidateFlows(view, active)[k] \in QueryType
             /\ Fades(lists[k], invalidateFlows(view, active)[k])
             /\ ~invalidateFlows(view, active)[k].fresh
  BY <1>1, <1>2, <1>3, <1>4
<1> QED
  BY <1>5, <1>6

LEMMA useFlowActionsKeeps ==
  ASSUME WorkspaceFits, NEW r \in asked, useFlowActions(r)
  PROVE  WorkspaceFits'
<1> DEFINE qs == invalidateFlows(view, active)
<1>1. /\ r \in AskedType /\ asked \subseteq AskedType /\ form \in FormType /\ active \in Scopes
      /\ view \in Pages /\ \A t \in asked : ToldRight(t)
  BY WorkspaceTypes
<1>2. /\ qs \in [Scopes -> QueryType]
      /\ \A k \in Scopes : Fades(lists[k], qs[k]) /\ ~qs[k].fresh
  BY invalidateFlowsFacts
<1>3. UNCHANGED <<roles, flows, projects, form, bounded>>
  BY DEF useFlowActions
<1> HIDE DEF qs
<1>4. ASSUME NEW p \in Pages, NEW s \in Scopes, Go(p, s, qs, asked \ {r})
      PROVE  WorkspaceFits'
  BY <1>2, <1>3, <1>4, MarkedGoKeeps
<1>5. CASE r.kind = "duplicate" /\ Go(view, active, lists, (asked \ {r}) \cup {createInActiveScope(r)})
  <2>1. /\ createInActiveScope(r) \in AskedType /\ createInActiveScope(r).state = "sent"
        /\ createInActiveScope(r).flow = r.flow /\ createInActiveScope(r).scope = r.scope
    BY <1>1 DEF createInActiveScope, AskedType
  <2>2. ToldRight(createInActiveScope(r))
    BY <1>1, <1>5, <2>1 DEF ToldRight
  <2>3. ~changes(r)
    BY <1>5 DEF changes
  <2> QED
    BY <1>1, <1>3, <1>5, <2>1, <2>2, <2>3, NextRequestKeeps
<1>6. CASE Go("builder", IF r.kind = "create" THEN r.scope ELSE active, qs, asked \ {r})
  <2>1. r.scope \in Scopes
    BY <1>1, AskedFields
  <2> QED
    BY <1>1, <1>4, <1>6, <2>1, PageKinds
<1>7. CASE Go(view, active, qs, asked \ {r})
  BY <1>1, <1>4, <1>7
<1>8. CASE /\ confirm' = IF r.here THEN NoDialog ELSE confirm
           /\ lists' = qs /\ asked' = asked \ {r} /\ UNCHANGED <<view, active, loaded>>
  <2>1. \A t \in asked' : ToldRight(t)
    BY <1>1, <1>8
  <2>2. ToldInv' /\ QueryInv'
    BY <1>2, <1>3, <1>8, <2>1, FlowsRest
  <2>3. confirm' \in {NoDialog} \cup [type : {"archive", "delete"}, flow : FlowType]
    BY <1>8, WorkspaceTypes
  <2>4. WorkspaceTypeOK'
    BY <1>2, <1>3, <1>8, <2>3, WorkspaceTypes DEF WorkspaceTypeOK, FormType, bounded
  <2> QED
    BY <2>2, <2>4 DEF WorkspaceFits
<1> QED
  <2>1. \/ r.kind = "duplicate" /\ Go(view, active, lists, (asked \ {r}) \cup {createInActiveScope(r)})
        \/ Go("builder", IF r.kind = "create" THEN r.scope ELSE active, qs, asked \ {r})
        \/ Go(view, active, qs, asked \ {r})
        \/ /\ confirm' = IF r.here THEN NoDialog ELSE confirm
           /\ lists' = qs /\ asked' = asked \ {r} /\ UNCHANGED <<view, active, loaded>>
    BY Zenon DEF useFlowActions, qs
  <2> QED
    BY <1>5, <1>6, <1>7, <1>8, <2>1

\* An answer that is lost: what it changed is not in the lists.
LEMMA failsKeeps ==
  ASSUME WorkspaceFits, NEW r \in asked, fails(r)
  PROVE  WorkspaceFits'
<1> DEFINE lost == IF r.state = "sent" \/ ~changes(r) THEN {}
                   ELSE IF r.kind = "reset" THEN Scopes ELSE {r.scope}
           mark(k) == lists[k].old \/ k \in lost
           qs == [k \in Scopes |-> [lists[k] EXCEPT !.old = @ \/ k \in lost]]
<1>1. r \in AskedType /\ active \in Scopes /\ view \in Pages /\ lists \in [Scopes -> QueryType]
  BY WorkspaceTypes
<1>2. /\ Go(IF r.kind \in {"load", "members"} THEN "flows" ELSE view, active, qs, asked \ {r})
      /\ UNCHANGED <<roles, flows, projects, form, bounded>>
  BY Zenon DEF fails
<1>3. ASSUME NEW k \in Scopes, Changes(r, k) PROVE k \in lost
  BY <1>3 DEF Changes
<1>4. \A k \in Scopes : qs[k] = [lists[k] EXCEPT !.old = mark(k)]
  OBVIOUS
<1>5. \A k : mark(k) \in BOOLEAN /\ (lists[k].old \/ k \in lost => mark(k))
  BY Zenon
<1>6. qs = [k \in Scopes |-> qs[k]]
  OBVIOUS
<1> HIDE DEF qs, lost, mark
<1>7. ASSUME NEW k \in Scopes
      PROVE  qs[k] \in QueryType /\ Fades(lists[k], qs[k]) /\ qs[k].old = mark(k)
  <2>1. lists[k] \in QueryType /\ mark(k) \in BOOLEAN /\ (lists[k].old => mark(k))
    BY <1>1, <1>5
  <2>2. /\ qs[k] \in QueryType /\ qs[k].old = mark(k) /\ qs[k].data = lists[k].data
        /\ qs[k].answer = lists[k].answer /\ qs[k].fresh = lists[k].fresh
        /\ qs[k].fetch = lists[k].fetch /\ qs[k].behind = lists[k].behind
    BY <1>4, <2>1 DEF QueryType
  <2> QED
    BY <2>1, <2>2 DEF Fades
<1>8. qs \in [Scopes -> QueryType] /\ \A k \in Scopes : Fades(lists[k], qs[k])
  BY <1>6, <1>7
<1>9. ASSUME NEW k \in Scopes
      PROVE  qs[k].old \/ ~qs[k].fresh \/ \A t \in asked : Changes(t, k) => t \in asked \ {r}
  <2>1. CASE Changes(r, k)
    BY <1>3, <1>5, <1>7, <2>1
  <2>2. CASE ~Changes(r, k)
    BY <2>2
  <2> QED
    BY <2>1, <2>2
<1>10. PICK p \in Pages : Go(p, active, qs, asked \ {r})
  BY <1>1, <1>2, PageKinds
<1>11. asked \ {r} \subseteq asked
  OBVIOUS
<1> QED
  BY <1>1, <1>2, <1>8, <1>9, <1>10, <1>11, MarkedGoKeeps

------------------------------------------------------------------------------
(* Workspace: the server and the other members. *)

LEMMA ChangedFacts ==
  ASSUME lists \in [Scopes -> QueryType], NEW ss, NEW told \in BOOLEAN, Changed(ss, told)
  PROVE  /\ lists' \in [Scopes -> QueryType]
         /\ \A k \in Scopes :
              /\ lists'[k].data = lists[k].data /\ lists'[k].answer = lists[k].answer
              /\ lists'[k].fresh = lists[k].fresh /\ lists'[k].fetch = lists[k].fetch
              /\ lists[k].old \/ (k \in ss /\ ~told) => lists'[k].old
              /\ lists[k].behind \/ (k \in ss /\ lists[k].fetch = "read") => lists'[k].behind
<1> DEFINE old(k) == lists[k].old \/ ~told
           behind(k) == lists[k].behind \/ lists[k].fetch = "read"
<1>1. lists' = [s \in Scopes |-> IF s \notin ss THEN lists[s]
                 ELSE [lists[s] EXCEPT !.old = old(s), !.behind = behind(s)]]
  BY DEF Changed
<1>2. \A k : /\ old(k) \in BOOLEAN /\ behind(k) \in BOOLEAN
             /\ (lists[k].old \/ ~told => old(k))
             /\ (lists[k].behind \/ lists[k].fetch = "read" => behind(k))
  BY Zenon
<1> HIDE DEF old, behind
<1>3. ASSUME NEW k \in Scopes
      PROVE  /\ lists'[k] \in QueryType
             /\ lists'[k].data = lists[k].data /\ lists'[k].answer = lists[k].answer
             /\ lists'[k].fresh = lists[k].fresh /\ lists'[k].fetch = lists[k].fetch
             /\ lists[k].old \/ (k \in ss /\ ~told) => lists'[k].old
             /\ lists[k].behind \/ (k \in ss /\ lists[k].fetch = "read") => lists'[k].behind
  <2>1. lists[k] \in QueryType
    OBVIOUS
  <2>2. CASE k \notin ss
    <3>1. lists'[k] = lists[k]
      BY <1>1, <2>2
    <3> QED
      BY <2>1, <2>2, <3>1, Zenon
  <2>3. CASE k \in ss
    <3>1. lists'[k] = [lists[k] EXCEPT !.old = old(k), !.behind = behind(k)]
      BY <1>1, <2>3
    <3>2. /\ lists'[k] \in QueryType /\ lists'[k].old = old(k) /\ lists'[k].behind = behind(k)
          /\ lists'[k].data = lists[k].data /\ lists'[k].answer = lists[k].answer
          /\ lists'[k].fresh = lists[k].fresh /\ lists'[k].fetch = lists[k].fetch
      BY <1>2, <2>1, <3>1 DEF QueryType
    <3> QED
      BY <1>2, <3>2, Zenon
  <2> QED
    BY <2>2, <2>3, Zenon
<1>4. lists' \in [Scopes -> QueryType]
  BY <1>1, <1>3
<1> QED
  BY <1>3, <1>4, Zenon

\* The flows of some workspaces change: the lists of them are marked, or the
\* change is one that its answer will tell of.
LEMMA ChangedKeeps ==
  ASSUME WorkspaceFits, NEW ss, NEW told \in BOOLEAN, Changed(ss, told),
         flows' \in [Scopes -> SUBSET FlowType],
         \A k \in Scopes : k \notin ss => flows'[k] = flows[k],
         \A k \in Scopes : \A f \in flows'[k] : f.told = k,
         asked' \subseteq AskedType, \A t \in asked' : ToldRight(t),
         \A k \in Scopes : \A t \in asked : Changes(t, k) => \E u \in asked' : Changes(u, k),
         told => \A k \in Scopes : k \in ss => \E u \in asked' : Changes(u, k),
         roles' \in [Projects -> Roles], visited' \in Nat, sent' \in Nat,
         UNCHANGED <<active, projects, view, loaded, form, confirm>>
  PROVE  WorkspaceFits'
<1>1. /\ lists' \in [Scopes -> QueryType]
      /\ \A k \in Scopes :
           /\ lists'[k].data = lists[k].data /\ lists'[k].answer = lists[k].answer
           /\ lists'[k].fresh = lists[k].fresh /\ lists'[k].fetch = lists[k].fetch
           /\ lists[k].old \/ (k \in ss /\ ~told) => lists'[k].old
           /\ lists[k].behind \/ (k \in ss /\ lists[k].fetch = "read") => lists'[k].behind
  BY WorkspaceTypes, ChangedFacts
<1>2. WorkspaceTypeOK'
  BY <1>1, WorkspaceTypes DEF WorkspaceTypeOK, FormType
<1>3. ToldInv'
  <2>1. ASSUME NEW k \in Scopes
        PROVE  ToldHere(lists'[k].data, k) /\ ToldHere(lists'[k].answer, k)
    BY <1>1, ListFacts
  <2>2. \A r \in asked' : r.kind \in {"duplicate", "import", "copy"} => r.flow.told = r.scope
    BY DEF ToldRight
  <2> QED
    BY <2>1, <2>2 DEF ToldInv, ToldHere
<1>4. ASSUME NEW k \in Scopes PROVE Current(k)'
  <2>1. Changing(k)' <=> \E u \in asked' : Changes(u, k)
    BY DEF Changing, Changes, changes
  <2>2. Changing(k) => Changing(k)'
    BY <2>1, ChangingFacts
  <2>3. ASSUME lists'[k].fresh, ~lists'[k].old, ~Changing(k)'
        PROVE  lists'[k].data = flows'[k]
    <3>1. k \notin ss
      BY <1>1, <2>1, <2>3
    <3>2. lists[k].fresh /\ ~lists[k].old /\ ~Changing(k)
      BY <1>1, <2>2, <2>3, Zenon
    <3>3. lists[k].data = flows[k]
      BY <3>2, ListFacts
    <3> QED
      BY <1>1, <3>1, <3>3
  <2>4. ASSUME lists'[k].fetch = "read", ~lists'[k].behind
        PROVE  lists'[k].answer = flows'[k]
    <3>1. k \notin ss /\ lists[k].fetch = "read" /\ ~lists[k].behind
      BY <1>1, <2>4, Zenon
    <3>2. lists[k].answer = flows[k]
      BY <3>1, ListFacts
    <3> QED
      BY <1>1, <3>1, <3>2
  <2> QED
    BY <2>3, <2>4, Zenon DEF Current
<1> QED
  BY <1>2, <1>3, <1>4 DEF WorkspaceFits, QueryInv

LEMMA othersKeep ==
  ASSUME WorkspaceFits, NEW p \in Projects, removed(p) \/ createdByAnother(p)
  PROVE  WorkspaceFits'
<1>1. /\ Changed({p}, FALSE) /\ sent' = sent + 1 /\ p \in Scopes
      /\ UNCHANGED <<active, projects, view, loaded, form, confirm, asked, visited>>
  BY ScopeFacts DEF removed, createdByAnother
<1>2. /\ roles \in [Projects -> Roles] /\ flows \in [Scopes -> SUBSET FlowType]
      /\ asked \subseteq AskedType /\ visited \in Nat /\ sent \in Nat /\ \A t \in asked : ToldRight(t)
      /\ \A k \in Scopes : \A f \in flows[k] : f.told = k
  BY WorkspaceTypes DEF WorkspaceFits, ToldInv
<1>3. roles' \in [Projects -> Roles]
  BY <1>2 DEF removed, createdByAnother, Roles
<1>4. /\ flows' \in [Scopes -> SUBSET FlowType]
      /\ \A k \in Scopes : k \notin {p} => flows'[k] = flows[k]
      /\ \A k \in Scopes : \A f \in flows'[k] : f.told = k
  <2>1. CASE removed(p)
    BY <1>2, <2>1 DEF removed
  <2>2. CASE createdByAnother(p)
    <3>1. PICK id \in 1..MaxFlows :
            flows' = [flows EXCEPT ![p] = @ \cup {NewFlow(id, p)}]
      BY <2>2 DEF createdByAnother
    <3> DEFINE f == NewFlow(id, p)
    <3>2. f \in FlowType /\ f.told = p
      BY <1>1, WorkspaceAssumption, NewFlowFacts, ScopeFacts
    <3>3. flows' = [flows EXCEPT ![p] = flows[p] \cup {f}]
      BY <1>1, <1>2, <3>1
    <3> HIDE DEF f
    <3> QED
      BY <1>1, <1>2, <3>2, <3>3
  <2> QED
    BY <2>1, <2>2
<1>5. /\ asked' \subseteq AskedType /\ \A t \in asked' : ToldRight(t)
      /\ \A k \in Scopes : \A t \in asked : Changes(t, k) => \E u \in asked' : Changes(u, k)
      /\ visited' \in Nat /\ sent' \in Nat
  BY <1>1, <1>2
<1> QED
  BY <1>1, <1>3, <1>4, <1>5, ChangedKeeps

\* The request that is served stays, and tells of the change it made, unless it
\* is the builder's.
LEMMA servedFacts ==
  ASSUME WorkspaceFits, NEW r \in asked, serve(r), roles' \in [Projects -> Roles]
  PROVE  /\ asked' \subseteq AskedType /\ \A t \in asked' : ToldRight(t)
         /\ \A k \in Scopes : \A t \in asked : Changes(t, k) => \E u \in asked' : Changes(u, k)
         /\ changes(r) => \A k \in Scopes : r.kind = "reset" \/ r.scope = k
                                              => \E u \in asked' : Changes(u, k)
<1> DEFINE n == [r EXCEPT !.state = "served", !.answer =
                   IF r.kind \in {"projects", "load"} THEN roles' ELSE @]
<1>1. asked \subseteq AskedType /\ r \in AskedType /\ \A t \in asked : ToldRight(t)
  BY WorkspaceTypes
<1>2. /\ asked' = (asked \ {r}) \cup (IF r.kind = "rename" THEN {} ELSE {n})
      /\ r.state = "sent"
  BY DEF serve
<1>3. /\ n \in AskedType /\ n.state = "served" /\ n.kind = r.kind /\ n.scope = r.scope
      /\ n.flow = r.flow
  BY <1>1 DEF AskedType
<1> HIDE DEF n
<1>4. ToldRight(n)
  BY <1>1, <1>3 DEF ToldRight
<1>5. ASSUME NEW k \in Scopes, NEW t \in asked, Changes(t, k) PROVE \E u \in asked' : Changes(u, k)
  <2>1. t # r
    BY <1>2, <1>5 DEF Changes
  <2> QED
    BY <1>2, <1>5, <2>1
<1>6. ASSUME changes(r), NEW k \in Scopes, r.kind = "reset" \/ r.scope = k
      PROVE  \E u \in asked' : Changes(u, k)
  <2>1. Changes(n, k) /\ r.kind # "rename"
    BY <1>3, <1>6 DEF Changes, changes
  <2> QED
    BY <1>2, <2>1
<1>7. asked' \subseteq AskedType /\ \A t \in asked' : ToldRight(t)
  BY <1>1, <1>2, <1>3, <1>4
<1> QED
  BY <1>5, <1>6, <1>7

\* What is left of a flow that is archived, deleted or renamed.
Left(r, f) ==
  CASE r.kind = "delete" -> {}
    [] r.kind = "archive" -> {[f EXCEPT !.status = "archived"]}
    [] OTHER -> {[f EXCEPT !.name = "other"]}

LEMMA serveKeeps ==
  ASSUME WorkspaceFits, NEW r \in asked, serve(r)
  PROVE  WorkspaceFits'
<1>1. /\ r \in AskedType /\ roles \in [Projects -> Roles] /\ flows \in [Scopes -> SUBSET FlowType]
      /\ lists \in [Scopes -> QueryType] /\ visited \in Nat /\ sent \in Nat
      /\ \A k \in Scopes : \A f \in flows[k] : f.told = k
      /\ r.scope \in Scopes /\ r.flow \in FlowType /\ ToldRight(r)
  BY WorkspaceTypes, AskedFields DEF WorkspaceFits, ToldInv
<1>2. /\ UNCHANGED <<active, projects, view, loaded, form, confirm>>
      /\ visited' = visited /\ sent' = sent
  BY DEF serve, bounded
<1>3. roles' \in [Projects -> Roles]
  <2>1. \/ roles' = roles \/ roles' = [roles EXCEPT ![r.scope] = "admin"]
        \/ roles' = [roles EXCEPT ![r.scope] = "none"]
    BY Zenon DEF serve
  <2> QED
    BY <1>1, <2>1 DEF Roles
<1>4. /\ asked' \subseteq AskedType /\ \A t \in asked' : ToldRight(t)
      /\ \A k \in Scopes : \A t \in asked : Changes(t, k) => \E u \in asked' : Changes(u, k)
  BY <1>3, servedFacts
<1>5. changes(r) => \A k \in Scopes : r.kind = "reset" \/ r.scope = k
                                        => \E u \in asked' : Changes(u, k)
  BY <1>3, servedFacts
<1>6. ASSUME NEW ss, NEW told \in BOOLEAN, Changed(ss, told),
             told => \A k \in Scopes : k \in ss => \E u \in asked' : Changes(u, k),
             flows' \in [Scopes -> SUBSET FlowType],
             \A k \in Scopes : k \notin ss => flows'[k] = flows[k],
             \A k \in Scopes : \A f \in flows'[k] : f.told = k
      PROVE  WorkspaceFits'
  BY <1>1, <1>2, <1>3, <1>4, <1>6, ChangedKeeps
<1>7. CASE flows' = flows /\ lists' = lists
  <2>1. Changed({}, TRUE)
    BY <1>1, <1>7 DEF Changed
  <2> QED
    BY <1>1, <1>6, <1>7, <2>1
<1>8. CASE flows' = [flows EXCEPT ![r.scope] = {}] /\ Changed({r.scope}, FALSE)
  BY <1>1, <1>6, <1>8
<1>9. CASE /\ r.kind \in {"create", "import", "copy"} /\ Changed({r.scope}, TRUE)
           /\ \E id \in 1..MaxFlows : flows' = [flows EXCEPT ![r.scope] = @ \cup
                {NewFlow(id, IF r.kind = "create" THEN r.scope ELSE r.flow.told)}]
  <2>1. PICK id \in 1..MaxFlows : flows' = [flows EXCEPT ![r.scope] = @ \cup
                {NewFlow(id, IF r.kind = "create" THEN r.scope ELSE r.flow.told)}]
    BY <1>9
  <2> DEFINE f == NewFlow(id, IF r.kind = "create" THEN r.scope ELSE r.flow.told)
  <2>0. (IF r.kind = "create" THEN r.scope ELSE r.flow.told) = r.scope
    BY <1>1, <1>9 DEF ToldRight
  <2>2. f \in FlowType /\ f.told = r.scope
    BY <1>1, <2>0, NewFlowFacts, WorkspaceAssumption
  <2>3. flows' = [flows EXCEPT ![r.scope] = flows[r.scope] \cup {f}]
    BY <1>1, <2>1
  <2> HIDE DEF f
  <2>4. changes(r)
    BY <1>9 DEF changes
  <2> QED
    BY <1>1, <1>5, <1>6, <1>9, <2>2, <2>3, <2>4
<1>10. CASE /\ r.kind \in {"archive", "delete", "rename"} /\ Changed({r.scope}, r.kind # "rename")
            /\ \E f \in flows[r.scope] : flows' = [flows EXCEPT ![r.scope] = (@ \ {f}) \cup Left(r, f)]
  <2>1. PICK f \in flows[r.scope] : flows' = [flows EXCEPT ![r.scope] = (@ \ {f}) \cup Left(r, f)]
    BY <1>10
  <2>2. f \in FlowType /\ f.told = r.scope
    BY <1>1
  <2>3. Left(r, f) \subseteq FlowType /\ \A h \in Left(r, f) : h.told = r.scope
    BY <1>10, <2>2 DEF Left, FlowType
  <2> DEFINE rest == Left(r, f)
  <2>4. flows' = [flows EXCEPT ![r.scope] = (flows[r.scope] \ {f}) \cup rest]
    BY <1>1, <2>1
  <2>5. rest \subseteq FlowType /\ \A h \in rest : h.told = r.scope
    BY <2>3
  <2> HIDE DEF rest
  <2>6. r.kind # "rename" => changes(r)
    BY <1>10 DEF changes
  <2> QED
    BY <1>1, <1>5, <1>6, <1>10, <2>4, <2>5, <2>6
<1>11. CASE r.kind = "reset" /\ flows' = [s \in Scopes |-> {}] /\ Changed(Scopes, TRUE)
  <2>1. changes(r)
    BY <1>11 DEF changes
  <2> QED
    BY <1>5, <1>6, <1>11, <2>1
<1> QED
  <2>1. \/ flows' = flows /\ lists' = lists
        \/ flows' = [flows EXCEPT ![r.scope] = {}] /\ Changed({r.scope}, FALSE)
        \/ /\ r.kind \in {"create", "import", "copy"} /\ Changed({r.scope}, TRUE)
           /\ \E id \in 1..MaxFlows : flows' = [flows EXCEPT ![r.scope] = @ \cup
                {NewFlow(id, IF r.kind = "create" THEN r.scope ELSE r.flow.told)}]
        \/ /\ r.kind \in {"archive", "delete", "rename"} /\ Changed({r.scope}, r.kind # "rename")
           /\ \E f \in flows[r.scope] : flows' = [flows EXCEPT ![r.scope] = (@ \ {f}) \cup Left(r, f)]
        \/ r.kind = "reset" /\ flows' = [s \in Scopes |-> {}] /\ Changed(Scopes, TRUE)
    <3>1. r.kind = "deleteProject" => (r.kind \notin Silent) = FALSE
      BY DEF Silent
    <3>2. r.kind \in {"archive", "delete", "rename"} => (r.kind \notin Silent) = (r.kind # "rename")
      BY DEF Silent
    <3> QED
      BY <3>1, <3>2 DEF serve, Left
  <2> QED
    BY <1>7, <1>8, <1>9, <1>10, <1>11, <2>1

------------------------------------------------------------------------------
(* Workspace: the theorems. *)

LEMMA WorkspaceStep == WorkspaceFits /\ [WorkspaceNext]_workspaceVars => WorkspaceFits'
<1> SUFFICES ASSUME WorkspaceFits, [WorkspaceNext]_workspaceVars PROVE WorkspaceFits'
  OBVIOUS
<1>1. CASE onReload
  BY <1>1, onReloadKeeps
<1>2. CASE \/ SidebarWorkspaces \/ SidebarNav \/ onRowOpen \/ leaveBuilder
           \/ onCreatePersonal \/ onCreateProject \/ NewFlowPage \/ setConfirm
  BY <1>2, GoingKeeps
<1>3. CASE \/ (\E p \in Projects : CreateProjectModal(p)) \/ saveProject \/ onDeleteProject
           \/ handleCreate \/ onImportFile \/ FlowRowMenu \/ onConfirm
           \/ useBuilderSave \/ useResetWorkspace
  BY <1>3, AskingWorkspaceKeeps
<1>4. CASE \E s \in Scopes : fetchServed(s) \/ fetchAnswered(s) \/ ages(s)
  BY <1>4, fetchServedKeeps, fetchAnsweredKeeps, agesKeeps
<1>5. CASE \E p \in Projects : removed(p) \/ createdByAnother(p)
  BY <1>5, othersKeep
<1>6. CASE \E r \in asked : serve(r)
  BY <1>6, serveKeeps
<1>7. CASE \E r \in asked : fails(r)
  BY <1>7, failsKeeps
<1>8. CASE \E r \in asked : loadProjects(r) \/ handleCreateProject(r) \/ useProjectSettings(r)
                            \/ useFlowActions(r)
  BY <1>8, loadProjectsKeeps, handleCreateProjectKeeps, useProjectSettingsKeeps, useFlowActionsKeeps
<1>9. CASE UNCHANGED workspaceVars
  <2>1. /\ form' \in FormType
        /\ confirm' \in {NoDialog} \cup [type : {"archive", "delete"}, flow : FlowType]
        /\ UNCHANGED <<bounded, roles, flows, active, projects, lists, view, loaded, asked>>
    BY <1>9, WorkspaceTypes DEF workspaceVars, bounded
  <2> QED
    BY <2>1, FormKeeps
<1> QED
  BY <1>1, <1>2, <1>3, <1>4, <1>5, <1>6, <1>7, <1>8, <1>9 DEF WorkspaceNext

LEMMA WorkspaceStart == WorkspaceInit => WorkspaceFits
<1> SUFFICES ASSUME WorkspaceInit PROVE WorkspaceFits
  OBVIOUS
<1>1. NoQuery \in QueryType /\ NoQuery.data = NoList /\ NoQuery.answer = NoList
      /\ NoQuery.fresh = FALSE /\ NoQuery.fetch = "idle"
  BY DEF NoQuery, QueryType
<1>2. lists = [s \in Scopes |-> NoQuery]
  BY DEF WorkspaceInit
<1>3. PICK s \in Scopes : flows = [k \in Scopes |->
          IF k = s THEN {NewFlow(1, s)} ELSE {}]
  BY DEF WorkspaceInit
<1>4. NewFlow(1, s) \in FlowType /\ NewFlow(1, s).told = s
  BY NewFlowFacts
<1>5. flows \in [Scopes -> SUBSET FlowType] /\ \A k \in Scopes : \A f \in flows[k] : f.told = k
  BY <1>3, <1>4
<1>6. WorkspaceTypeOK
  <2>1. PersonalForm \in [scope : {"personal", "project"}, project : Scopes]
    BY ScopeFacts DEF PersonalForm
  <2>2. lists \in [Scopes -> QueryType]
    BY <1>1, <1>2
  <2>3. projects \in [Projects -> Roles] /\ view \in Pages
    BY ScopeFacts, PageKinds DEF WorkspaceInit
  <2> QED
    BY <1>5, <2>1, <2>2, <2>3 DEF WorkspaceInit, WorkspaceTypeOK
<1>7. ToldInv /\ QueryInv
  <2>1. asked = {}
    BY DEF WorkspaceInit
  <2> QED
    BY <1>1, <1>2, <1>5, <2>1 DEF ToldInv, ToldHere, QueryInv, Current
<1> QED
  BY <1>6, <1>7 DEF WorkspaceFits

\* Lists and requests name a flow with its own workspace, and a list that is
\* fresh, or an answer that is on its way, is the server's unless a change has
\* marked it, or has been served and is still to be answered.
THEOREM WorkspaceInvariant == WorkspaceSpec => [](WorkspaceTypeOK /\ ToldInv /\ QueryInv)
<1>1. WorkspaceFits <=> WorkspaceTypeOK /\ ToldInv /\ QueryInv
  BY DEF WorkspaceFits
<1> QED
  BY <1>1, WorkspaceStart, WorkspaceStep, PTL DEF WorkspaceSpec

\* A flow is in the workspace that was shown at the click that created,
\* imported or duplicated it (use-flow-actions, createInActiveScope).
THEOREM LandsWhereAskedAlways == WorkspaceSpec => []LandsWhereAsked
<1>1. ToldInv => LandsWhereAsked
  BY DEF ToldInv, LandsWhereAsked
<1> QED
  BY <1>1, WorkspaceInvariant, PTL

\* A fresh list is the server's once what the user creates, imports, duplicates,
\* archives, deletes or resets is answered: each of these invalidates the lists
\* (invalidateFlows).  The builder's save and the deletion of a project are the
\* exceptions: no list is told of them.
THEOREM ListIsCurrentAlways == WorkspaceSpec => []ListIsCurrent
<1>1. QueryInv => ListIsCurrent
  <2> SUFFICES ASSUME QueryInv, NEW s \in Scopes,
                      lists[s].fresh, lists[s].fetch = "idle", ~lists[s].old,
                      ~ \E r \in asked : r.state = "served" /\ r.kind # "projects"
               PROVE  lists[s].data = flows[s]
    BY Zenon DEF ListIsCurrent
  <2>1. ~Changing(s)
    BY DEF Changing, changes
  <2> QED
    BY <2>1, Zenon DEF QueryInv, Current
<1> QED
  BY <1>1, WorkspaceInvariant, PTL
==============================================================================
