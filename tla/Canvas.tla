------------------------------- MODULE Canvas -------------------------------
(***************************************************************************)
(* The canvas of the builder: the nodes, edges and sticky notes of the     *)
(* opened flow in the builder's store, what is selected of them, and the   *)
(* ways to change them: the palette, drops, the picker of a node, the      *)
(* inspector, connecting, the delete key and the notes' own tools.         *)
(*                                                                         *)
(* React Flow selects by flags of its own on nodes and edges; whenever the *)
(* flagged elements change it tells the store, which keeps what the        *)
(* inspector shows.  The store's own actions set that without the flags.   *)
(* Positions, sizes, texts, colours and the tab that is shown are left     *)
(* out.  Elements are numbered in the order they are added.                *)
(***************************************************************************)
EXTENDS FlowDefinition, FiniteSetsExt

CONSTANTS
  Definitions,  \* the stored flows: [nodes, edges, notes, selected]
  NewTypes,     \* the node types that are added
  FirstId,      \* the number of the first element added, above all stored ones
  MaxId         \* bound: the number of the last element added

Ids(elements) == {x.id : x \in elements}

\* A stored flow is one that some version of the builder saved.
IsStored(d) ==
  /\ \A n \in d.nodes :
       /\ DOMAIN n = {"id", "nodeType", "type", "config", "old", "model", "memory", "tools"}
       /\ n.id \in 1..FirstId - 1
       /\ \/ n.tools = NoTools
          \/ /\ n.tools \in Seq(ToSet(n.tools))
             /\ \A t \in ToSet(n.tools) : DOMAIN t = {"toolKey", "credentialId"}
  /\ \A n, m \in d.nodes : n.id = m.id => n = m
  /\ d.edges \in Seq(ToSet(d.edges))
  /\ \A e \in ToSet(d.edges) : e.id \in 1..FirstId - 1 /\ {e.source, e.target} \subseteq Ids(d.nodes)
  /\ d.notes \subseteq 1..FirstId - 1

ASSUME CanvasAssumption ==
  /\ NewTypes \subseteq UNION {NODE_CATEGORIES[c] : c \in DOMAIN NODE_CATEGORIES}
  /\ FirstId \in Nat \ {0} /\ MaxId \in Nat /\ NoTools # <<>>
  /\ \A d \in Definitions : IsStored(d)

VARIABLES
  nodes, edges, notes,  \* the store's elements; a note is its number
  flagged,              \* the nodes and edges React Flow has selected
  selection,            \* selectedNodeId, selectedEdgeId and selectedNoteId
  next,                 \* the number of the next element
  stored,               \* ghost: the definition opened last
  touched               \* ghost: whether an element changed since

canvasVars == <<nodes, edges, notes, flagged, selection, next, stored, touched>>

None == 0
Nothing == [node |-> None, edge |-> None, note |-> None]
nodeIds == Ids(nodes)
edgeIds == Ids(ToSet(edges))

(***************************************************************************)
(* The selection slice.  Selecting a node or an edge unselects everything  *)
(* else; selecting none of one kind leaves the other kinds.                *)
(***************************************************************************)
setSelectedNode(s, id) == IF id = None THEN [s EXCEPT !.node = None] ELSE [Nothing EXCEPT !.node = id]
setSelectedEdge(s, id) == IF id = None THEN [s EXCEPT !.edge = None] ELSE [Nothing EXCEPT !.edge = id]
setSelectedNote(s, id) == IF id = None THEN [s EXCEPT !.note = None] ELSE [Nothing EXCEPT !.note = id]

\* React Flow reports the flagged elements: an edge goes before a node.
onSelectionChange(s, selNodes, selEdges) ==
  IF selEdges # {} THEN setSelectedEdge(s, Min(selEdges))
  ELSE IF selNodes # {} THEN setSelectedNode(s, Min(selNodes))
  ELSE setSelectedEdge(setSelectedNode(s, None), None)

\* A change of the elements and the flags; it is reported when the flagged
\* elements that are left are others than before.
Changed(ns, es, flags, s) ==
  LET selNodes == flags \cap Ids(ns)
      selEdges == flags \cap Ids(ToSet(es))
  IN /\ nodes' = ns /\ edges' = es
     /\ flagged' = selNodes \cup selEdges
     /\ selection' = IF flagged' = flagged THEN s ELSE onSelectionChange(s, selNodes, selEdges)
Edited == touched' = TRUE /\ UNCHANGED stored

(***************************************************************************)
(* What a card on the canvas offers: a node with an input takes edges, its *)
(* handles start them.                                                     *)
(***************************************************************************)
useFlowNodeStyles(n) ==
  [hasMainInput |-> NODE_CATALOG[n.nodeType].category # "Triggers" /\ ~isLegacyModelNode(n)]
isErrorBranchEnabled(n) == "enableErrorBranch" \in HoldsText(n.config)
NodeHandles(n) ==
  IF isErrorBranchEnabled(n) THEN {"default", "error"}
  ELSE IF n.nodeType = "if" THEN {"true", "false"} ELSE {"none"}
ModelNode(n) == isLegacyModelNode(n)
Handles(n) == IF ModelNode(n) THEN {"none"} ELSE NodeHandles(n)

(***************************************************************************)
(* The nodes slice.                                                        *)
(***************************************************************************)
AddedNode(id, t) ==
  [id |-> id, nodeType |-> t, type |-> "flowNode", config |-> createDefaultNodeData(t),
   old |-> <<>>, model |-> NoModel, memory |-> "null",
   tools |-> IF t = "aiAgent" THEN <<>> ELSE NoTools]
AddedEdge(id, source, handle, target) ==
  [id |-> id, source |-> source, sourceHandle |-> handle, target |-> target, targetHandle |-> "none"]
\* A node that is added is shown by the inspector; a note stays selected.
ShowNode(id) == [selection EXCEPT !.node = id, !.edge = None]

addNode(t) ==
  /\ next <= MaxId /\ next' = next + 1
  /\ Changed(nodes \cup {AddedNode(next, t)}, edges, flagged, ShowNode(next))
  /\ Edited /\ UNCHANGED notes
\* The picker of a node offers every type; on a condition the branch that is
\* not named is the true one.
addConnectedNode(from, t, handle) ==
  LET target == next + 1
      sourceHandle == IF from.nodeType = "if" /\ handle = "none" THEN "true" ELSE handle
  IN /\ target <= MaxId /\ next' = target + 1
     /\ Changed(nodes \cup {AddedNode(target, t)},
                Append(edges, AddedEdge(next, from.id, sourceHandle, target)),
                flagged, ShowNode(target))
     /\ Edited /\ UNCHANGED notes
NodePicker(from, handle) ==
  \E t \in NewTypes : addConnectedNode(from, t, IF handle = "default" THEN "none" ELSE handle)
useFlowNode ==
  \E from \in nodes :
    /\ ~ModelNode(from)
    /\ \E handle \in NodeHandles(from) : NodePicker(from, handle)
duplicateNode(n) ==
  /\ next <= MaxId /\ next' = next + 1
  /\ Changed(nodes \cup {[n EXCEPT !.id = next]}, edges, flagged, ShowNode(next))
  /\ Edited /\ UNCHANGED notes
updateNodeData(n, patched) ==
  /\ patched # n
  /\ Changed((nodes \ {n}) \cup {patched}, edges, flagged, selection)
  /\ Edited /\ UNCHANGED <<notes, next>>
updateNodeConfig(n, patch) == updateNodeData(n, [n EXCEPT !.config = Patched(@, patch)])
MutDeleteNode(n) ==
  /\ Changed(nodes \ {n}, edges, flagged,
             [selection EXCEPT !.node = IF @ = n.id THEN None ELSE @, !.edge = None])
  /\ Edited /\ UNCHANGED <<notes, next>>
deleteNode(n) ==
  /\ Changed(nodes \ {n},
             Kept(edges, {e \in ToSet(edges) : e.source # n.id /\ e.target # n.id}),
             flagged, [selection EXCEPT !.node = IF @ = n.id THEN None ELSE @, !.edge = None])
  /\ Edited /\ UNCHANGED <<notes, next>>

(***************************************************************************)
(* Edges, and the changes React Flow itself makes.                         *)
(***************************************************************************)
onConnect(source, handle, target) ==
  /\ next <= MaxId /\ next' = next + 1
  /\ Changed(nodes, Append(edges, AddedEdge(next, source.id, handle, target.id)), flagged, selection)
  /\ Edited /\ UNCHANGED notes
\* The edges that are left, and the selection without one that is not.
onEdgesChange(s, es) ==
  [s EXCEPT !.edge = IF @ \in Ids(ToSet(es)) THEN @ ELSE None]
deleteEdge(id) ==
  LET es == Kept(edges, {e \in ToSet(edges) : e.id # id})
  IN /\ Changed(nodes, es, flagged, onEdgesChange(selection, es))
     /\ Edited /\ UNCHANGED <<notes, next>>

\* The inspector shows the selected node and changes, copies or deletes it.
InspectorFooter(n) == duplicateNode(n) \/ deleteNode(n)
useInspector ==
  \E n \in nodes :
    /\ n.id = selection.node
    /\ \/ InspectorFooter(n)
       \/ /\ n.nodeType = "httpRequest"
          /\ updateNodeConfig(n, [enableErrorBranch |->
                                    IF isErrorBranchEnabled(n) THEN "blank" ELSE "text"])
       \/ /\ n.nodeType = "aiAgent"
          /\ updateNodeData(n, [n EXCEPT
               !.model = [provider |-> "openai", filled |-> {"model", "credentialId"}]])
\* The wizard adds a tool to the agent it was opened for, if it still exists.
updateTools(n) ==
  /\ n.nodeType = "aiAgent" /\ n.tools \in {NoTools, <<>>}
  /\ updateNodeData(n, [n EXCEPT !.tools = <<[toolKey |-> "tool", credentialId |-> "blank"]>>])

(***************************************************************************)
(* Notes.  Selecting one takes React Flow's flags away, adding one does    *)
(* not.                                                                    *)
(***************************************************************************)
addNote ==
  /\ next <= MaxId /\ next' = next + 1
  /\ notes' = notes \cup {next} /\ selection' = setSelectedNote(selection, next)
  /\ Edited /\ UNCHANGED <<nodes, edges, flagged>>
duplicateNote(id) == id \in notes /\ addNote
deleteNote(id) ==
  /\ notes' = notes \ {id}
  /\ selection' = [selection EXCEPT !.note = IF @ = id THEN None ELSE @]
  /\ Edited /\ UNCHANGED <<nodes, edges, flagged, next>>
selectNote(id) ==
  /\ Changed(nodes, edges, {}, setSelectedNote(selection, id))
  /\ UNCHANGED <<notes, next, stored, touched>>
\* Moving, resizing, writing and colouring; each starts by selecting.
updateNote(id) ==
  /\ Changed(nodes, edges, {}, setSelectedNote(selection, id))
  /\ Edited /\ UNCHANGED <<notes, next>>
StickyNotesLayer ==
  \E id \in notes : duplicateNote(id) \/ deleteNote(id) \/ selectNote(id) \/ updateNote(id)

(***************************************************************************)
(* The user's other ways on the canvas.                                    *)
(***************************************************************************)
NodePalette == \E t \in NewTypes : addNode(t)
onDrop == addNote \/ \E t \in NewTypes : addNode(t)
connecting ==
  \E source, target \in nodes :
    /\ useFlowNodeStyles(target).hasMainInput
    /\ \E handle \in Handles(source) : onConnect(source, handle, target)
\* A click flags one element, a box several nodes with the edges among them.
selecting ==
  \E flags \in {{id} : id \in nodeIds \cup edgeIds} \cup
               {ids \cup {e.id : e \in {f \in ToSet(edges) : {f.source, f.target} \subseteq ids}}
                  : ids \in kSubset(2, nodeIds)} :
    /\ flags # flagged
    /\ Changed(nodes, edges, flags, selection)
    /\ UNCHANGED <<notes, next, stored, touched>>
onPaneClick ==
  /\ Changed(nodes, edges, {}, setSelectedNote(selection, None))
  /\ UNCHANGED <<notes, next, stored, touched>>
\* A slot of an agent's card, and the wizard, select a node by the store.
onOpenTab ==
  \E n \in nodes :
    /\ n.nodeType = "aiAgent"
    /\ Changed(nodes, edges, {n.id}, setSelectedNode(selection, n.id))
    /\ UNCHANGED <<notes, next, stored, touched>>
\* Delete or Backspace: React Flow removes what it has flagged, with the
\* edges of the nodes, edges first; the notes' own handler removes the note.
deleteKey ==
  LET doomed == nodeIds \cap flagged
      es == Kept(edges, {e \in ToSet(edges) : /\ e.id \notin flagged
                                              /\ {e.source, e.target} \cap doomed = {}})
  IN /\ flagged # {} \/ selection.note # None
     /\ notes' = notes \ {selection.note}
     /\ Changed({n \in nodes : n.id \notin doomed}, es, flagged,
                [onEdgesChange(selection, es) EXCEPT !.note = None])
     /\ Edited /\ UNCHANGED next

(***************************************************************************)
(* Opening a flow.  Its nodes may hold the flags they were saved with,     *)
(* which React Flow reports when the canvas is mounted.                    *)
(***************************************************************************)
Migrated == [d \in Definitions |->
               migrateAgentSubnodes({normalizeNode(n) : n \in d.nodes}, d.edges)]
hydrateFromDefinition(d) ==
  LET migrated == Migrated[d]
      selNodes == d.selected \cap Ids(migrated.nodes)
      selEdges == d.selected \cap Ids(ToSet(migrated.edges))
  IN /\ nodes' = migrated.nodes /\ edges' = migrated.edges /\ notes' = d.notes
     /\ flagged' = selNodes \cup selEdges
     /\ selection' = onSelectionChange(Nothing, selNodes, selEdges)
     /\ stored' = d /\ touched' = FALSE
setFlowId == \E d \in Definitions : hydrateFromDefinition(d) /\ UNCHANGED next

CanvasInit ==
  /\ nodes = {} /\ edges = <<>> /\ notes = {} /\ flagged = {} /\ selection = Nothing
  /\ next = FirstId
  /\ stored = [nodes |-> {}, edges |-> <<>>, notes |-> {}, selected |-> {}] /\ touched = FALSE

CanvasNext ==
  \/ setFlowId \/ NodePalette \/ onDrop \/ useFlowNode \/ connecting \/ useInspector
  \/ (\E n \in nodes : updateTools(n)) \/ (\E id \in edgeIds : deleteEdge(id))
  \/ StickyNotesLayer \/ selecting \/ onPaneClick \/ onOpenTab \/ deleteKey

CanvasSpec == CanvasInit /\ [][CanvasNext]_canvasVars

(***************************************************************************)
(* No edge is left behind by a node that goes, whichever way it goes: the  *)
(* inspector, the delete key or the migration of an older flow.  The       *)
(* inspector shows at most one element, which exists, though the store's   *)
(* actions and React Flow's reports both set it; an edge is never selected *)
(* together with a note.                                                   *)
(***************************************************************************)
EdgesJoinNodes == \A e \in ToSet(edges) : {e.source, e.target} \subseteq nodeIds
SelectionIsShown ==
  /\ selection.node \in nodeIds \cup {None}
  /\ selection.edge \in edgeIds \cup {None}
  /\ selection.note \in notes \cup {None}
  /\ selection.edge # None => selection.node = None /\ selection.note = None
\* Edges and the selection of the store refer to what the store has.
GraphIsWhole == EdgesJoinNodes /\ SelectionIsShown

(***************************************************************************)
(* The migration of older flows is final and loses no model: opening what  *)
(* it made migrates nothing, and an agent that had a valid model, its own, *)
(* in its configuration when it had none of its own, or on an attached     *)
(* node, has one (docs/prompts/013: "a one-time migration function in FE   *)
(* (safe, idempotent)").                                                   *)
(***************************************************************************)
MigrationIsFinal ==
  ~migrateAgentSubnodes({normalizeNode(n) : n \in nodes}, edges).didMigrate
ModelsSurvive ==
  LET before == {normalizeNode(n) : n \in stored.nodes}
      had(a) ==
        {a.model} \cup
        (IF a.model = NoModel /\ "model" \in DOMAIN a.old
         THEN {normalizeAgentModelFromConfig(a.old["model"])} ELSE {}) \cup
        {toAgentModelFromLegacyModelNode(m) : m \in
           {x \in before : isLegacyModelNode(x) /\ \E e \in ToSet(stored.edges) :
              e.source = x.id /\ e.target = a.id /\ e.targetHandle = "model"}}
  IN \A a \in before :
       a.nodeType = "aiAgent" /\ (\E m \in had(a) : isValidAgentModelConfig(m)) =>
         \E n \in nodes : n.id = a.id /\ isValidAgentModelConfig(n.model)
\* A flow that was opened and not touched is one the new agent nodes can run.
OpenedIsMigrated == ~touched => MigrationIsFinal /\ ModelsSurvive
=============================================================================
