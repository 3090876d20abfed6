--------------------------- MODULE FlowDefinition ---------------------------
(***************************************************************************)
(* What the builder makes of a stored flow definition when it opens one:   *)
(* every node gets a type of the catalog and the defaults of its type, and *)
(* agents take over the model, memory and tools that older flows kept in   *)
(* the agent's configuration or in nodes attached to it.                   *)
(*                                                                         *)
(* A stored node is a record [id, nodeType, type, config, old, model,      *)
(* memory, tools]: nodeType is the type in its data and type React Flow's; *)
(* old maps those of "model", "memory" and "tools" that its configuration  *)
(* holds; NoModel stands for a model that is null or missing, "null" for   *)
(* such a memory.                                                          *)
(***************************************************************************)
EXTENDS NodeCatalog

CONSTANTS NoTools  \* an agent's data without a list of tools

LEGACY_SUBNODE_EDGE_HANDLES == {"model", "memory", "tool"}
LEGACY_MODEL_NODE_TYPES == {"chatModel", "openaiChatModel", "geminiChatModel", "grokChatModel"}
isLegacyModelNode(node) == node.nodeType \in LEGACY_MODEL_NODE_TYPES

legacyModelProvider ==
  [openaiChatModel |-> "openai", geminiChatModel |-> "gemini", grokChatModel |-> "grok"]

\* The type in the data, else React Flow's, else a request; an agent starts
\* without model and memory and with an empty list of tools.
normalizeNode(node) ==
  LET resolved == IF node.nodeType \in DOMAIN NODE_CATALOG THEN node.nodeType
                  ELSE IF node.type \in DOMAIN NODE_CATALOG THEN node.type ELSE "httpRequest"
      renamed == resolved \in DOMAIN legacyModelProvider
      inferred == IF renamed THEN "chatModel" ELSE resolved
      config == Patched(createDefaultNodeData(inferred), node.config)
  IN [node EXCEPT
        !.nodeType = inferred, !.type = "flowNode",
        !.config = IF renamed THEN Patched(config, [provider |-> legacyModelProvider[resolved]])
                   ELSE config,
        !.tools = IF inferred = "aiAgent" /\ @ = NoTools THEN <<>> ELSE @]

\* The elements of a list that are in a set, in their order.
Kept(list, set) ==
  LET kept[i \in 0..Len(list)] ==
        IF i = 0 THEN <<>>
        ELSE IF list[i] \in set THEN Append(kept[i - 1], list[i]) ELSE kept[i - 1]
  IN kept[Len(list)]

(***************************************************************************)
(* The parts of an agent, read from what an older version stored.          *)
(***************************************************************************)
\* A model that holds nothing at all is none; it is openai's when it does
\* not say whose it is.
normalizeAgentModelFromConfig(raw) ==
  IF raw.provider = "none" /\ raw.filled = {} THEN NoModel
  ELSE [raw EXCEPT !.provider = IF @ = "none" THEN "openai" ELSE @,
                   !.filled = {IF k = "apiKey" THEN "apiKeyOverride" ELSE k : k \in @}]
toAgentModelFromLegacyModelNode(node) ==
  LET keys == {"model", "baseUrl", "credentialId", "apiKey"} \cap HoldsText(node.config)
  IN normalizeAgentModelFromConfig(
       [provider |-> IF "provider" \in HoldsText(node.config) THEN node.config["provider"]
                     ELSE "none",
        filled |-> keys])
normalizeAgentMemoryFromConfig(raw) == IF raw \in {"blank", "none"} THEN "null" ELSE raw

\* Tools without a key are dropped, blank credentials become none.
normalizeAgentTools(tools) ==
  LET keyed == Kept(tools, {t \in ToSet(tools) : t.toolKey # NoAction})
  IN [i \in DOMAIN keyed |->
        [keyed[i] EXCEPT !.credentialId = IF @ = "blank" THEN "absent" ELSE @]]

\* An agent's own parts win over those of its configuration; model and
\* memory leave the configuration only when the agent had none.
MigratedParts(node) ==
  {k \in DOMAIN node.old :
     \/ k = "model" /\ node.model = NoModel
     \/ k = "memory" /\ node.memory = "null"
     \/ k = "tools" /\ node.tools = NoTools}
omitKeys(base, keys) == [k \in DOMAIN base \ keys |-> base[k]]
MigratedAgent(node) ==
  LET parts == MigratedParts(node)
  IN [node EXCEPT
        !.model = IF "model" \in parts THEN normalizeAgentModelFromConfig(node.old.model) ELSE @,
        !.memory = IF "memory" \in parts THEN normalizeAgentMemoryFromConfig(node.old.memory)
                   ELSE @,
        !.tools = IF "tools" \in parts THEN normalizeAgentTools(node.old.tools)
                  ELSE IF @ = NoTools THEN @ ELSE normalizeAgentTools(@),
        !.old = omitKeys(@, parts)]
\* A list of tools that was empty there does not count.
IsMigrated(node) ==
  \/ MigratedParts(node) \cap {"model", "memory"} # {}
  \/ /\ MigratedAgent(node).tools # node.tools
     /\ ~(node.tools = NoTools /\ MigratedAgent(node).tools = <<>>)

(***************************************************************************)
(* migrateAgentSubnodes.  The edges into the old handles of an agent go;   *)
(* the model node at one's other end goes too, with every edge it has, and *)
(* gives its model to an agent whose own is not valid.  Edges are taken in *)
(* their order, so that an agent keeps the first valid model.              *)
(***************************************************************************)
brings(e, nodeById) ==
  e.targetHandle = "model" /\ e.source \in DOMAIN nodeById /\ isLegacyModelNode(nodeById[e.source])
MutAttached(e, nodeById, byId) ==
  IF ~brings(e, nodeById) THEN byId
  ELSE [byId EXCEPT ![e.target].model = toAgentModelFromLegacyModelNode(nodeById[e.source])]
attached(e, nodeById, byId) ==
  IF ~brings(e, nodeById) \/ isValidAgentModelConfig(byId[e.target].model) THEN byId
  ELSE LET model == toAgentModelFromLegacyModelNode(nodeById[e.source])
       IN IF model = NoModel THEN byId ELSE [byId EXCEPT ![e.target].model = model]
byIds(nodes) == [id \in {n.id : n \in nodes} |-> CHOOSE n \in nodes : n.id = id]
updatedById(nodes) ==
  LET nodeById == byIds(nodes)
  IN [id \in DOMAIN nodeById |->
        IF nodeById[id].nodeType = "aiAgent" THEN MigratedAgent(nodeById[id]) ELSE nodeById[id]]
isLegacy(e, byId) ==
  /\ e.targetHandle \in LEGACY_SUBNODE_EDGE_HANDLES
  /\ e.target \in DOMAIN byId /\ byId[e.target].nodeType = "aiAgent"
attachedAll(edges, nodeById, byId) ==
  LET after[i \in 0..Len(edges)] ==
        IF i = 0 THEN byId ELSE attached(edges[i], nodeById, after[i - 1])
  IN after[Len(edges)]
migrateAgentSubnodes(nodes, edges) ==
  LET nodeById == byIds(nodes)
      updated == updatedById(nodes)
      legacyEdges == {e \in ToSet(edges) : isLegacy(e, updated)}
      removed == {e.source : e \in {f \in legacyEdges : brings(f, nodeById)}}
      byId == attachedAll(Kept(edges, legacyEdges), nodeById, updated)
  IN [nodes |-> {byId[id] : id \in DOMAIN byId \ removed},
      edges |-> Kept(edges, {e \in ToSet(edges) \ legacyEdges :
                               {e.source, e.target} \cap removed = {}}),
      didMigrate |-> \/ legacyEdges # {}
                     \/ \E n \in nodes : n.nodeType = "aiAgent" /\ IsMigrated(n)]
=============================================================================
