------------------------------ MODULE MCBuilder ------------------------------
(***************************************************************************)
(* An instance of the builder's wizard, inspector and canvas.  They share  *)
(* the store's node data, which each models from its own side; a behaviour *)
(* is of one of them, the others stay in an initial state.                 *)
(***************************************************************************)
EXTENDS Wizard, Inspector, Canvas

VARIABLE focus  \* the part a behaviour is of

builderVars == <<wizardVars, inspectorVars, canvasVars, focus>>

BuilderInit ==
  /\ focus \in {"wizard", "inspector", "canvas"}
  /\ WizardInit /\ CanvasInit
  /\ InspectorInit
  /\ focus # "inspector" => nodeType = "slack"

BuilderNext ==
  /\ UNCHANGED focus
  /\ \/ focus = "wizard" /\ WizardNext /\ UNCHANGED <<inspectorVars, canvasVars>>
     \/ focus = "inspector" /\ InspectorNext /\ UNCHANGED <<wizardVars, canvasVars>>
     \/ focus = "canvas" /\ CanvasNext /\ UNCHANGED <<wizardVars, inspectorVars>>

BuilderSpec == BuilderInit /\ [][BuilderNext]_builderVars /\ WizardFairness

\* Expressions as users of a cron service write them: empty, every minute,
\* on weekdays ("1-5"), with seconds, out of range, one day of the week, a
\* step above 59, and no expression at all.
MCCronTexts == {
  <<>>,
  <<Star, Star, Star, Star, Star>>,
  <<List({0}), List({9}), Star, Star, Other({})>>,
  <<List({0}), List({0}), List({9}), Star, Star, List({1, 3})>>,
  <<List({70}), List({25}), List({32}), Star, Star>>,
  <<List({0}), Star, Star, List({6}), Star>>,
  <<Every(90), Star, Star, Star, Star>>,
  <<Other({})>> }

\* Stored flows: none yet; one with an agent whose model and memory are in its
\* config and a trigger of an old type; one with chat models as sub-nodes; one
\* whose agent has a model already and tools, one of them without a key, with a
\* node of an unknown type.
StoredNode(id, t, type, config, old, model) ==
  [id |-> id, nodeType |-> t, type |-> type, config |-> config, old |-> old,
   model |-> model, memory |-> "null", tools |-> NoTools]
OpenAI(keys) == [provider |-> "openai", filled |-> keys]
Agent(id, old, model) == StoredNode(id, "aiAgent", "flowNode", [prompt |-> "text"], old, model)
ChatModel(id, t, config) == StoredNode(id, t, "flowNode", config, <<>>, NoModel)
Tool(key, credential) == [toolKey |-> key, credentialId |-> credential]
StoredEdge(id, s, h, t) ==
  [id |-> id, source |-> s, sourceHandle |-> "none", target |-> t, targetHandle |-> h]
Definition(ns, es, selected) == [nodes |-> ns, edges |-> es, notes |-> {}, selected |-> selected]
MCDefinitions == {
  Definition({}, <<>>, {}),
  Definition({Agent(1, [model |-> [provider |-> "none", filled |-> {"model", "apiKey"}],
                        memory |-> "conversation"], NoModel),
              StoredNode(2, "unknown", "webhook", <<>>, <<>>, NoModel)},
             <<StoredEdge(3, 2, "none", 1)>>, {2}),
  Definition({Agent(1, <<>>, NoModel), ChatModel(2, "openaiChatModel", [credentialId |-> "blank"]),
              ChatModel(3, "chatModel", [provider |-> "grok", apiKey |-> "text"])},
             <<StoredEdge(5, 3, "model", 1), StoredEdge(4, 2, "model", 1)>>, {4}),
  Definition({[Agent(1, [model |-> OpenAI({"model", "apiKeyOverride"})], OpenAI({"model"}))
                 EXCEPT !.tools = <<Tool(NoAction, "blank"), Tool("tool", "blank")>>],
              ChatModel(2, "chatModel", [apiKey |-> "text"]),
              StoredNode(3, "x", "y", <<>>, <<>>, NoModel)},
             <<StoredEdge(4, 2, "model", 1), StoredEdge(5, 2, "none", 3)>>, {1, 4}) }
=============================================================================
