------------------------------- MODULE Wizard -------------------------------
(***************************************************************************)
(* The wizard that adds an app action, an agent, or a tool of an agent to  *)
(* the canvas: its store, its steps and the test of a node it runs on the  *)
(* server.  The steps edit a draft; Next validates the step it leaves,     *)
(* Back and the edits validate nothing.  Closing the wizard does not stop  *)
(* a test that is under way: its answer falls into whatever the store      *)
(* holds by then.  The error texts of the last validation, which nothing   *)
(* reads, are left out, and so are the searches that narrow the lists.     *)
(***************************************************************************)
EXTENDS NodeCatalog

CONSTANTS
  Apps,        \* the apps offered, among those of the catalog
  MaxEdits,    \* bound: edits of a draft
  MaxSessions  \* bound: openings of the wizard

ASSUME WizardAssumption ==
  /\ Apps \subseteq AppKeys
  /\ MaxEdits \in Nat /\ MaxSessions \in Nat

VARIABLES
  isOpen, mode, stepIndex, draft, isTesting, testResult,  \* the wizard's store
  tests,     \* the sessions whose test requests are under way
  agent,     \* whether the agent that is given tools is still on the canvas
  added,     \* ghost: what the last opening added to the flow
  edits,     \* ghost: edits of this session's draft
  sessions   \* ghost: openings so far

wizardVars ==
  <<isOpen, mode, stepIndex, draft, isTesting, testResult, tests, agent, added, edits, sessions>>

Modes == {"add-app-node", "add-agent", "add-agent-tool"}
stepsForMode(m) ==
  CASE m = "add-agent" -> <<"Agent", "Model", "Memory", "Tools", "Review">>
    [] m = "add-agent-tool" -> <<"Tool", "Credential", "Configure", "Test", "Review">>
    [] OTHER -> <<"App", "Action", "Credential", "Configure", "Test", "Review">>
steps == stepsForMode(mode)
step == steps[stepIndex]
isLast == stepIndex = Len(steps)

(***************************************************************************)
(* Drafts.  action is the action of an app node or the key of a tool;      *)
(* label: whether the agent has one.                                       *)
(***************************************************************************)
buildDefaultAppDraft(app) ==
  LET action == IF app = NoApp THEN NoAction ELSE defaultActionKeyForApp(app)
  IN [app |-> app, action |-> action, label |-> TRUE, model |-> NoModel,
      memory |-> FALSE, tools |-> <<>>,
      config |-> [k \in {"app", "action", "credentialId"} |->
                    IF k = "credentialId" \/ app = NoApp THEN "blank" ELSE "text"]]
buildDefaultAgentDraft ==
  [buildDefaultAppDraft(NoApp) EXCEPT !.config = createDefaultNodeData("aiAgent")]
buildDefaultToolDraft ==
  [buildDefaultAppDraft(NoApp) EXCEPT !.config = [k \in {"credentialId"} |-> "blank"]]

\* The app the draft is about: a tool's is that of its action.
appOf(d) ==
  IF mode = "add-agent-tool"
  THEN IF toolFor(d.action) = {} THEN NoApp ELSE (CHOOSE t \in toolFor(d.action) : TRUE).app
  ELSE d.app

useWizardCredentialStep(d) ==
  IF appOf(d) = NoApp THEN {}
  ELSE APP_CATALOG[appOf(d)].base \cup {"credentialId"} \cup
       (IF appOf(d) = "bannerbear" THEN {"apiKey"} ELSE {})
useWizardConfigureStep(d) ==
  IF appOf(d) = NoApp THEN {} ELSE findAppAction(appOf(d), d.action)

(***************************************************************************)
(* What validateCurrentStep reports of a step of a draft.                  *)
(***************************************************************************)
validateStep(s, d) ==
  CASE s = "App" -> IF d.app = NoApp THEN {"app"} ELSE {}
    [] s = "Action" -> (IF d.app = NoApp THEN {"app"} ELSE {}) \cup
                       (IF d.action = NoAction THEN {"action"} ELSE {})
    [] s = "Tool" -> IF d.action = NoAction THEN {"toolKey"} ELSE {}
    [] s = "Credential" -> IF appOf(d) = NoApp THEN {"app"}
                           ELSE validateCredentialRequirement(appOf(d), d.config)
    [] s = "Configure" -> IF appOf(d) = NoApp \/ d.action = NoAction THEN {"action"}
                          ELSE UNION {validateSchema(a, d.config) : a \in useWizardConfigureStep(d)}
    [] s = "Agent" -> IF d.label THEN {} ELSE {"label"}
    [] s = "Model" -> IF isValidAgentModelConfig(d.model) THEN {} ELSE {"model"}
    [] OTHER -> {}
validateCurrentStep == validateStep(step, draft) = {}

NoResult == [of |-> 0]

WizardInit ==
  /\ isOpen = FALSE /\ mode = "add-app-node" /\ stepIndex = 1
  /\ draft = buildDefaultAppDraft(NoApp)
  /\ isTesting = FALSE /\ testResult = NoResult /\ tests = {}
  /\ agent = TRUE /\ added = {} /\ edits = 0 /\ sessions = 0

(***************************************************************************)
(* Opening and closing.  Both replace the whole state of the wizard.       *)
(***************************************************************************)
Open(m, d) ==
  /\ ~isOpen /\ sessions < MaxSessions
  /\ isOpen' = TRUE /\ mode' = m /\ stepIndex' = 1 /\ draft' = d
  /\ isTesting' = FALSE /\ testResult' = NoResult
  /\ edits' = 0 /\ sessions' = sessions + 1 /\ added' = {}
  /\ UNCHANGED <<tests, agent>>
openAddAppNode(app) == Open("add-app-node", buildDefaultAppDraft(app))
openAddAgent == Open("add-agent", buildDefaultAgentDraft)
openAddAgentTool == agent /\ Open("add-agent-tool", buildDefaultToolDraft)

Closed ==
  /\ isOpen' = FALSE /\ mode' = "add-app-node" /\ stepIndex' = 1
  /\ draft' = buildDefaultAppDraft(NoApp) /\ edits' = 0
  /\ isTesting' = FALSE /\ testResult' = NoResult
\* The cross closes the wizard at any time, Cancel only when no test runs.
close ==
  /\ isOpen
  /\ Closed
  /\ UNCHANGED <<tests, agent, added, sessions>>

(***************************************************************************)
(* Navigation.  The Model step gives an agent without a model the default  *)
(* one when it is shown.                                                   *)
(***************************************************************************)
defaultModel(p) == [provider |-> p, filled |-> MODEL_PROVIDERS[p]]
Shown(i) ==
  /\ stepIndex' = i /\ testResult' = NoResult
  /\ draft' = IF mode = "add-agent" /\ steps[i] = "Model" /\ draft.model = NoModel
              THEN [draft EXCEPT !.model = defaultModel("openai")] ELSE draft
  /\ UNCHANGED <<isOpen, mode, isTesting, tests, agent, added, edits, sessions>>
MutNextStep ==
  isOpen /\ ~isTesting /\ ~isLast /\ Shown(stepIndex + 1)
nextStep ==
  /\ isOpen /\ ~isTesting /\ ~isLast
  /\ validateCurrentStep
  /\ Shown(stepIndex + 1)
prevStep ==
  /\ isOpen /\ ~isTesting /\ stepIndex > 1
  /\ Shown(stepIndex - 1)

(***************************************************************************)
(* The steps' edits of the draft.                                          *)
(***************************************************************************)
setDraft(s, d) ==
  /\ isOpen /\ step = s /\ edits < MaxEdits /\ d # draft
  /\ draft' = d /\ edits' = edits + 1
  /\ UNCHANGED <<isOpen, mode, stepIndex, isTesting, testResult, tests, agent, added, sessions>>

\* Another app takes the first action of its own; the other keys stay.
AppSelectStep ==
  \E app \in Apps :
    setDraft("App", [draft EXCEPT
      !.app = app, !.action = defaultActionKeyForApp(app),
      !.config = Patched(@, [app |-> "text", action |-> "text"])])

ActionSelectStep ==
  \E a \in IF draft.app = NoApp THEN {} ELSE AppActionList(draft.app) :
    setDraft("Action", [draft EXCEPT !.action = a.key,
                          !.config = Patched(@, [action |-> "text"])])

\* The tools are offered all, those to come too; the configuration stays.
ToolSelectStep ==
  \E t \in AGENT_TOOL_CATALOG :
    t.app \in Apps /\ setDraft("Tool", [draft EXCEPT !.action = t.action.key])

\* A field of the form holds what is typed into it, or is emptied again.
SchemaForm(s, keys, value) ==
  \E k \in keys :
    setDraft(s, [draft EXCEPT !.config = Patched(@, [key \in {k} |-> value])])
WizardCredentialStep ==
  \E v \in {"text", "blank"} : SchemaForm("Credential", useWizardCredentialStep(draft), v)
WizardConfigureStep ==
  \E a \in useWizardConfigureStep(draft) :
    \/ \E v \in {"text", "blank"} : SchemaForm("Configure", a.text, v)
    \/ \E v \in {"number", "blank"} : SchemaForm("Configure", a.numbers, v)

AgentBasicsStep == setDraft("Agent", [draft EXCEPT !.label = ~@])

\* Another provider resets the model, its endpoint and both credentials.
AgentModelStep ==
  \/ \E p \in DOMAIN MODEL_PROVIDERS : setDraft("Model", [draft EXCEPT !.model = defaultModel(p)])
  \/ \E k \in {"model", "credentialId", "apiKeyOverride"} :
       /\ k = "credentialId" => draft.model.provider # "custom"
       /\ \E filled \in {draft.model.filled \cup {k}, draft.model.filled \ {k}} :
            setDraft("Model", [draft EXCEPT !.model.filled = filled])

AgentMemoryStep == setDraft("Memory", [draft EXCEPT !.memory = ~@])

\* A tool added here has no configuration yet.
useAgentToolsStep(toolKey) == [toolKey |-> toolKey, credentialId |-> "blank", config |-> <<>>]
AgentToolsStep ==
  \/ \E app \in Apps :
       LET tool == useAgentToolsStep(defaultActionKeyForApp(app))
       IN setDraft("Tools", [draft EXCEPT !.tools = Append(@, tool)])
  \/ \E i \in DOMAIN draft.tools :
       setDraft("Tools", [draft EXCEPT !.tools = RemoveAt(@, i)])

Edit ==
  \/ AppSelectStep \/ ActionSelectStep \/ ToolSelectStep
  \/ WizardCredentialStep \/ WizardConfigureStep
  \/ AgentBasicsStep \/ AgentModelStep \/ AgentMemoryStep \/ AgentToolsStep

(***************************************************************************)
(* The test of the node: a request that takes at most 20 seconds.  Its     *)
(* answer, an error included, becomes the result that is shown and ends    *)
(* the testing, whatever the wizard is doing by then.                      *)
(***************************************************************************)
runTest ==
  /\ isOpen /\ step = "Test" /\ ~isTesting
  /\ sessions \notin tests
  /\ isTesting' = TRUE /\ testResult' = NoResult
  /\ tests' = tests \cup {sessions}
  /\ UNCHANGED <<isOpen, mode, stepIndex, draft, agent, added, edits, sessions>>
MutTestAnswered(s) ==
  /\ s \in tests
  /\ tests' = tests \ {s} /\ testResult' = [of |-> s]
  /\ UNCHANGED <<isOpen, mode, stepIndex, draft, isTesting, agent, added, edits, sessions>>
TestAnswered(s) ==
  /\ s \in tests
  /\ tests' = tests \ {s} /\ testResult' = [of |-> s] /\ isTesting' = FALSE
  /\ UNCHANGED <<isOpen, mode, stepIndex, draft, agent, added, edits, sessions>>

(***************************************************************************)
(* Confirming.  It adds what the draft holds, without another validation;  *)
(* an error leaves the wizard open.                                        *)
(***************************************************************************)
confirmAppNode ==
  [nodeType |-> "app", app |-> draft.app, action |-> draft.action,
   config |-> Patched(createDefaultNodeData("app"),
                      Patched(draft.config, [app |-> "text", action |-> "text"]))]
confirmAgent ==
  [nodeType |-> "aiAgent", config |-> draft.config, model |-> draft.model, tools |-> draft.tools]
confirmTool ==
  [nodeType |-> "tool", toolKey |-> draft.action, config |-> draft.config,
   credentialId |-> draft.config["credentialId"]]
confirm ==
  /\ isOpen /\ isLast /\ ~isTesting
  /\ CASE mode = "add-app-node" ->
            draft.app # NoApp /\ draft.action # NoAction /\ added' = added \cup {confirmAppNode}
       [] mode = "add-agent" -> added' = added \cup {confirmAgent}
       [] OTHER -> draft.action # NoAction /\ agent /\ added' = added \cup {confirmTool}
  /\ Closed
  /\ UNCHANGED <<tests, agent, sessions>>

\* The delete key and a load of the flow reach the canvas behind the wizard.
AgentDeleted ==
  /\ isOpen /\ agent /\ mode = "add-agent-tool" /\ agent' = FALSE
  /\ UNCHANGED <<isOpen, mode, stepIndex, draft, isTesting, testResult, tests, added, edits, sessions>>

WizardNext ==
  \/ \E app \in Apps : openAddAppNode(app)
  \/ openAddAgent \/ openAddAgentTool \/ close
  \/ nextStep \/ prevStep \/ Edit
  \/ runTest \/ (\E s \in tests : TestAnswered(s))
  \/ confirm \/ AgentDeleted

\* Requests end: with an answer, an error or the timeout.
WizardFairness == \A s \in 1..MaxSessions : WF_wizardVars(TestAnswered(s))

WizardSpec == WizardInit /\ [][WizardNext]_wizardVars /\ WizardFairness

(***************************************************************************)
(* Every step before the one shown is still valid, though only Next        *)
(* validates and later steps and Back edit the same draft; the last step   *)
(* adds the draft without looking at it again, and what it adds needs no   *)
(* more configuring: the canvas and the inspector, which judge it by rules *)
(* of their own, find nothing missing in it, with one exception, Bare: the *)
(* tools that the Tools step of the agent's wizard adds have neither a     *)
(* credential nor a configuration, no step asks for them, and the          *)
(* inspector shows those with required fields as "Needs config"            *)
(* (use-agent-tools-step.ts, AgentToolItem.tsx, node-utils.ts              *)
(* isAppActionConfigured, agent-config-utils.ts validateTool, the          *)
(* catalog's validate).                                                    *)
(***************************************************************************)
PassedStepsHold ==
  isOpen => \A i \in 1..stepIndex - 1 : validateStep(steps[i], draft) = {}
Bare(tool) == tool = useAgentToolsStep(tool.toolKey)
IsConfigured(n) ==
  CASE n.nodeType = "app" -> /\ isAppActionConfigured(n.app, n.action, n.config)
                             /\ validate("app", n.app, n.config, NoModel)
    [] n.nodeType = "aiAgent" -> /\ validate("aiAgent", NoApp, n.config, n.model)
                                 /\ \A i \in DOMAIN n.tools :
                                      validateTool(n.tools[i]) = {} \/ Bare(n.tools[i])
    [] OTHER -> validateTool(n) = {}

\* The wizard adds nothing that is shown as unfinished but an agent's bare tools.
AddedIsConfigured == PassedStepsHold /\ \A n \in added : IsConfigured(n)

(***************************************************************************)
(* The buttons a test disables are enabled again, even when the wizard is  *)
(* closed and opened while tests are under way.                            *)
(***************************************************************************)
TestEnds == isTesting ~> ~isTesting
=============================================================================
