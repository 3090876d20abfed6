------------------------------ MODULE Inspector ------------------------------
(***************************************************************************)
(* The inspector's panels for one node: the schedule form, the conditions  *)
(* of an if node, the app panel, the chat model panel, and the tabs of an  *)
(* agent.  Each panel shows what it derives from the node and writes       *)
(* patches of the node back.  The effects of a panel run before the next   *)
(* event of the user, so that an edit and the effects it triggers are one  *)
(* step.                                                                   *)
(***************************************************************************)
EXTENDS NodeCatalog, Integers

CONSTANTS
  CronTexts,   \* the expressions that are typed, or that stored flows hold
  MaxPatches   \* bound: edits of the node

\* Cron expressions: sequences of fields.  A field is *, */n, a list of
\* numbers, or something else of which the numbers of n are a part.
Fields == [kind : {"star", "every", "list", "other"}, n : SUBSET Int]
IsCron(e) ==
  /\ e \in Seq(Fields)
  /\ \A i \in DOMAIN e : IsFiniteSet(e[i].n) /\ (e[i].kind = "every" => \E k \in e[i].n : e[i].n = {k})

ASSUME InspectorAssumption == MaxPatches \in Nat /\ \A e \in CronTexts : IsCron(e)

VARIABLES
  nodeType,  \* the type of the selected node
  node,      \* its data
  form,      \* the state of the schedule form
  chosen,    \* ghost: what that form held when its last edit was applied
  patches    \* ghost: edits so far

inspectorVars == <<nodeType, node, form, chosen, patches>>

(***************************************************************************)
(* Cron expressions, read and written.                                     *)
(***************************************************************************)
Field(kind, n) == [kind |-> kind, n |-> n]
Star == Field("star", {})
Every(i) == Field("every", {i})
List(s) == Field("list", s)
Other(s) == Field("other", s)

The(s) == CHOOSE x \in s : TRUE
isInt(f) == f.kind = "list" /\ Cardinality(f.n) = 1
clampInt(v, min, max) == IF v < min THEN min ELSE IF v > max THEN max ELSE v
clampAll(s, min, max) == {clampInt(v, min, max) : v \in s}

MutParseDowList(f) == clampAll(f.n, 1, 6)
parseDowList(f) == clampAll(f.n, 0, 6)

Hourly == [mode |-> "hourly", everyMinutes |-> 5, minute |-> 0, hour |-> 0,
           days |-> {1}, dayOfMonth |-> 1, cron |-> <<>>]

parseScheduleExpression(raw) ==
  LET p == IF Len(raw) = 6 THEN Tail(raw) ELSE raw
      base == [Hourly EXCEPT !.mode = "cron", !.cron = raw]
      min == p[1]  hour == p[2]  dom == p[3]  dow == p[5]
      minute == clampInt(The(min.n), 0, 59)
      at == [base EXCEPT !.minute = minute, !.hour = clampInt(The(hour.n), 0, 23)]
  IN IF raw = <<>> THEN Hourly
     ELSE IF Len(p) # 5 \/ (Len(p) = 5 /\ p[4] # Star) THEN base
     ELSE IF <<hour, dom, dow>> = <<Star, Star, Star>> THEN
            CASE min = Star -> [base EXCEPT !.mode = "every", !.everyMinutes = 1]
              [] min.kind = "every" ->
                   [base EXCEPT !.mode = "every", !.everyMinutes = clampInt(The(min.n), 1, 59)]
              [] isInt(min) -> [base EXCEPT !.mode = "hourly", !.minute = minute]
              [] OTHER -> base
     ELSE IF ~isInt(min) \/ ~isInt(hour) THEN base
     ELSE CASE dom = Star /\ dow = Star -> [at EXCEPT !.mode = "daily"]
            [] dom = Star /\ dow # Star ->
                 [at EXCEPT !.mode = "weekly",
                            !.days = IF parseDowList(dow) = {} THEN {1} ELSE parseDowList(dow)]
            [] isInt(dom) /\ dow = Star ->
                 [at EXCEPT !.mode = "monthly", !.dayOfMonth = clampInt(The(dom.n), 1, 31)]
            [] OTHER -> base

scheduleStateToExpression(s) ==
  LET One(v, min, max) == List({clampInt(v, min, max)})
      minute == One(s.minute, 0, 59)
      hour == One(s.hour, 0, 23)
      n == clampInt(s.everyMinutes, 1, 59)
  IN CASE s.mode = "every" ->
            <<IF n = 1 THEN Star ELSE Every(n), Star, Star, Star, Star>>
       [] s.mode = "hourly" -> <<minute, Star, Star, Star, Star>>
       [] s.mode = "daily" -> <<minute, hour, Star, Star, Star>>
       [] s.mode = "weekly" ->
            <<minute, hour, Star, Star,
              List(IF s.days = {} THEN {1} ELSE clampAll(s.days, 0, 6))>>
       [] s.mode = "monthly" -> <<minute, hour, One(s.dayOfMonth, 1, 31), Star, Star>>
       [] OTHER -> s.cron

(***************************************************************************)
(* Conditions.  A stored node may have none: the panel then shows one.     *)
(***************************************************************************)
NewCondition == [type |-> "string", operator |-> "is equal to", left |-> FALSE, right |-> FALSE]
coerceConditions(raw) == IF raw = <<>> THEN <<NewCondition>> ELSE raw

Operator(label, needsValue) == [label |-> label, needsValue |-> needsValue]
Plain(labels) == [i \in DOMAIN labels |-> Operator(labels[i], FALSE)]
Comparing(labels) == [i \in DOMAIN labels |-> Operator(labels[i], TRUE)]
OPERATORS ==
  LET exist == Plain(<<"exists", "does not exist">>)
      empty == Plain(<<"is empty", "is not empty">>)
      equal == Comparing(<<"is equal to", "is not equal to">>)
  IN [string |-> exist \o empty \o equal \o Comparing(
        <<"contains", "does not contain", "starts with", "does not start with", "ends with",
          "does not end with", "matches regex", "does not match regex">>),
      number |-> exist \o equal \o Comparing(
        <<"is greater than", "is less than", "is greater than or equal to",
          "is less than or equal to">>),
      datetime |-> exist \o equal \o Comparing(
        <<"is after", "is before", "is after or equal to", "is before or equal to">>),
      boolean |-> exist \o Plain(<<"is true", "is false">>),
      array |-> exist \o empty \o Comparing(
        <<"contains", "does not contain", "length equal to", "length not equal to",
          "length greater than", "length less than", "length greater than or equal to",
          "length less than or equal to">>),
      object |-> exist \o empty]
operatorNeedsValue(type, operator) ==
  \E o \in ToSet(OPERATORS[type]) : o.label = operator /\ o.needsValue

(***************************************************************************)
(* Nodes.  One record holds the data of every type; credential: the        *)
(* provider of the chosen credential, or "none".                           *)
(***************************************************************************)
NewModel == [provider |-> "openai", credential |-> "none", filled |-> {"model", "baseUrl"}]
NewNode ==
  [label |-> "own", expression |-> <<>>, conditions |-> <<>>, flags |-> {}, app |-> "googleSheets",
   action |-> "gsheets.appendRow", config |-> <<>>, model |-> NewModel,
   memory |-> "none", tools |-> <<>>, maxAttempts |-> 1, initialInterval |-> 1000]

providerOf(m) == IF m.provider = "none" THEN "openai" ELSE m.provider
configOf(m) ==
  [k \in {"provider"} \cup m.filled \cup (IF m.credential = "none" THEN {} ELSE {"credentialId"}) |->
     "text"]

\* A mounted app panel at once replaces an action its app does not have.
useInspectorAppConfig(n) ==
  LET app == IF normalizeAppKey(n.app) = NoApp THEN "googleSheets" ELSE normalizeAppKey(n.app)
      default == defaultActionKeyForApp(app)
  IN CASE n.action = NoAction -> [n EXCEPT !.app = app, !.action = default]
       [] n.action # NoAction /\ findAppAction(app, n.action) = {} -> [n EXCEPT !.action = default]
       [] OTHER -> n

\* A tool: the agent wizard's has no configuration, the tool wizard's keeps the
\* credential that was chosen there in its configuration as well.
WizardCredential == "c1"
ToolOf(origin, config) ==
  [origin |-> origin, toolKey |-> "slack.sendMessage", enabled |-> TRUE,
   credentialId |-> IF config = <<>> THEN "blank" ELSE config["credentialId"], config |-> config]

\* What a flow may hold when a node of it is selected.
Stored(t) ==
  CASE t = "cron" -> {[NewNode EXCEPT !.expression = e] : e \in CronTexts}
    [] t = "app" -> {[NewNode EXCEPT !.app = a[1], !.action = a[2]] :
                       a \in {<<"gsheets", "gsheets.appendRow">>, <<"slack", NoAction>>,
                              <<"", NoAction>>, <<"bananabear", "bannerbear.removed">>}}
    [] t = "chatModel" -> {[NewNode EXCEPT !.label = l] : l \in {"own", "openai"}}
    [] t = "aiAgent" ->
         {[NewNode EXCEPT !.model = m,
             !.tools = <<ToolOf("agent wizard", <<>>),
                         ToolOf("tool wizard", [credentialId |-> WizardCredential])>>] :
            m \in {NewModel, [NewModel EXCEPT !.provider = "none", !.filled = {}]}}
    [] OTHER -> {NewNode}

InspectorTypes == {"cron", "if", "app", "chatModel", "aiAgent", "slack", "httpRequest"}

InspectorInit ==
  /\ nodeType \in InspectorTypes
  /\ \E n \in Stored(nodeType) :
       /\ node = IF nodeType = "app" THEN useInspectorAppConfig(n) ELSE n
       /\ form = parseScheduleExpression(n.expression)
  /\ chosen = form /\ patches = 0

Patch(t, n) ==
  /\ nodeType = t /\ patches < MaxPatches /\ n # node
  /\ node' = n /\ patches' = patches + 1
  /\ UNCHANGED nodeType
updateNode(t, n) == Patch(t, n) /\ UNCHANGED <<form, chosen>>

(***************************************************************************)
(* The schedule form.  The expression is written back, and read again when *)
(* that changes it.                                                        *)
(***************************************************************************)
apply(next) ==
  LET e == scheduleStateToExpression(next) IN
  /\ nodeType = "cron" /\ patches < MaxPatches /\ next # form
  /\ chosen' = next /\ patches' = patches + 1
  /\ node' = [node EXCEPT !.expression = e]
  /\ form' = IF e = node.expression THEN next ELSE parseScheduleExpression(e)
  /\ UNCHANGED nodeType

ScheduleModeSelect ==
  \E m \in {"every", "hourly", "daily", "weekly", "monthly", "cron"} :
    apply([form EXCEPT !.mode = m])
ScheduleEveryConfig ==
  form.mode = "every" /\ \E v \in {0, 7, 60} : apply([form EXCEPT !.everyMinutes = clampInt(v, 1, 59)])
ScheduleHourlyConfig ==
  form.mode = "hourly" /\ \E v \in {-1, 7, 60} : apply([form EXCEPT !.minute = clampInt(v, 0, 59)])
TimePicker(mode) ==
  form.mode = mode /\ \E h \in {0, 23}, m \in {0, 55} : apply([form EXCEPT !.hour = h, !.minute = m])
ScheduleDailyConfig == TimePicker("daily")
ScheduleWeeklyConfig ==
  \/ TimePicker("weekly")
  \/ /\ form.mode = "weekly"
     /\ \E day \in {0, 1, 6} :
          LET days == IF day \in form.days THEN form.days \ {day} ELSE form.days \cup {day}
          IN apply([form EXCEPT !.days = IF days = {} THEN {1} ELSE days])
ScheduleMonthlyConfig ==
  \/ TimePicker("monthly")
  \/ form.mode = "monthly" /\ \E v \in {0, 15, 32} : apply([form EXCEPT !.dayOfMonth = clampInt(v, 1, 31)])
ScheduleCronConfig ==
  form.mode = "cron" /\ \E e \in CronTexts : apply([form EXCEPT !.cron = e])

ScheduleConfig ==
  \/ ScheduleModeSelect \/ ScheduleEveryConfig \/ ScheduleHourlyConfig \/ ScheduleDailyConfig
  \/ ScheduleWeeklyConfig \/ ScheduleMonthlyConfig \/ ScheduleCronConfig

(***************************************************************************)
(* The conditions of an if node.  Another type takes its first operator;   *)
(* the last condition that is removed leaves a new one.                    *)
(***************************************************************************)
shownConditions == coerceConditions(node.conditions)
updateConditions(next) == updateNode("if", [node EXCEPT !.conditions = next])
IfConfig ==
  \/ \E i \in DOMAIN shownConditions :
       LET cond == shownConditions[i]
           update(c) == updateConditions([shownConditions EXCEPT ![i] = c])
       IN \/ \E t \in DOMAIN OPERATORS :
               update([cond EXCEPT !.type = t, !.operator = OPERATORS[t][1].label])
          \/ \E o \in ToSet(OPERATORS[cond.type]) : update([cond EXCEPT !.operator = o.label])
          \/ update([cond EXCEPT !.left = ~@])
          \/ operatorNeedsValue(cond.type, cond.operator) /\ update([cond EXCEPT !.right = ~@])
          \/ updateConditions(coerceConditions(RemoveAt(shownConditions, i)))
  \/ updateConditions(Append(shownConditions, NewCondition))
  \/ \E f \in {"OR", "convertTypes", "ignoreCase"} :
       updateNode("if", [node EXCEPT !.flags = (@ \cup {f}) \ (@ \cap {f})])

(***************************************************************************)
(* The app panel.                                                          *)
(***************************************************************************)
InspectorAppConfig ==
  LET app == normalizeAppKey(node.app)
      patch(n) == updateNode("app", useInspectorAppConfig(n))
  IN \/ \E a \in AppKeys : patch([node EXCEPT !.app = a, !.action = defaultActionKeyForApp(a)])
     \/ \E a \in AppActionList(app) : patch([node EXCEPT !.action = a.key])
     \/ \E k \in {"credentialId"}, v \in {"text", "blank"} :
          patch([node EXCEPT !.config = Patched(@, [key \in {k} |-> v])])

(***************************************************************************)
(* Chat models.  Another provider resets all; the label follows if it is   *)
(* the default label of the provider that is left.  The credentials that   *)
(* are offered are those of the provider that is shown.                    *)
(***************************************************************************)
MutGetProviderDefaults(p) == [node.model EXCEPT !.provider = p]
getProviderDefaults(p) == [NewModel EXCEPT !.provider = p]
Typed(m, key) ==
  {[m EXCEPT !.filled = f] : f \in UNION {{m.filled \cup {k}, m.filled \ {k}} :
                                          k \in {"model", "baseUrl", key}}}
CredentialField(m) == [m EXCEPT !.credential = providerOf(m)]
InspectorChatModelConfig ==
  \/ \E p \in {"openai", "gemini", "grok"} :
       updateNode("chatModel",
         [node EXCEPT !.model = getProviderDefaults(p),
                      !.label = IF p # node.model.provider /\ @ = node.model.provider THEN p ELSE @])
  \/ \E m \in Typed(node.model, "apiKey") \cup {CredentialField(node.model)} :
       updateNode("chatModel", [node EXCEPT !.model = m])
chatModelInvalid == "model" \notin node.model.filled \/
                    (node.model.credential = "none" /\ "apiKey" \notin node.model.filled)

(***************************************************************************)
(* The tabs of an agent.  The first edit of a missing model makes one      *)
(* without a name, at the default endpoint.                                *)
(***************************************************************************)
patchModel(m) ==
  updateNode("aiAgent", [node EXCEPT !.model = [m EXCEPT
    !.provider = providerOf(m),
    !.filled = IF node.model.provider = "none" THEN @ \cup {"baseUrl"} ELSE @]])
AgentModelTab ==
  \/ \E p \in DOMAIN MODEL_PROVIDERS :
       patchModel([provider |-> p, credential |-> "none", filled |-> MODEL_PROVIDERS[p]])
  \/ \E m \in Typed(node.model, "apiKeyOverride") : patchModel(m)
  \/ node.model.provider # "custom" /\ patchModel(CredentialField(node.model))
AgentMemoryTab ==
  \E m \in {"none", "conversation"} : updateNode("aiAgent", [node EXCEPT !.memory = m])

\* The credential of a patch goes to the tool, the rest to its configuration.
patchTool(tool, patch) ==
  [tool EXCEPT !.credentialId = IF "credentialId" \in DOMAIN patch THEN patch["credentialId"] ELSE @,
               !.config = Patched(@, [k \in DOMAIN patch \ {"credentialId"} |-> patch[k]])]
AgentToolItem(i) ==
  LET tools(t) == updateNode("aiAgent", [node EXCEPT !.tools = t]) IN
  \/ i > 1 /\ tools(InsertAt(RemoveAt(node.tools, i), i - 1, node.tools[i]))
  \/ i < Len(node.tools) /\ tools(InsertAt(RemoveAt(node.tools, i), i + 1, node.tools[i]))
  \/ tools(RemoveAt(node.tools, i))
  \/ tools([node.tools EXCEPT ![i].enabled = ~@])
  \/ \E c \in {"c1", "c2"} : tools([node.tools EXCEPT ![i] = patchTool(@, [credentialId |-> c])])
  \/ \E k \in {"channel", "message"}, v \in {"text", "blank"} :
       tools([node.tools EXCEPT ![i] = patchTool(@, [key \in {k} |-> v])])
AgentToolsTab == nodeType = "aiAgent" /\ \E i \in DOMAIN node.tools : AgentToolItem(i)

(***************************************************************************)
(* The panels every type has, and the form of the types without one.       *)
(***************************************************************************)
FieldRow ==
  \E k \in {"text", "toggle"}, v \in {"text", "blank"} :
    updateNode(nodeType, [node EXCEPT !.config = Patched(@, [key \in {k} |-> v])])
SlackConfig == nodeType = "slack" /\ FieldRow
FailureHandling ==
  /\ nodeType = "httpRequest"
  /\ \/ \E v \in {0, 3} : updateNode(nodeType, [node EXCEPT !.maxAttempts = IF v > 1 THEN v ELSE 1])
     \/ /\ node.maxAttempts > 1
        /\ \E v \in {0, 500} :
             updateNode(nodeType, [node EXCEPT !.initialInterval = IF v > 100 THEN v ELSE 100])
InspectorConfigPanel ==
  nodeType = "httpRequest" /\ updateNode(nodeType, [node EXCEPT !.label = "typed"])

ConfigForm ==
  \/ ScheduleConfig \/ IfConfig
  \/ (nodeType = "app" /\ InspectorAppConfig)
  \/ InspectorChatModelConfig
  \/ AgentModelTab \/ AgentMemoryTab \/ AgentToolsTab
  \/ SlackConfig \/ (nodeType = "httpRequest" /\ FieldRow)

InspectorNext == ConfigForm \/ InspectorConfigPanel \/ FailureHandling

InspectorSpec == InspectorInit /\ [][InspectorNext]_inspectorVars

(***************************************************************************)
(* Why panels and node agree: what a node of each type may hold.           *)
(***************************************************************************)
Fits(s) ==
  /\ s \in [mode : {"every", "hourly", "daily", "weekly", "monthly", "cron"},
            everyMinutes : 1..59, minute : 0..59, hour : 0..23,
            days : SUBSET (0..6), dayOfMonth : 1..31, cron : Seq(Fields)]
  /\ s.days # {} /\ IsCron(s.cron)
FormFits == Fits(form)

Conditions ==
  UNION {[type : {t}, operator : {o.label : o \in ToSet(OPERATORS[t])},
          left : BOOLEAN, right : BOOLEAN] : t \in DOMAIN OPERATORS}
Providers == {"none"} \cup DOMAIN MODEL_PROVIDERS
Models ==
  {m \in [provider : Providers, credential : Providers,
          filled : SUBSET {"model", "baseUrl", "apiKey", "apiKeyOverride"}] :
     m.credential \in {"none", m.provider}}
ToolConfigs ==
  UNION {[D -> {"text", "blank", "c1"}] : D \in SUBSET {"credentialId", "channel", "message"}}
ConfigFits(origin, config) ==
  IF origin = "agent wizard" THEN "credentialId" \notin DOMAIN config
  ELSE "credentialId" \in DOMAIN config /\ config["credentialId"] = WizardCredential
ShownTools ==
  {t \in [origin : {"agent wizard", "tool wizard"}, toolKey : {"slack.sendMessage"},
          enabled : BOOLEAN, credentialId : {"blank", "c1", "c2"}, config : ToolConfigs] :
     ConfigFits(t.origin, t.config)}
NodeFits(t, n) ==
  /\ DOMAIN n = DOMAIN NewNode
  /\ n.conditions \in Seq(Conditions) /\ n.model \in Models /\ n.tools \in Seq(ShownTools)
  /\ t = "app" => /\ normalizeAppKey(n.app) \in AppKeys
                  /\ findAppAction(normalizeAppKey(n.app), n.action) # {}
  /\ t = "chatModel" => /\ n.model.provider # "none"
                        /\ n.model.filled \subseteq {"model", "baseUrl", "apiKey"}
PanelInv == NodeFits(nodeType, node)

(***************************************************************************)
(* A schedule made with the simple forms reads back as it was made: the    *)
(* form that is parsed from the expression it wrote shows the same mode,   *)
(* time and days.                                                          *)
(***************************************************************************)
Used(s) ==
  CASE s.mode = "every" -> <<s.everyMinutes>>
    [] s.mode = "hourly" -> <<s.minute>>
    [] s.mode = "daily" -> <<s.minute, s.hour>>
    [] s.mode = "weekly" -> <<s.minute, s.hour, s.days>>
    [] s.mode = "monthly" -> <<s.minute, s.hour, s.dayOfMonth>>
    [] OTHER -> <<>>

\* CronConfig shows the schedule it wrote.
ScheduleIsKept ==
  chosen.mode # "cron" => form.mode = chosen.mode /\ Used(form) = Used(chosen)

(***************************************************************************)
(* What the panels show is what the node holds and runs with: the app's    *)
(* action is one of the app that is shown, a condition's operator one of   *)
(* its type's, by which the server evaluates it, the chosen credential one *)
(* of the model's provider.  The panel of a chat model misses something    *)
(* when its node does.  The credential a tool shows is its own, with one   *)
(* exception, HidesChange: the tool wizard stores the credential in the    *)
(* tool's configuration too (toolSlice.ts), a change writes only the       *)
(* tool's, and the panel goes on showing the configuration's               *)
(* (use-inspector-app-config.ts, IfConfig.tsx, AgentModelTab.tsx,          *)
(* agent-config.tsx, AgentToolItem.tsx, chat-model-config.tsx, models.ts). *)
(***************************************************************************)
AppShown == nodeType = "app" => findAppAction(normalizeAppKey(node.app), node.action) # {}
OperatorFitsType ==
  \A i \in DOMAIN shownConditions :
    \E o \in ToSet(OPERATORS[shownConditions[i].type]) : o.label = shownConditions[i].operator
CredentialFits == node.model.credential \in {"none", node.model.provider}
HidesChange(t) == t.origin = "tool wizard" /\ t.credentialId # WizardCredential
ToolCredentialShown ==
  \A i \in DOMAIN node.tools :
    LET t == node.tools[i] IN
    toolValue(t)["credentialId"] = t.credentialId \/ HidesChange(t)

\* The panels agree with the node's data they edit, except that a changed
\* credential of a tool of the tool wizard is not shown.
PanelShowsNode ==
  /\ AppShown /\ OperatorFitsType /\ CredentialFits /\ ToolCredentialShown
  /\ nodeType = "chatModel" =>
       (chatModelInvalid <=> ~validate("chatModel", NoApp, configOf(node.model), NoModel))
=============================================================================
