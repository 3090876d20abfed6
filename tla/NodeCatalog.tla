---------------------------- MODULE NodeCatalog ----------------------------
(***************************************************************************)
(* The tables of the builder: the apps with their actions, the node types  *)
(* of the canvas, the providers of chat models, and the predicates the     *)
(* palette, the wizard, the canvas and the inspector evaluate over them.   *)
(*                                                                         *)
(* A configuration is abstracted to what the predicates tell apart.        *)
(* It is a function from the keys set so far to "text" (a string that is   *)
(* not blank), "number" (what a number input stores) or "blank".  Labels,  *)
(* texts, icons and optional fields, which no predicate reads, are left    *)
(* out.                                                                    *)
(***************************************************************************)
EXTENDS Naturals, Sequences, SequencesExt, FiniteSets

CONSTANTS
  NoApp,     \* no app (null)
  NoAction   \* no action (null, or the empty string)

Values == {"text", "number", "blank"}
HoldsText(c) == {k \in DOMAIN c : c[k] \notin {"number", "blank"}}
HoldsValue(c) == {k \in DOMAIN c : c[k] # "blank"}

\* A patch of a configuration: its keys win.
Patched(c, patch) ==
  [k \in DOMAIN c \cup DOMAIN patch |-> IF k \in DOMAIN patch THEN patch[k] ELSE c[k]]

(***************************************************************************)
(* The actions of the apps, category by category.  text: the required      *)
(* fields a string answers, numbers: the required fields of type number.   *)
(***************************************************************************)
Act(key, text, numbers) ==
  [key |-> key, kind |-> "action", disabled |-> FALSE, text |-> text, numbers |-> numbers]
Off(a) == [a EXCEPT !.disabled = TRUE]
Trigger(a) == [a EXCEPT !.kind = "trigger"]

imagesCategory == <<
  Act("bannerbear.createImage", {"templateUid"}, {}),
  Act("bannerbear.getImage", {"imageUid"}, {}) >>

templatesCategory == <<
  Act("bannerbear.getTemplate", {"templateUid"}, {}),
  Act("bannerbear.listTemplates", {}, {}) >>

videoCategory == <<
  Off(Act("bannerbear.createVideo", {"templateUid"}, {})),
  Off(Act("bannerbear.getVideo", {"videoUid"}, {})) >>

githubIssuesCategory == <<
  Act("github.createIssue", {"owner", "repo", "title"}, {}),
  Act("github.editIssue", {"owner", "repo"}, {"issueNumber"}),
  Act("github.getIssue", {"owner", "repo"}, {"issueNumber"}),
  Off(Act("github.listIssues", {"owner", "repo"}, {})),
  Act("github.createIssueComment", {"owner", "repo", "body"}, {"issueNumber"}),
  Act("github.lockIssue", {"owner", "repo"}, {"issueNumber"}),
  Off(Act("github.unlockIssue", {"owner", "repo"}, {"issueNumber"})) >>

githubReleasesCategory == <<
  Off(Act("github.createRelease", {"owner", "repo", "tag"}, {})),
  Off(Act("github.getRelease", {"owner", "repo"}, {"releaseId"})),
  Off(Act("github.listReleases", {"owner", "repo"}, {})) >>

githubReposCategory == <<
  Act("github.listOrgRepos", {"org"}, {}),
  Off(Act("github.listUserRepos", {}, {})),
  Act("github.getFile", {"owner", "repo", "path"}, {}),
  Act("github.listFiles", {"owner", "repo"}, {}),
  Act("github.createFile", {"owner", "repo", "path", "message", "content"}, {}),
  Act("github.editFile", {"owner", "repo", "path", "message", "content"}, {}),
  Act("github.deleteFile", {"owner", "repo", "path", "message"}, {}) >>

gmailDraftsCategory == <<
  Off(Act("gmail.createDraft", {"to", "subject"}, {})),
  Off(Act("gmail.getDraft", {"draftId"}, {})),
  Off(Act("gmail.deleteDraft", {"draftId"}, {})) >>

gmailLabelsCategory == <<
  Off(Act("gmail.createLabel", {"name"}, {})),
  Off(Act("gmail.deleteLabel", {"labelId"}, {})),
  Off(Act("gmail.getLabel", {"labelId"}, {})),
  Off(Act("gmail.listLabels", {}, {})) >>

gmailMessagesCategory == <<
  Act("gmail.sendEmail", {"to", "subject"}, {}),
  Off(Act("gmail.replyMessage", {"messageId", "bodyText"}, {})),
  Off(Act("gmail.getMessage", {"messageId"}, {})),
  Off(Act("gmail.listMessages", {}, {})),
  Off(Act("gmail.addLabel", {"messageId", "labelId"}, {})),
  Off(Act("gmail.removeLabel", {"messageId", "labelId"}, {})),
  Off(Act("gmail.markRead", {"messageId"}, {})),
  Off(Act("gmail.markUnread", {"messageId"}, {})) >>

googleSheetsDocumentsCategory == <<
  Act("gsheets.createSpreadsheet", {"title"}, {}),
  Act("gsheets.deleteSpreadsheet", {"spreadsheetId"}, {}),
  Off(Act("gsheets.getSpreadsheet", {"spreadsheetId"}, {})) >>

googleSheetsRowsCategory == <<
  Act("gsheets.appendRow", {"spreadsheetId", "values"}, {}),
  Act("gsheets.updateRow", {"spreadsheetId", "range", "values"}, {}),
  Act("gsheets.getRows", {"spreadsheetId", "range"}, {}),
  Act("gsheets.deleteRowsOrColumns", {"spreadsheetId", "sheetName", "dimension"},
      {"startIndex", "endIndex"}),
  Off(Act("gsheets.findRow", {"spreadsheetId", "sheetName", "query"}, {})) >>

googleSheetsSheetsCategory == <<
  Act("gsheets.createSheet", {"spreadsheetId", "sheetName"}, {}),
  Act("gsheets.deleteSheet", {"spreadsheetId", "sheetName"}, {}),
  Act("gsheets.clearRange", {"spreadsheetId", "range"}, {}),
  Off(Act("gsheets.copySheet",
          {"spreadsheetId", "sheetName", "destinationSpreadsheetId"}, {})) >>

googleSheetsTriggersCategory == <<
  Off(Trigger(Act("gsheets.onRowAdded", {}, {}))),
  Off(Trigger(Act("gsheets.onRowUpdated", {}, {}))) >>

messagingCategory == <<Act("slack.sendMessage", {"channel", "message"}, {})>>

pagesCategory == <<Act("notion.createPage", {"databaseId", "title"}, {})>>

(***************************************************************************)
(* The apps: base: the required base fields, provider: whose credentials   *)
(* the credential field offers, actions: the categories in their order.    *)
(***************************************************************************)
App(provider, base, actions) == [provider |-> provider, base |-> base, actions |-> actions]

googleSheetsApp ==
  App("google", {"credentialId"},
      googleSheetsDocumentsCategory \o googleSheetsSheetsCategory \o
      googleSheetsRowsCategory \o googleSheetsTriggersCategory)
gmailApp ==
  App("google", {"credentialId"},
      gmailMessagesCategory \o gmailLabelsCategory \o gmailDraftsCategory)
githubApp ==
  App("github", {"credentialId"},
      githubIssuesCategory \o githubReposCategory \o githubReleasesCategory)
bannerbearApp ==
  App("bannerbear", {}, imagesCategory \o templatesCategory \o videoCategory)
slackApp == App("slack", {"credentialId"}, messagingCategory)
notionApp == App("notion", {"credentialId"}, pagesCategory)

APP_CATALOG ==
  [googleSheets |-> googleSheetsApp, gmail |-> gmailApp, github |-> githubApp,
   bannerbear |-> bannerbearApp, slack |-> slackApp, notion |-> notionApp]
AppKeys == DOMAIN APP_CATALOG

ASSUME CatalogAssumption == NoApp \notin AppKeys

\* The spellings of an app key that stored flows may hold.
normalizeAppKey(v) ==
  CASE v \in {"gsheets", "google-sheets", "googlesheets", "googlesheet", "googleSheets"} ->
         "googleSheets"
    [] v \in {"bannerbear", "bananabear"} -> "bannerbear"
    [] v \in {"gmail", "github", "slack", "notion"} -> v
    [] OTHER -> NoApp

listAppActions(app) == APP_CATALOG[app].actions

findAppAction(app, key) == {a \in ToSet(listAppActions(app)) : a.key = key}

\* What the list of actions lets choose: not what is to come, and no trigger.
AppActionList(app) == {a \in ToSet(listAppActions(app)) : ~a.disabled /\ a.kind = "action"}

\* The first enabled action that is no trigger, else the first of the list.
defaultActionKeyForApp(app) ==
  LET items == listAppActions(app)
      preferred == {i \in DOMAIN items : ~items[i].disabled /\ items[i].kind = "action"}
  IN IF preferred # {} THEN items[Min(preferred)].key
     ELSE IF items # <<>> THEN Head(items).key ELSE NoAction

\* An agent tool is an action of an app under the action's key.
AGENT_TOOL_CATALOG ==
  UNION {{[app |-> app, action |-> a] : a \in ToSet(listAppActions(app))} : app \in AppKeys}
toolFor(key) == {t \in AGENT_TOOL_CATALOG : t.action.key = key}

(***************************************************************************)
(* The wizard's validation: required fields must hold strings; bannerbear  *)
(* accepts an API key for a credential.                                    *)
(***************************************************************************)
validateSchema(a, config) == (a.text \cup a.numbers) \ HoldsText(config)

validateCredentialRequirement(app, config) ==
  LET accepted == {"credentialId"} \cup (IF app = "bannerbear" THEN {"apiKey"} ELSE {})
  IN IF accepted \cap HoldsText(config) = {} THEN {"credentialId"} ELSE {}

\* The inspector's validation of a tool, whose configuration may hold a
\* credential of its own that hides the tool's.
toolValue(tool) == Patched([credentialId |-> tool.credentialId], tool.config)
validateTool(tool) ==
  UNION {LET required == APP_CATALOG[t.app].base \cup t.action.text \cup t.action.numbers
         IN (required \ HoldsText(toolValue(tool))) \cup
            (IF t.app = "bannerbear" THEN validateCredentialRequirement(t.app, toolValue(tool))
             ELSE {})
         : t \in toolFor(tool.toolKey)}

\* The canvas and the inspector: required fields must hold anything.
isAppActionConfigured(app, key, config) ==
  \E a \in IF app = NoApp THEN {} ELSE findAppAction(app, key) :
    /\ (APP_CATALOG[app].base \cup a.text \cup a.numbers) \subseteq HoldsValue(config)
    /\ app = "bannerbear" => HoldsText(config) \cap {"credentialId", "apiKey"} # {}

\* The providers of chat models, with what their defaults fill in.
MODEL_PROVIDERS ==
  [openai |-> {"model", "baseUrl"}, gemini |-> {"model", "baseUrl"},
   grok |-> {"model", "baseUrl"}, custom |-> {"model"}]

\* A model needs a provider, a name and one of the two ways to authenticate.
NoModel == [provider |-> "none", filled |-> {}]
isValidAgentModelConfig(m) ==
  /\ "model" \in m.filled
  /\ m.filled \cap {"credentialId", "apiKeyOverride"} # {}

(***************************************************************************)
(* The node types.  filled: the keys the default configuration fills,      *)
(* needs: those "validate" wants filled, oneOf: of which it wants one.     *)
(***************************************************************************)
NodeItem(category, filled, needs, oneOf) ==
  [category |-> category, filled |-> filled, needs |-> needs, oneOf |-> oneOf]

triggers ==
  [httpTrigger |-> NodeItem("Triggers", {"path", "method"}, {"path"}, {}),
   errorTrigger |-> NodeItem("Triggers", {}, {}, {}),
   webhook |-> NodeItem("Triggers", {"path"}, {"path"}, {}),
   cron |-> NodeItem("Triggers", {"expression"}, {"expression"}, {})]
actions ==
  [httpRequest |-> NodeItem("Actions", {"method", "authType", "authHeader", "contentType",
                            "timeout", "maxAttempts", "initialInterval"}, {"url"}, {}),
   aiAgent |-> NodeItem("Actions", {"prompt", "temperature", "maxTokens"}, {}, {}),
   slack |-> NodeItem("Actions", {"actionType", "connection"},
                      {"connection", "channelId", "message"}, {}),
   transform |-> NodeItem("Actions", {}, {}, {}),
   database |-> NodeItem("Actions", {}, {}, {}),
   app |-> NodeItem("Actions", {"app", "action", "sheetName"}, {"app", "action"},
                    {"credentialId"})]
logic ==
  [delay |-> NodeItem("Utilities", {"seconds"}, {}, {}),
   if |-> NodeItem("Utilities", {"combine", "operator"}, {"left", "operator"}, {}),
   merge |-> NodeItem("Utilities", {}, {}, {}),
   switch |-> NodeItem("Utilities", {}, {}, {})]
ChatModelItem(extra) ==
  NodeItem("Utilities", {"model", "baseUrl"} \cup extra, {"model"} \cup extra,
           {"credentialId", "apiKey"})
models ==
  [chatModel |-> ChatModelItem({"provider"}), openaiChatModel |-> ChatModelItem({}),
   geminiChatModel |-> ChatModelItem({}), grokChatModel |-> ChatModelItem({})]
legacy ==
  [gmail |-> NodeItem("Actions", {}, {"credentialId", "to", "subject"}, {}),
   gsheets |-> NodeItem("Actions", {"sheetName"},
                        {"credentialId", "spreadsheetId", "values"}, {}),
   github |-> NodeItem("Actions", {}, {"credentialId", "owner", "repo", "title"}, {})]

NODE_CATALOG ==
  LET tables == <<triggers, actions, logic, models, legacy>>
  IN [t \in UNION {DOMAIN tables[i] : i \in DOMAIN tables} |->
        tables[CHOOSE i \in DOMAIN tables : t \in DOMAIN tables[i]][t]]

\* The palette hides the node types that only stored flows still hold.
NODE_CATEGORIES ==
  [c \in {"Triggers", "Actions", "Utilities"} |->
     {t \in DOMAIN NODE_CATALOG :
        NODE_CATALOG[t].category = c /\ t \notin DOMAIN legacy \cup DOMAIN models}]

\* The configuration a new node of a type starts with.
createDefaultNodeData(t) == [k \in NODE_CATALOG[t].filled |-> "text"]

\* NODE_CATALOG[t].validate; bannerbear nodes may hold an API key instead.
validate(t, app, config, model) ==
  /\ NODE_CATALOG[t].needs \subseteq HoldsText(config)
  /\ t = "aiAgent" => isValidAgentModelConfig(model)
  /\ LET oneOf == NODE_CATALOG[t].oneOf \cup
                  (IF t = "app" /\ app = "bannerbear" THEN {"apiKey"} ELSE {})
     IN oneOf # {} => oneOf \cap HoldsText(config) # {}
=============================================================================
