------------------------------ MODULE Workspace ------------------------------
(***************************************************************************)
(* The workspace a browser tab works in, personal or a project, and the    *)
(* flows it lists and creates there.  The workspace is a store that        *)
(* outlives the pages; requests are answered in any order, also after the  *)
(* page that sent them is gone, and what the code does after an answer it  *)
(* then does all the same.  The list of flows is a query of react-query,   *)
(* which is external, under the workspace as its key.                      *)
(***************************************************************************)
EXTENDS Naturals, FiniteSets

CONSTANTS
  Projects,
  Personal,      \* the other workspace
  NoList,        \* no list of flows has arrived
  MaxFlows,      \* bound: flows ever created
  MaxPages,      \* bound: pages visited, or minutes that pass
  MaxAsked       \* bound: requests of the user, or changes of others

ASSUME WorkspaceAssumption ==
  /\ Personal \notin Projects /\ MaxFlows \in Nat /\ MaxPages \in Nat /\ MaxAsked \in Nat

VARIABLES
  roles,     \* the user's role in each project, on the server
  flows,     \* the flows of each workspace, on the server, with where each was to go
  active,    \* the store: the workspace that is open
  projects,  \* the store: the roles as last loaded
  lists,     \* the list of flows of each workspace; history: whether it, or the
             \* answer to come, was read before a change nothing will tell it of
  view,      \* the page: the flows, the form, a project's settings or another
  loaded,    \* whether the settings of the project are shown
  form,      \* the new flow's workspace; Personal of a project scope is "not selected"
  confirm,   \* the dialog of the flows page
  asked,     \* requests under way
  visited,   \* how many of MaxPages so far
  sent       \* how many of MaxAsked so far

workspaceVars == <<roles, flows, active, projects, lists, view, loaded, form, confirm, asked,
                   visited, sent>>
bounded == <<visited, sent>>

Scopes == Projects \cup {Personal}
\* The builder has no sidebar.
Pages == {"flows", "new", "settings", "builder"} \cup Projects
\* A project that does not exist yet is "new", one without the user, or deleted, "none".
Roles == {"new", "none", "member", "admin"}
Listed(ps) == {p \in Projects : ps[p] \in {"member", "admin"}}
AnyFlow == [id |-> 0, told |-> Personal, status |-> "none", name |-> "first"]
NewFlow(f, s) == [id |-> f, told |-> s, status |-> "draft", name |-> "first"]
NoDialog == [type |-> "none", flow |-> AnyFlow]
PersonalForm == [scope |-> "personal", project |-> Personal]
NoQuery == [data |-> NoList, fetch |-> "idle", answer |-> NoList, fresh |-> FALSE,
            old |-> FALSE, behind |-> FALSE]

WorkspaceInit ==
  /\ roles \in [Projects -> Roles]
  /\ \E s \in {k \in Scopes : k = Personal \/ roles[k] # "new"} :
       flows = [k \in Scopes |-> IF k = s THEN {NewFlow(1, s)} ELSE {}]
  /\ active \in {s \in Scopes : s = Personal \/ roles[s] # "new"}
  /\ projects = [p \in Projects |-> "none"]
  /\ lists = [s \in Scopes |-> NoQuery]
  /\ view = "builder" /\ loaded = FALSE
  /\ form = PersonalForm /\ confirm = NoDialog
  /\ asked = {} /\ visited = 0 /\ sent = 0

\* A request about a workspace, and for some about a flow.
Asked(kind, scope, flow) ==
  [kind |-> kind, scope |-> scope, flow |-> flow, then |-> "nothing", here |-> TRUE,
   state |-> "sent", answer |-> [p \in Projects |-> "none"]]
MayUse(s) == s = Personal \/ s \in Listed(roles)
Waiting(kinds) == \E r \in asked : r.kind \in kinds /\ r.here

(***************************************************************************)
(* The query: one fetch at a time for each key, for a key that is shown    *)
(* and has no data or data that is not fresh.                              *)
(***************************************************************************)
Fetched(q) == [q EXCEPT !.fetch = "sent", !.answer = NoList, !.behind = FALSE]
useFlowsQuery(qs, p, s) ==
  IF p = "flows" /\ ~qs[s].fresh /\ qs[s].fetch = "idle" THEN [qs EXCEPT ![s] = Fetched(@)] ELSE qs
\* A fetch that is under way goes on, unless its key is shown and has data.
MutInvalidateFlows(p, s) == lists
invalidateFlows(p, s) ==
  [k \in Scopes |->
     IF p = "flows" /\ k = s /\ (lists[k].fetch = "idle" \/ lists[k].data # NoList)
     THEN [Fetched(lists[k]) EXCEPT !.fresh = FALSE]
     ELSE [lists[k] EXCEPT !.fresh = FALSE]]
queryOnly == UNCHANGED <<roles, flows, active, projects, view, loaded, form, confirm, asked>>

fetchServed(s) ==
  /\ lists[s].fetch = "sent" /\ MayUse(s)
  /\ lists' = [lists EXCEPT ![s].fetch = "read", ![s].answer = flows[s]]
  /\ queryOnly /\ UNCHANGED bounded
fetchAnswered(s) ==
  /\ lists[s].fetch # "idle"
  /\ lists' = [lists EXCEPT ![s] =
       IF @.fetch = "sent" THEN [@ EXCEPT !.fetch = "idle"]
       ELSE [data |-> @.answer, fetch |-> "idle", answer |-> NoList, fresh |-> TRUE,
             old |-> @.behind, behind |-> FALSE]]
  /\ queryOnly /\ UNCHANGED bounded
\* A minute has passed.
ages(s) ==
  /\ lists[s].fresh /\ lists' = [lists EXCEPT ![s].fresh = FALSE]
  /\ visited < MaxPages /\ visited' = visited + 1 /\ UNCHANGED sent
  /\ queryOnly
\* "Refresh" does not wait for it.
onReload ==
  /\ view = "flows" /\ (lists[active].fetch = "idle" \/ lists[active].data # NoList)
  /\ lists' = [lists EXCEPT ![active] = Fetched(@)]
  /\ sent < MaxAsked /\ sent' = sent + 1 /\ UNCHANGED visited
  /\ queryOnly

(***************************************************************************)
(* Going to a page and to a workspace, with what is left of the old page.  *)
(* The sidebar loads the projects when it is mounted, and so does the      *)
(* form; a settings page loads its project.                                *)
(***************************************************************************)
LoadProjects(then, p) == [Asked("projects", p, AnyFlow) EXCEPT !.then = then]
Sidebar(p) ==
  IF p # view /\ (view = "builder" \/ p = "new") THEN {LoadProjects("nothing", Personal)} ELSE {}
ProjectSettings(p) == IF p # view /\ p \in Projects THEN {Asked("load", p, AnyFlow)} ELSE {}
Go(p, s, qs, rs) ==
  /\ view' = p /\ active' = s
  /\ lists' = useFlowsQuery(qs, p, s)
  /\ asked' = {[r EXCEPT !.here = @ /\ p = view] : r \in rs} \cup Sidebar(p) \cup ProjectSettings(p)
  /\ loaded' = (loaded /\ p = view)
  /\ confirm' = IF p = view THEN confirm ELSE NoDialog
Leave(p, s) ==
  /\ visited < MaxPages /\ visited' = visited + 1
  /\ Go(p, s, lists, asked) /\ UNCHANGED <<roles, flows, projects, sent>>
Sent(r) ==
  /\ sent < MaxAsked /\ sent' = sent + 1
  /\ asked' = asked \cup {r}
  /\ UNCHANGED <<roles, flows, active, projects, lists, view, loaded, form, confirm, visited>>

SidebarWorkspaces ==
  /\ view # "builder" /\ UNCHANGED form
  /\ \/ Leave("flows", Personal)
     \/ \E p \in Listed(projects) : Leave("flows", p)
     \/ \E p \in Projects : projects[p] = "admin" /\ Leave(p, active)
SidebarNav ==
  view # "builder" /\ (\E p \in {"flows", "settings"} \ {view} : Leave(p, active)) /\ UNCHANGED form
\* A row opens in the builder, which has a way back.
onRowOpen == view = "flows" /\ Leave("builder", active) /\ UNCHANGED form
leaveBuilder == view = "builder" /\ Leave("flows", active) /\ UNCHANGED form

(***************************************************************************)
(* Projects.                                                               *)
(***************************************************************************)
CreateProjectModal(p) ==
  /\ view # "builder" /\ roles[p] = "new" /\ ~Waiting({"createProject"})
  /\ ~ \E r \in asked : r.kind = "createProject" /\ r.scope = p
  /\ Sent(Asked("createProject", p, AnyFlow))
saveProject == view \in Projects /\ loaded /\ ~Waiting({"save"}) /\ Sent(Asked("save", view, AnyFlow))
onDeleteProject ==
  view \in Projects /\ loaded /\ ~Waiting({"deleteProject"}) /\ Sent(Asked("deleteProject", view, AnyFlow))

\* The form takes the workspace of its address; then its effect does not keep
\* a project that is not in the list, and takes the only one there is.
FormEffect(f, ps) ==
  IF f.scope # "project" \/ f.project \in Listed(ps) THEN f
  ELSE [f EXCEPT !.project = IF @ = Personal /\ Cardinality(Listed(ps)) = 1
                             THEN CHOOSE p \in Listed(ps) : TRUE ELSE Personal]
FormEffects(f, ps) == FormEffect(FormEffect(f, ps), ps)
onCreatePersonal == view = "flows" /\ Leave("new", active) /\ form' = PersonalForm
onCreateProject ==
  /\ view = "flows" /\ active # Personal /\ Leave("new", active)
  /\ form' = FormEffects([scope |-> "project", project |-> active], projects)
NewFlowPage ==
  /\ view = "new"
  /\ \E f \in [scope : {"personal"}, project : {form.project}]
            \cup [scope : {"project"}, project : Listed(projects)] :
       f # form /\ form' = f
  /\ UNCHANGED <<bounded, roles, flows, active, projects, lists, view, loaded, confirm, asked>>

\* The list tells of every role; whoever awaits it goes on, wherever the user
\* is by now.
loadProjects(r) ==
  /\ r.kind = "projects"
  /\ projects' = r.answer
  /\ form' = IF view = "new" THEN FormEffects(form, r.answer) ELSE form
  /\ LET rest == asked \ {r}
         kept == IF active \in Listed(r.answer) THEN active ELSE Personal
     IN CASE r.then = "created" -> Go("flows", r.scope, lists, rest)
          [] r.then = "deleted" -> Go("flows", Personal, lists, rest)
          [] OTHER -> Go(view, kept, lists, rest)
  /\ UNCHANGED <<roles, flows, bounded>>
handleCreateProject(r) ==
  /\ r.kind \in {"createProject", "deleteProject", "save"}
  /\ Go(view, active, lists, (asked \ {r}) \cup
        {LoadProjects(CASE r.kind = "createProject" -> "created"
                        [] r.kind = "deleteProject" -> "deleted" [] OTHER -> "nothing", r.scope)})
  /\ UNCHANGED <<roles, flows, projects, form, bounded>>
\* The settings make their project the active one when it has arrived, and
\* leave when it is not the user's to change.
useProjectSettings(r) ==
  LET rest == asked \ {r}
  IN /\ \/ /\ r.kind = "load"
           /\ Go(view, r.scope, lists,
                 rest \cup {[Asked("members", r.scope, AnyFlow) EXCEPT !.here = r.here, !.answer = r.answer]})
        \/ /\ r.kind = "members" /\ r.here /\ r.answer[r.scope] = "admin"
           /\ loaded' = TRUE /\ asked' = rest
           /\ UNCHANGED <<active, lists, view, confirm>>
        \/ /\ r.kind = "members" /\ (r.here => r.answer[r.scope] # "admin")
           /\ Go(IF r.here THEN "flows" ELSE view, active, lists, rest)
     /\ UNCHANGED <<roles, flows, projects, form, bounded>>

(***************************************************************************)
(* Flows.  A flow that is imported or duplicated goes to the workspace     *)
(* that was open at the click, also when duplicating had to ask for the    *)
(* flow first.                                                             *)
(***************************************************************************)
handleCreate ==
  /\ view = "new" /\ ~Waiting({"create"}) /\ (form.scope = "project" => form.project # Personal)
  /\ Sent(Asked("create", IF form.scope = "project" THEN form.project ELSE Personal, AnyFlow))
onImportFile == view = "flows" /\ Sent(Asked("import", active, [AnyFlow EXCEPT !.told = active]))
listed == IF lists[active].data = NoList THEN {} ELSE lists[active].data
FlowRowMenu ==
  /\ view = "flows"
  /\ \E f \in listed :
       \/ Sent(Asked("duplicate", active, f))
       \/ \E type \in {"archive", "delete"} :
            /\ type = "archive" => f.status # "archived"
            /\ ~ \E r \in asked : r.kind = type /\ r.here /\ r.flow.id = f.id
            /\ confirm' = [type |-> type, flow |-> f]
            /\ UNCHANGED <<roles, flows, active, projects, lists, view, loaded, form, asked, bounded>>
onConfirm ==
  /\ confirm # NoDialog
  /\ ~ \E r \in asked : r.kind = confirm.type /\ r.here /\ r.flow.id = confirm.flow.id
  /\ Sent(Asked(confirm.type, confirm.flow.told, confirm.flow))
setConfirm ==
  /\ confirm # NoDialog /\ confirm' = NoDialog
  /\ UNCHANGED <<roles, flows, active, projects, lists, view, loaded, form, asked, bounded>>
\* A save of the flow that is open in the builder, under another name.
useBuilderSave ==
  /\ view = "builder"
  /\ \E s \in Scopes : \E f \in flows[s] : f.name = "first" /\ MayUse(s) /\ Sent(Asked("rename", s, f))
useResetWorkspace ==
  view = "settings" /\ ~Waiting({"reset"}) /\ Sent(Asked("reset", Personal, AnyFlow))

MutCreateInActiveScope(r) == [r EXCEPT !.kind = "copy", !.scope = active, !.state = "sent"]
createInActiveScope(r) == [r EXCEPT !.kind = "copy", !.state = "sent"]
useFlowActions(r) ==
  /\ LET rest == asked \ {r}
         dialog == IF r.here THEN NoDialog ELSE confirm
     IN \/ r.kind = "duplicate" /\ Go(view, active, lists, rest \cup {createInActiveScope(r)})
        \/ /\ r.kind \in {"create", "import", "copy"}
           /\ LET s == IF r.kind = "create" THEN r.scope ELSE active
              IN Go("builder", s, invalidateFlows(view, active), rest)
        \/ r.kind = "reset" /\ Go(view, active, invalidateFlows(view, active), rest)
        \* It closes whatever dialog is open.
        \/ /\ r.kind \in {"archive", "delete"} /\ confirm' = dialog
           /\ lists' = invalidateFlows(view, active)
           /\ asked' = rest /\ UNCHANGED <<view, active, loaded>>
  /\ UNCHANGED <<roles, flows, projects, form, bounded>>

(***************************************************************************)
(* The server, and the other members of a project.                         *)
(***************************************************************************)
FlowIds == UNION {{f.id : f \in flows[s]} : s \in Scopes}
\* The user's own changes that no list is told of: a save in the builder, and
\* the deletion of a project.
Silent == {"rename", "deleteProject"}
\* Whether the user's lists hear of a change of the rows.
Changed(ss, told) ==
  lists' = [s \in Scopes |-> IF s \notin ss THEN lists[s]
              ELSE [lists[s] EXCEPT !.old = @ \/ ~told, !.behind = @ \/ lists[s].fetch = "read"]]
serve(r) ==
  /\ r.state = "sent"
  /\ \/ /\ r.kind \in {"projects", "load", "members", "duplicate", "save"}
        /\ r.kind \notin {"projects", "duplicate"} => MayUse(r.scope)
        /\ r.kind = "duplicate" => \E s \in Scopes : \E f \in flows[s] : f.id = r.flow.id
        /\ UNCHANGED <<roles, flows, lists>>
     \/ /\ r.kind = "createProject" /\ roles' = [roles EXCEPT ![r.scope] = "admin"]
        /\ UNCHANGED <<flows, lists>>
     \/ /\ r.kind = "deleteProject" /\ roles[r.scope] = "admin"
        /\ roles' = [roles EXCEPT ![r.scope] = "none"]
        /\ flows' = [flows EXCEPT ![r.scope] = {}] /\ Changed({r.scope}, r.kind \notin Silent)
     \/ /\ r.kind \in {"create", "import", "copy"} /\ MayUse(r.scope)
        /\ \E f \in (1..MaxFlows) \ FlowIds :
             flows' = [flows EXCEPT ![r.scope] = @ \cup
               {NewFlow(f, IF r.kind = "create" THEN r.scope ELSE r.flow.told)}]
        /\ Changed({r.scope}, TRUE) /\ UNCHANGED roles
     \/ /\ r.kind \in {"archive", "delete", "rename"} /\ MayUse(r.scope)
        /\ \E f \in flows[r.scope] :
             /\ f.id = r.flow.id
             /\ flows' = [flows EXCEPT ![r.scope] = (@ \ {f}) \cup
                  CASE r.kind = "delete" -> {}
                    [] r.kind = "archive" -> {[f EXCEPT !.status = "archived"]}
                    [] OTHER -> {[f EXCEPT !.name = "other"]}]
        /\ Changed({r.scope}, r.kind \notin Silent) /\ UNCHANGED roles
     \/ /\ r.kind = "reset" /\ flows' = [s \in Scopes |-> {}]
        /\ Changed(Scopes, TRUE) /\ UNCHANGED roles
\* The answer to the builder does nothing here.
  /\ asked' = (asked \ {r}) \cup IF r.kind = "rename" THEN {} ELSE
       {[r EXCEPT !.state = "served", !.answer =
           IF r.kind \in {"projects", "load"} THEN roles' ELSE @]}
  /\ UNCHANGED <<active, projects, view, loaded, form, confirm, bounded>>
\* Or the answer is lost: only the settings' own requests do more than tell so.
changes(r) == r.kind \in {"create", "import", "copy", "archive", "delete", "reset"}
fails(r) ==
  /\ LET lost == IF r.state = "sent" \/ ~changes(r) THEN {}
                 ELSE IF r.kind = "reset" THEN Scopes ELSE {r.scope}
         qs == [s \in Scopes |-> [lists[s] EXCEPT !.old = @ \/ s \in lost]]
     IN Go(IF r.kind \in {"load", "members"} THEN "flows" ELSE view, active, qs, asked \ {r})
  /\ UNCHANGED <<roles, flows, projects, form, bounded>>
\* Another admin takes the user out; another member creates a flow.
removed(p) ==
  /\ sent < MaxAsked /\ sent' = sent + 1
  /\ p \in Listed(roles) /\ roles' = [roles EXCEPT ![p] = "none"]
  /\ Changed({p}, FALSE)
  /\ UNCHANGED <<flows, active, projects, view, loaded, form, confirm, asked, visited>>
createdByAnother(p) ==
  /\ sent < MaxAsked /\ sent' = sent + 1
  /\ roles[p] # "new"
  /\ \E f \in (1..MaxFlows) \ FlowIds :
       flows' = [flows EXCEPT ![p] = @ \cup {NewFlow(f, p)}]
  /\ Changed({p}, FALSE)
  /\ UNCHANGED <<roles, active, projects, view, loaded, form, confirm, asked, visited>>

WorkspaceNext ==
  \/ onReload \/ SidebarWorkspaces \/ SidebarNav \/ onRowOpen \/ leaveBuilder
  \/ saveProject \/ onDeleteProject \/ onCreatePersonal \/ onCreateProject \/ NewFlowPage
  \/ handleCreate \/ onImportFile \/ FlowRowMenu \/ onConfirm \/ setConfirm \/ useBuilderSave
  \/ useResetWorkspace
  \/ (\E s \in Scopes : fetchServed(s) \/ fetchAnswered(s) \/ ages(s))
  \/ (\E p \in Projects : CreateProjectModal(p) \/ removed(p) \/ createdByAnother(p))
  \/ \E r \in asked :
       \/ serve(r) \/ fails(r)
       \/ r.state = "served" /\ (loadProjects(r) \/ handleCreateProject(r) \/ useProjectSettings(r)
                                 \/ useFlowActions(r))

WorkspaceSpec == WorkspaceInit /\ [][WorkspaceNext]_workspaceVars

\* What the variables hold.
FlowType == [id : Nat, told : Scopes, status : {"none", "draft", "archived"}, name : {"first", "other"}]
QueryType ==
  [data : {NoList} \cup SUBSET FlowType, fetch : {"idle", "sent", "read"},
   answer : {NoList} \cup SUBSET FlowType, fresh : BOOLEAN, old : BOOLEAN, behind : BOOLEAN]
AskedType ==
  [kind : {"projects", "load", "members", "save", "createProject", "deleteProject", "create",
           "import", "duplicate", "copy", "archive", "delete", "rename", "reset"},
   scope : Scopes, flow : FlowType, then : {"nothing", "created", "deleted"}, here : BOOLEAN,
   state : {"sent", "served"}, answer : [Projects -> Roles]]
WorkspaceTypeOK ==
  /\ roles \in [Projects -> Roles] /\ projects \in [Projects -> Roles]
  /\ flows \in [Scopes -> SUBSET FlowType] /\ lists \in [Scopes -> QueryType]
  /\ active \in Scopes /\ view \in Pages /\ loaded \in BOOLEAN
  /\ form \in [scope : {"personal", "project"}, project : Scopes]
  /\ confirm \in {NoDialog} \cup [type : {"archive", "delete"}, flow : FlowType]
  /\ asked \subseteq AskedType /\ visited \in Nat /\ sent \in Nat

(***************************************************************************)
(* Why flows land where they were asked: the lists and the requests name a *)
(* flow together with its own workspace.                                   *)
(***************************************************************************)
ToldHere(fs, s) == fs = NoList \/ \A f \in fs : f.told = s
ToldInv ==
  /\ \A s \in Scopes : /\ \A f \in flows[s] : f.told = s
                       /\ ToldHere(lists[s].data, s) /\ ToldHere(lists[s].answer, s)
  /\ \A r \in asked : r.kind \in {"duplicate", "import", "copy"} => r.flow.told = r.scope

(***************************************************************************)
(* Why lists are current: one that is fresh, and the answer to come, is    *)
(* the server's, unless something marked it, or a change that was served   *)
(* will do so when it is answered.                                         *)
(***************************************************************************)
Changing(s) ==
  \E r \in asked : r.state = "served" /\ changes(r) /\ (r.kind = "reset" \/ r.scope = s)
Current(s) ==
  /\ lists[s].fresh /\ ~lists[s].old /\ ~Changing(s) => lists[s].data = flows[s]
  /\ lists[s].fetch = "read" /\ ~lists[s].behind => lists[s].answer = flows[s]
QueryInv == \A s \in Scopes : Current(s)

(***************************************************************************)
(* A flow is in the workspace it was created, imported or duplicated in,   *)
(* as that was shown at the click, although the user goes to another one   *)
(* before the request is sent or answered.                                 *)
(***************************************************************************)
LandsWhereAsked == \A s \in Scopes : \A f \in flows[s] : f.told = s

(***************************************************************************)
(* A list of flows that is fresh is the server's, once what the user       *)
(* creates, imports, duplicates, archives, deletes or resets is answered:  *)
(* each fetches the lists again or marks them as not fresh.  Excepted are  *)
(* two other changes of the user's own, which no list is told of (Silent): *)
(* a save in the builder, which may rename the flow, and the deletion of a *)
(* project; and changes of others, answers that were lost, and a list that *)
(* was read before a change and arrives after it.                          *)
(***************************************************************************)
ListIsCurrent ==
  \A s \in Scopes :
    (lists[s].fresh /\ lists[s].fetch = "idle" /\ ~lists[s].old
     /\ ~ \E r \in asked : r.state = "served" /\ r.kind # "projects")
      => lists[s].data = flows[s]
=============================================================================
