------------------------------- MODULE MCWebApp -------------------------------
(***************************************************************************)
(* An instance of the web application around the builder: the flow that is *)
(* opened and saved, the session of a tab, its workspace, and the pages    *)
(* that list things.  They share no state the modules look at (that a      *)
(* request may be refused or late is in each of them); a behaviour is of   *)
(* one of them, the others stay in an initial state.                       *)
(***************************************************************************)
EXTENDS FlowEditor, Session, Workspace, ListPages, TLC

VARIABLE focus  \* the part a behaviour is of

webVars == <<editorVars, sessionVars, workspaceVars, listVars, focus>>

\* An initial state of a part, for the behaviours that are of another one.
Rests(part, first) == focus # part => first

WebInit ==
  /\ focus \in {"editor", "session", "workspace", "lists"}
  /\ FlowEditorInit /\ SessionInit /\ WorkspaceInit /\ ListInit
  /\ Rests("session", session = NoToken /\ valid = {} /\ tab = "login")
  /\ Rests("workspace", active = Personal /\ flows[Personal] # {}
                          /\ \A p \in Projects : roles[p] = "new")
  /\ Rests("lists", table = "items" /\ pageSize = CHOOSE n \in PageSizes : TRUE)

WebNext ==
  /\ UNCHANGED focus
  /\ \/ /\ focus = "editor" /\ FlowEditorNext
        /\ UNCHANGED <<sessionVars, workspaceVars, listVars>>
     \/ /\ focus = "session" /\ SessionNext
        /\ UNCHANGED <<editorVars, workspaceVars, listVars>>
     \/ /\ focus = "workspace" /\ WorkspaceNext
        /\ UNCHANGED <<editorVars, sessionVars, listVars>>
     \/ /\ focus = "lists" /\ ListNext
        /\ UNCHANGED <<editorVars, sessionVars, workspaceVars>>

WebSpec == WebInit /\ [][WebNext]_webVars

\* The flows that are opened are alike.
Alike == Permutations(Flows)
=============================================================================
