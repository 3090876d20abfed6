-------------------------------- MODULE MCPush --------------------------------
(***************************************************************************)
(* An instance of the way a change of a run takes to the pages that show   *)
(* it: the hub of the API, the socket of the browser, and the page, each   *)
(* over an abstraction of the others (RunPage loses what Hub and WsClient  *)
(* may lose).  A behaviour is of one of them, the others stay in an        *)
(* initial state, one where nothing is enabled that fairness would demand  *)
(* (a closed socket would have to be opened).                              *)
(***************************************************************************)
EXTENDS Hub, WsClient, RunPage

VARIABLE focus  \* the part a behaviour is of

pushAllVars == <<vars, wsVars, runPageVars, focus>>

PushInit ==
  /\ focus \in {"hub", "socket", "page"}
  /\ Init /\ WsInit /\ RunPageInit
  /\ focus # "socket" => ~token
  /\ focus # "page" => page = "list" /\ socket = "open"

PushNext ==
  /\ UNCHANGED focus
  /\ \/ focus = "hub" /\ Next /\ UNCHANGED <<wsVars, runPageVars>>
     \/ focus = "socket" /\ WsNext /\ UNCHANGED <<vars, runPageVars>>
     \/ focus = "page" /\ RunPageNext /\ UNCHANGED <<vars, wsVars>>

PushSpec == PushInit /\ [][PushNext]_pushAllVars /\ Fairness /\ RunPageFairness
=============================================================================
