------------------------------ MODULE WsClient ------------------------------
(***************************************************************************)
(* The web socket of a browser tab: one variable that components share,    *)
(* which each calls to connect when it mounts, and which reconnects some   *)
(* seconds after a socket has closed.  Sockets that are no longer in the   *)
(* variable live on, and still call back: two may be open at a time,       *)
(* though components share one so as not to open duplicates.               *)
(***************************************************************************)
EXTENDS Naturals

CONSTANTS
  MaxSockets,   \* bound: sockets at a time
  MaxTimers     \* bound: timers whose handle is lost

ASSUME WsClientAssumption == MaxSockets \in Nat \ {0} /\ MaxTimers \in Nat

VARIABLES
  sockets,       \* readyState of each
  _socket,       \* the shared one, or none
  token,         \* whether there is a session
  _isConnected,  \* what components are told
  handle,        \* whether the timer of _reconnectTimeout is pending
  lost,          \* pending timers whose handle was overwritten
  used           \* history: some component has mounted

wsVars == <<sockets, _socket, token, _isConnected, handle, lost, used>>

SocketIds == 1..MaxSockets
None == 0

WsInit ==
  /\ sockets = [s \in SocketIds |-> "closed"] /\ _socket = None
  /\ token \in BOOLEAN /\ _isConnected = FALSE
  /\ handle = FALSE /\ lost = 0 /\ used = FALSE

\* A new timer: the handle of one that is pending is overwritten.
setTimeout(pending, others) ==
  /\ handle' = TRUE
  /\ lost' = IF pending THEN others + 1 ELSE others
  /\ lost' <= MaxTimers

\* With the timers that are left.
Mut_connect(pending, others) ==
  IF _socket # None /\ sockets[_socket] \in {"open", "connecting"}
  THEN handle' = pending /\ lost' = others /\ UNCHANGED <<sockets, _socket>>
  ELSE IF token
  THEN /\ \E s \in SocketIds :
            /\ sockets[s] = "closed"
            /\ sockets' = [sockets EXCEPT ![s] = "connecting"] /\ _socket' = s
       /\ handle' = pending /\ lost' = others
  ELSE handle' = pending /\ lost' = others /\ UNCHANGED <<sockets, _socket>>
_connect(pending, others) ==
  IF _socket # None /\ sockets[_socket] \in {"open", "connecting"}
  THEN handle' = pending /\ lost' = others /\ UNCHANGED <<sockets, _socket>>
  ELSE IF token
  THEN /\ \E s \in SocketIds :
            /\ sockets[s] = "closed"
            /\ sockets' = [sockets EXCEPT ![s] = "connecting"] /\ _socket' = s
       /\ handle' = pending /\ lost' = others
  ELSE setTimeout(pending, others) /\ UNCHANGED <<sockets, _socket>>

useWebSocket ==
  /\ _connect(handle, lost)
  /\ used' = TRUE
  /\ UNCHANGED <<token, _isConnected>>
timerFires ==
  /\ \/ handle /\ _connect(FALSE, lost)
     \/ lost > 0 /\ _connect(handle, lost - 1)
  /\ UNCHANGED <<token, _isConnected, used>>
onopen(s) ==
  /\ sockets[s] = "connecting"
  /\ sockets' = [sockets EXCEPT ![s] = "open"]
  /\ handle' = FALSE /\ _isConnected' = TRUE
  /\ UNCHANGED <<_socket, token, lost, used>>
\* The server's close frame has arrived; the connection still is there.
closingHandshake(s) ==
  /\ sockets[s] = "open"
  /\ sockets' = [sockets EXCEPT ![s] = "closing"]
  /\ UNCHANGED <<_socket, token, _isConnected, handle, lost, used>>
\* After the handshake, or an error, which has closed the socket already.
onclose(s) ==
  /\ sockets[s] # "closed"
  /\ sockets' = [sockets EXCEPT ![s] = "closed"]
  /\ _isConnected' = FALSE /\ _socket' = None
  /\ setTimeout(handle, lost)
  /\ UNCHANGED <<token, used>>
\* Signing in and out; the socket is not told.
getAuthToken ==
  /\ token' = ~token
  /\ UNCHANGED <<sockets, _socket, _isConnected, handle, lost, used>>

WsNext ==
  \/ useWebSocket \/ timerFires \/ getAuthToken
  \/ \E s \in SocketIds : onopen(s) \/ closingHandshake(s) \/ onclose(s)
WsSpec == WsInit /\ [][WsNext]_wsVars

\* What the variables hold.
WsTypeOK ==
  /\ sockets \in [SocketIds -> {"closed", "connecting", "open", "closing"}]
  /\ _socket \in SocketIds \cup {None}
  /\ token \in BOOLEAN /\ _isConnected \in BOOLEAN /\ used \in BOOLEAN
  /\ handle \in BOOLEAN /\ lost \in 0..MaxTimers

(***************************************************************************)
(* The client never gives up: whatever becomes of its sockets, of the      *)
(* session and of the handle of its timer, there is a socket that will     *)
(* call back when it closes, or a timer that will connect.                 *)
(***************************************************************************)
ClientRetries == used => handle \/ lost > 0 \/ \E s \in SocketIds : sockets[s] # "closed"
=============================================================================
