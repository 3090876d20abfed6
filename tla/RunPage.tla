------------------------------- MODULE RunPage -------------------------------
(***************************************************************************)
(* How a change of a run's row reaches the pages that show it.  The row is *)
(* RunStatus, which RunLifecycle implements; an update notifies, in the    *)
(* same statement, the API's listener; the listener hands the notification *)
(* to the hub, the hub to the socket of the browser; the page takes it for *)
(* no more than a hint to fetch again.  The run detail page polls besides, *)
(* until the status it has is terminal; the dashboard's list does not.     *)
(*                                                                         *)
(* Hub says what may become of a message: it arrives, or the connection    *)
(* ends.  The queries are those of react-query, which is external: one     *)
(* fetch at a time, which an invalidation replaces, unless the query has   *)
(* no data yet; a fetch that failed for good leaves the data as it was.    *)
(***************************************************************************)
EXTENDS Naturals

CONSTANTS
  Run,
  MaxNotes   \* bound: notifications under way

VARIABLES
  status, startedAt, finishedAt, disturbed,   \* the row
  listener,   \* the API's connection that listens
  notes,      \* notifications between the database and the page
  socket,     \* the browser's web socket
  page,       \* the page the user opens: the run's detail or the dashboard's list
  fetch,      \* the fetch of its query, "unmounted" before it is opened
  answer,     \* the status on its way to the page
  cached,     \* the status the query has
  missed      \* history: no notification or fetch will tell the page of a change

Row == INSTANCE RunStatus WITH Runs <- {Run}

Hidden == "unmounted"
NoData == "none"

rowVars  == <<status, startedAt, finishedAt, disturbed>>
pushVars == <<listener, notes, socket>>
pageVars == <<page, fetch, answer, cached>>
runPageVars == <<rowVars, pushVars, pageVars, missed>>

RunPageInit ==
  /\ Row!Init
  /\ listener = "down"
  /\ notes = 0
  /\ socket \in {"open", "closed"}   \* another page may have opened it
  /\ page \in {"detail", "list"}
  /\ fetch = Hidden
  /\ answer = NoData
  /\ cached = NoData
  /\ missed = FALSE

Miss(lost) == missed' = (missed \/ (lost /\ fetch # Hidden))

------------------------------------------------------------------------------
(* The row, and what it tells the listener. *)

\* pg_notify: whoever listens is told, nobody else ever is.
Notify ==
  /\ notes < MaxNotes
  /\ notes' = IF listener = "listening" THEN notes + 1 ELSE notes
  /\ Miss(listener # "listening")

\* UpdateStatus writes and notifies in one statement.
UpdateRun ==
  /\ \/ Row!Begin(Run)
     \/ \E s \in {"success", "failed"} : Row!Finish(Run, s)
     \/ \E s \in Row!InTable : Row!Overwrite(Run, s)
  /\ Notify
  /\ UNCHANGED <<listener, socket, pageVars>>

\* So does UpdateState of a step, while somebody executes the run.
UpdateStep ==
  /\ status[Run] = "running" \/ (disturbed[Run] /\ status[Run] \in Row!InTable)
  /\ Notify
  /\ UNCHANGED <<rowVars, listener, socket, pageVars>>

\* The insert, a disturbance and the delete of the flow tell nobody.
ChangeQuietly ==
  /\ Row!Queue(Run) \/ Row!Disturb(Run) \/ Row!Delete({Run})
  /\ UNCHANGED <<pushVars, pageVars, missed>>

------------------------------------------------------------------------------
(* Listener and socket. *)

\* What was under way is lost, or was already handed on.
Lose ==
  /\ notes' \in 0..notes
  /\ Miss(notes' < notes)

ListenerFails ==
  /\ listener = "listening"
  /\ listener' = "down"
  /\ Lose
  /\ UNCHANGED <<rowVars, socket, pageVars>>

\* ListenWithRetry.
ListenerConnects ==
  /\ listener = "down"
  /\ listener' = "listening"
  /\ UNCHANGED <<rowVars, notes, socket, pageVars, missed>>

SocketCloses ==
  /\ socket = "open"
  /\ socket' = "closed"
  /\ Lose
  /\ UNCHANGED <<rowVars, listener, pageVars>>

\* A page is mounted, or the timer that onclose set fires.
SocketOpens ==
  /\ socket = "closed"
  /\ socket' = "open"
  /\ UNCHANGED <<rowVars, listener, notes, pageVars, missed>>

\* The hub distributes a message while this browser is not connected.
NobodyConnected ==
  /\ socket = "closed" /\ notes > 0
  /\ notes' = notes - 1
  /\ Miss(TRUE)
  /\ UNCHANGED <<rowVars, listener, socket, pageVars>>

------------------------------------------------------------------------------
(* The page. *)

Mount ==
  /\ fetch = Hidden
  /\ status[Run] # "absent"
  /\ fetch' = "sent"
  /\ UNCHANGED <<rowVars, pushVars, page, answer, cached, missed>>

\* refetchInterval of the run detail: the tick does nothing while a fetch is on.
MutPoll ==
  /\ page = "detail" /\ fetch = "idle"
  /\ cached \in {NoData, "running"}
  /\ fetch' = "sent"
  /\ UNCHANGED <<rowVars, pushVars, page, answer, cached, missed>>

Poll ==
  /\ page = "detail" /\ fetch = "idle"
  /\ cached \in {NoData, "queued", "running"}
  /\ fetch' = "sent"
  /\ UNCHANGED <<rowVars, pushVars, page, answer, cached, missed>>

\* A query that has no data lets its first fetch go on, although what it read may
\* be out of date by now.  Any other fetch under way is canceled for the new one.
FirstFetch == cached = NoData /\ fetch \in {"sent", "answered"}

FetchAgain ==
  /\ fetch' = IF fetch = Hidden \/ FirstFetch THEN fetch ELSE "sent"
  /\ answer' = IF fetch' = "sent" THEN NoData ELSE answer
  /\ UNCHANGED <<page, cached>>

Reload ==
  /\ page = "detail" /\ fetch # Hidden
  /\ FetchAgain
  /\ UNCHANGED <<rowVars, pushVars, missed>>

\* onmessage: the page's subscription invalidates its query.
MutReceive ==
  /\ socket = "open" /\ notes > 0
  /\ notes' = notes - 1
  /\ fetch' = IF fetch = "idle" THEN "sent" ELSE fetch
  /\ Miss(FirstFetch /\ fetch = "answered")
  /\ UNCHANGED <<rowVars, listener, socket, page, answer, cached>>

Receive ==
  /\ socket = "open" /\ notes > 0
  /\ notes' = notes - 1
  /\ FetchAgain
  /\ Miss(FirstFetch /\ fetch = "answered")
  /\ UNCHANGED <<rowVars, listener, socket>>

\* The API reads the row.
Answer ==
  /\ fetch = "sent"
  /\ fetch' = "answered"
  /\ answer' = status[Run]
  /\ UNCHANGED <<rowVars, pushVars, page, cached, missed>>

\* A run that is gone is an error, the query keeps what it has.
MutArrive ==
  /\ fetch = "answered"
  /\ fetch' = "idle"
  /\ cached' = answer
  /\ answer' = NoData
  /\ UNCHANGED <<rowVars, pushVars, page, missed>>

Arrive ==
  /\ fetch = "answered"
  /\ fetch' = "idle"
  /\ cached' = IF answer \in Row!InTable THEN answer ELSE cached
  /\ answer' = NoData
  /\ UNCHANGED <<rowVars, pushVars, page, missed>>

\* The response is lost (or, the same to the page, the request), also when the
\* fetch is tried again.
FetchFails ==
  /\ fetch = "answered"
  /\ fetch' = "idle"
  /\ answer' = NoData
  /\ Miss(TRUE)
  /\ UNCHANGED <<rowVars, pushVars, page, cached>>

------------------------------------------------------------------------------
RunPageNext ==
  \/ UpdateRun \/ UpdateStep \/ ChangeQuietly
  \/ ListenerFails \/ ListenerConnects
  \/ SocketCloses \/ SocketOpens \/ NobodyConnected
  \/ Mount \/ Poll \/ Reload \/ Receive
  \/ Answer \/ Arrive \/ FetchFails

\* The tab is visible, the API answers, and not every answer fails or is
\* canceled; onclose always sets the timer that opens the socket again.  Neither
\* the listener nor any notification has to be lucky.
RunPageFairness ==
  /\ WF_runPageVars(Poll) /\ WF_runPageVars(Answer) /\ SF_runPageVars(Arrive)
  /\ WF_runPageVars(SocketOpens) /\ SF_runPageVars(Receive)

RunPageSpec == RunPageInit /\ [][RunPageNext]_runPageVars /\ RunPageFairness

------------------------------------------------------------------------------
(* Properties *)

Verdicts == Row!Terminal

\* The detail page shows the verdict in the end, even if every notification is
\* lost: polling stops at a terminal status and never before.
DetailSettles ==
  \A s \in Verdicts :
    (page = "detail" /\ status[Run] = s /\ fetch # Hidden)
      ~> (cached = s \/ status[Run] # s \/ disturbed[Run])

\* The dashboard does not poll.  It shows the verdict if no notification was lost
\* and no fetch failed: an answer that was read before the update it is told of
\* does not stand, and only the first fetch may be too early.
ListSettles ==
  \A s \in Verdicts :
    (page = "list" /\ status[Run] = s /\ fetch # Hidden)
      ~> (cached = s \/ status[Run] # s \/ missed \/ disturbed[Run])

\* No page goes back from a verdict, however notifications, polls and reloads
\* overtake each other, if nothing disturbed the run.
NoFlicker ==
  [][(cached \in Verdicts /\ ~disturbed[Run]) => cached' = cached]_runPageVars
==============================================================================
