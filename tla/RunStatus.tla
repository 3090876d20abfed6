------------------------------ MODULE RunStatus ------------------------------
(***************************************************************************)
(* What the run row promises an observer that reads or polls it (the       *)
(* runs page, the run detail page, the API's list and get handlers): the   *)
(* life of a run as a state machine, without workflows, workers, attempts, *)
(* steps or handlers.  RunLifecycle is shown to implement it.              *)
(*                                                                         *)
(* A run is born queued and is never queued again.  As long as nothing     *)
(* interferes with it, it goes queued -> running -> success | failed, or   *)
(* queued -> failed when its workflow could not be started, and a verdict  *)
(* stands.  Once something interfered (a cancel that the server accepted,  *)
(* an unconfirmed start, an attempt the server gave up on), the only       *)
(* promise left is that success is said of a run that was begun, and that  *)
(* the two time stamps, once set, stay set.                                *)
(***************************************************************************)
CONSTANT Runs

VARIABLES
  status,      \* the column runs.status; "absent" before the insert, "deleted" after
  startedAt,   \* runs.started_at is set
  finishedAt,  \* runs.finished_at is set
  disturbed    \* something interfered with the run

vars == <<status, startedAt, finishedAt, disturbed>>

Terminal == {"success", "failed", "canceled"}
InTable  == {"queued", "running"} \cup Terminal

TypeOK ==
  /\ status \in [Runs -> InTable \cup {"absent", "deleted"}]
  /\ startedAt \in [Runs -> BOOLEAN]
  /\ finishedAt \in [Runs -> BOOLEAN]
  /\ disturbed \in [Runs -> BOOLEAN]

Init ==
  /\ status = [r \in Runs |-> "absent"]
  /\ startedAt = [r \in Runs |-> FALSE]
  /\ finishedAt = [r \in Runs |-> FALSE]
  /\ disturbed = [r \in Runs |-> FALSE]

\* The row takes status s and the time stamps that go with it.
Put(r, s) ==
  /\ status' = [status EXCEPT ![r] = s]
  /\ startedAt' = [startedAt EXCEPT ![r] = @ \/ s = "running"]
  /\ finishedAt' = [finishedAt EXCEPT ![r] = @ \/ s \in Terminal]

Queue(r) ==
  /\ status[r] = "absent"
  /\ Put(r, "queued")
  /\ UNCHANGED disturbed

Begin(r) ==
  /\ status[r] = "queued"
  /\ Put(r, "running")
  /\ UNCHANGED disturbed

Finish(r, s) ==
  /\ \/ s = "failed" /\ status[r] \in {"queued", "running"}
     \/ s = "success" /\ status[r] = "running"
  /\ Put(r, s)
  /\ UNCHANGED disturbed

Disturb(r) ==
  /\ disturbed' = [disturbed EXCEPT ![r] = TRUE]
  /\ UNCHANGED <<status, startedAt, finishedAt>>

Overwrite(r, s) ==
  /\ disturbed[r]
  /\ status[r] \in InTable
  /\ s # "queued"
  /\ s = "success" => startedAt[r]
  /\ Put(r, s)
  /\ UNCHANGED disturbed

\* A flow takes all its runs with it when it is deleted.
Delete(gone) ==
  /\ status' = [r \in Runs |-> IF r \in gone THEN "deleted" ELSE status[r]]
  /\ \A r \in gone : status[r] \in InTable
  /\ UNCHANGED <<startedAt, finishedAt, disturbed>>

Next ==
  \/ \E r \in Runs :
       \/ Queue(r) \/ Begin(r) \/ Disturb(r)
       \/ \E s \in {"success", "failed"} : Finish(r, s)
       \/ \E s \in InTable : Overwrite(r, s)
  \/ \E gone \in SUBSET Runs : Delete(gone)

Spec == Init /\ [][Next]_vars
==============================================================================
