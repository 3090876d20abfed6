------------------------------- MODULE ListPages -------------------------------
(***************************************************************************)
(* The pages that list things.  First the tables of flows and of runs: a   *)
(* filter, and a page of what passes it, while the rows under them change  *)
(* at any time.  Then the cards of variables and credentials with their    *)
(* dialogs, which can be closed, and opened for another item, while a      *)
(* request is under way.  Rows and items are numbers; of a row only what a *)
(* filter looks at is left, of a text only which item it is about.         *)
(***************************************************************************)
EXTENDS Naturals, FiniteSets

CONSTANTS
  MaxRows,     \* bound: rows of a table, and items ever created
  PageSizes,   \* 10, 25 and 50, or 10, 20 and 50
  Owners       \* the owner of a flow; of a run, its flow

ASSUME ListAssumption ==
  /\ MaxRows \in Nat /\ PageSizes \subseteq Nat \ {0}
  /\ "all" \notin Owners /\ "absent" \notin Owners

VARIABLES
  table,     \* the page: "flows", "runs" or "items"
  data,      \* the rows as last fetched: their owner, or "absent"
  filter,    \* the owner that is filtered by, or "all"
  text,      \* the rows the search text, the status or the time leave
  pageNo, pageSize,
  items,     \* the variables, or credentials, on the server
  modalOpen, editing, draft, saving,                \* the dialog of a variable
  confirmDeleteOpen, selectedId, deleting,          \* the one that deletes
  clicked,   \* history: the item whose dialog was opened last, 0 for a new one
  calls,     \* requests under way
  done       \* history: what the server did last, and what for

tableVars == <<table, data, filter, text, pageNo, pageSize>>
dialogVars == <<items, modalOpen, editing, draft, saving, confirmDeleteOpen, selectedId, deleting,
                clicked, calls, done>>
listVars == <<tableVars, dialogVars>>

Ids == 1..MaxRows
New == 0

ListInit ==
  /\ table \in {"flows", "runs", "items"} /\ data = [r \in Ids |-> "absent"] /\ filter = "all" /\ text = Ids
  /\ pageNo = 1 /\ pageSize \in PageSizes
  /\ items = {1}
  /\ modalOpen = FALSE /\ editing = New /\ draft = New /\ saving = FALSE
  /\ confirmDeleteOpen = FALSE /\ selectedId = New /\ deleting = FALSE
  /\ clicked = New /\ calls = {} /\ done = {}

(***************************************************************************)
(* A table.                                                                *)
(***************************************************************************)
AtLeast1(n) == IF n = 0 THEN 1 ELSE n
Least(m, n) == IF m < n THEN m ELSE n
Filtered(rs, f, t) == {r \in Ids \cap t : rs[r] # "absent" /\ (f = "all" \/ rs[r] = f)}
pageCount(rs, f, t, size) == AtLeast1((Cardinality(Filtered(rs, f, t)) + size - 1) \div size)
\* The page that is shown, although a page further on was asked for.
MutPageSafe(rs, f, t, p, size) == p
pageSafe(rs, f, t, p, size) == Least(p, pageCount(rs, f, t, size))
shownRows ==
  LET start == (pageSafe(data, filter, text, pageNo, pageSize) - 1) * pageSize
      n == Cardinality(Filtered(data, filter, text))
  IN IF n <= start THEN 0 ELSE Least(pageSize, n - start)
\* An owner that no row has any more is not filtered by; for runs nothing
\* looks after the flow.
useFlowsFilters(rs, f) ==
  IF table = "flows" /\ ~ \E r \in Ids : rs[r] = f THEN "all" ELSE f
\* The effects that follow: the first page after a change of the filter or of
\* the size, and for flows the page that is shown becomes the one asked for.
Commit(rs, f, t, size, p) ==
  LET owner == useFlowsFilters(rs, f)
  IN /\ data' = rs /\ filter' = owner /\ text' = t /\ pageSize' = size
     /\ pageNo' = IF owner # filter \/ t # text \/ size # pageSize THEN 1
                ELSE IF table = "flows" THEN pageSafe(rs, owner, t, p, size) ELSE p
     /\ UNCHANGED <<table, dialogVars>>
refetched == \E rs \in [Ids -> Owners \cup {"absent"}] : rs # data /\ Commit(rs, filter, text, pageSize, pageNo)
setFilter ==
  \/ \E f \in Owners \cup {"all"} :
       /\ f # filter /\ (table = "flows" /\ f # "all" => \E r \in Ids : data[r] = f)
       /\ Commit(data, f, text, pageSize, pageNo)
  \/ \E t \in SUBSET Ids : t # text /\ Commit(data, filter, t, pageSize, pageNo)
setPageSize == \E size \in PageSizes \ {pageSize} : Commit(data, filter, text, size, pageNo)
\* To the next and the previous page; for runs also to the first and the last.
setPage ==
  LET here == pageSafe(data, filter, text, pageNo, pageSize)
  IN \E p \in 1..pageCount(data, filter, text, pageSize) :
       /\ p # here
       /\ p \in {here - 1, here + 1} \/ (table = "runs" /\ p \in {1, pageCount(data, filter, text, pageSize)})
       /\ Commit(data, filter, text, pageSize, p)

(***************************************************************************)
(* The dialogs: one over the page at a time.  Escape, the cross and the    *)
(* backdrop close one also while it waits.                                 *)
(***************************************************************************)
Free == ~modalOpen /\ ~confirmDeleteOpen
MutOpenCreate ==
  /\ Free /\ modalOpen' = TRUE /\ draft' = New /\ clicked' = New
  /\ UNCHANGED <<items, editing, saving, confirmDeleteOpen, selectedId, deleting, calls, done>>
openCreate ==
  /\ Free /\ modalOpen' = TRUE /\ editing' = New /\ draft' = New /\ clicked' = New
  /\ UNCHANGED <<items, saving, confirmDeleteOpen, selectedId, deleting, calls, done>>
openEdit(i) ==
  /\ Free /\ modalOpen' = TRUE /\ editing' = i /\ draft' = i /\ clicked' = i
  /\ UNCHANGED <<items, saving, confirmDeleteOpen, selectedId, deleting, calls, done>>
VariableItem(i) ==
  /\ Free /\ selectedId' = i /\ confirmDeleteOpen' = TRUE /\ clicked' = i
  /\ UNCHANGED <<items, modalOpen, editing, draft, saving, deleting, calls, done>>
VariableModal ==
  /\ modalOpen /\ modalOpen' = FALSE
  /\ UNCHANGED <<items, editing, draft, saving, confirmDeleteOpen, selectedId, deleting, clicked,
                 calls, done>>
ConfirmDialog ==
  /\ confirmDeleteOpen /\ confirmDeleteOpen' = FALSE
  /\ UNCHANGED <<items, modalOpen, editing, draft, saving, selectedId, deleting, clicked, calls, done>>

Call(kind, item) == [kind |-> kind, item |-> item, draft |-> draft, for |-> clicked]
\* With a key that is not blank.
onSave ==
  /\ modalOpen /\ ~saving /\ saving' = TRUE
  /\ calls' = calls \cup {Call("save", editing)}
  /\ UNCHANGED <<items, modalOpen, editing, draft, confirmDeleteOpen, selectedId, deleting, clicked, done>>
onDelete ==
  /\ confirmDeleteOpen /\ ~deleting /\ selectedId # New /\ deleting' = TRUE
  /\ calls' = calls \cup {Call("delete", selectedId)}
  /\ UNCHANGED <<items, modalOpen, editing, draft, saving, confirmDeleteOpen, selectedId, clicked, done>>
\* Whatever dialog is open by now, a success closes it, and the end of a
\* deletion closes the other and forgets its item.
saved(c, ok) ==
  /\ saving' = FALSE /\ modalOpen' = (modalOpen /\ ~ok)
  /\ UNCHANGED <<confirmDeleteOpen, selectedId, deleting>>
deleted ==
  /\ deleting' = FALSE /\ confirmDeleteOpen' = FALSE /\ selectedId' = New
  /\ UNCHANGED <<modalOpen, saving>>
answers(c) ==
  /\ calls' = calls \ {c}
  /\ \E ok \in BOOLEAN :
       /\ IF c.kind = "save" THEN saved(c, ok) ELSE deleted
       /\ \/ /\ c.kind = "save" /\ c.item = New
             /\ \E i \in Ids \ items : items' = items \cup {i}
             /\ done' = {c}
          \/ /\ c.item \in items /\ done' = {c}
             /\ items' = IF c.kind = "delete" THEN items \ {c.item} ELSE items
          \* The server refuses, or does not answer.
          \/ ~ok /\ UNCHANGED <<items, done>>
  /\ UNCHANGED <<editing, draft, clicked>>

ListNext ==
  \/ table # "items" /\ (refetched \/ setFilter \/ setPageSize \/ setPage)
  \/ /\ table = "items" /\ UNCHANGED tableVars
     /\ \/ openCreate \/ VariableModal \/ ConfirmDialog \/ onSave \/ onDelete
        \/ \E i \in items : openEdit(i) \/ VariableItem(i)
        \/ \E c \in calls : answers(c)

ListSpec == ListInit /\ [][ListNext]_listVars

\* What the variables hold.
Item == Nat \ {New}
CallType == [kind : {"save", "delete"}, item : Nat, draft : Nat, for : Nat]
ListTypeOK ==
  /\ table \in {"flows", "runs", "items"} /\ data \in [Ids -> Owners \cup {"absent"}]
  /\ filter \in Owners \cup {"all"} /\ text \subseteq Ids
  /\ pageNo \in Nat \ {0} /\ pageSize \in PageSizes
  /\ items \subseteq Item
  /\ modalOpen \in BOOLEAN /\ editing \in Nat /\ draft \in Nat /\ saving \in BOOLEAN
  /\ confirmDeleteOpen \in BOOLEAN /\ selectedId \in Nat /\ deleting \in BOOLEAN
  /\ clicked \in Nat /\ calls \subseteq CallType /\ done \subseteq CallType

(***************************************************************************)
(* Why the pages are right: the flows' filter is of an owner that has some *)
(* row, and while a dialog is open what it holds is the item of the click. *)
(***************************************************************************)
FilterHasRows == table = "flows" => filter = "all" \/ \E r \in Ids : data[r] = filter
AsAsked(c) == c.item = c.for /\ (c.kind = "save" => c.draft = c.for)
DialogsFollow ==
  /\ modalOpen => editing = clicked /\ draft = clicked
  /\ confirmDeleteOpen => selectedId = clicked /\ selectedId # New
  /\ \A c \in calls \cup done : AsAsked(c)

(***************************************************************************)
(* No table is empty although a row passes its filter: after rows have     *)
(* gone, the page that was asked for may be beyond the last one.  And the  *)
(* flows of a workspace that were there before the filter was do not seem  *)
(* to be gone because those of its owner are.                              *)
(***************************************************************************)
PageHasRows ==
  /\ Filtered(data, filter, text) # {} => shownRows > 0
  /\ table = "flows" /\ text = Ids /\ (\E r \in Ids : data[r] # "absent") => shownRows > 0

(***************************************************************************)
(* What is stored or deleted is the item, and what is stored in it the     *)
(* text, whose dialog the user had opened, although the dialog was closed  *)
(* and opened for another item before.                                     *)
(***************************************************************************)
ItemsAsAsked == \A c \in done : AsAsked(c)

(***************************************************************************)
(* The dialog that deletes has an item to delete: its button always does   *)
(* something, also after a deletion that was under way has ended.          *)
(***************************************************************************)
ConfirmActs == confirmDeleteOpen => selectedId # New

\* The dialogs do what their titles say, and to the item that is shown.
DialogsAct == ItemsAsAsked /\ ConfirmActs
=============================================================================
