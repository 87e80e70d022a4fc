------------------------------- MODULE RolesPage -------------------------------
(***************************************************************************)
(* The roles page of an administrator: the list, page by page, the panel   *)
(* beside it with its forms, and the dialog before a deletion.  Loads are  *)
(* not aborted, and a load that ends sets the page it was for: an effect    *)
(* loads that page again if it was another one.                            *)
(*                                                                         *)
(* A role is its place in the order of names, by which the server lists.   *)
(* Nobody else changes roles; a mutation is answered as it is made, or its *)
(* answer is lost.  What is typed is left out.                             *)
(***************************************************************************)
EXTENDS Integers, FiniteSets

CONSTANTS
  Role,     \* roles in the order of their names, those to be created among them
  Initial,  \* roles there are at first
  Limit,    \* DEFAULT_ROLE_LIMIT
  None,     \* null
  Current,  \* undefined: the role selected stays selected
  MaxCalls  \* bound: calls under way at one time

VARIABLE s  \* the state of RolesPage and of its forms, and the roles there are

\* What the caller of loadRoles does next: nothing, or a handler goes on.
Flow == {"none", "created", "edited", "deleted"}

\* prefer: preferredSelectionId, Current if it is not given.  known: previousIds.
\* seen: the roles there were when the server answered.
Loads == [id : 1..MaxCalls, op : {"load"}, at : Nat, prefer : Role \cup {None, Current},
          flow : Flow, known : SUBSET Role, answer : {"none", "ok", "failed"},
          seen : SUBSET Role]

\* at: the offset of the page when it was sent.  last: the page had one role then.
Mutations == [id : 1..MaxCalls, op : {"create", "edit", "delete"}, role : Role,
              at : Nat, last : BOOLEAN]

\* known: roleIdsBeforeCreateRef.  form: the call of the form on the screen,
\* or 0.  disturbed is history: a click has made a call while another was
\* under way, a load has failed, or the answer of a change made has been lost.
State == [roles : SUBSET Role, rows : SUBSET Role, total : Nat, offset : Nat,
          loading : BOOLEAN, error : BOOLEAN, view : {"idle", "details", "create", "edit"},
          sel : Role \cup {None}, dialog : Role \cup {None}, deleting : BOOLEAN,
          known : SUBSET Role, form : 0..MaxCalls, disturbed : BOOLEAN,
          calls : SUBSET (Loads \cup Mutations)]

TypeOK == s \in State

LoadCall(id, prefer, at, flow, known) ==
  [id |-> id, op |-> "load", at |-> at, prefer |-> prefer, flow |-> flow,
   known |-> known, answer |-> "none", seen |-> {}]

Init ==
  s = [roles |-> Initial, rows |-> {}, total |-> 0, offset |-> 0, loading |-> TRUE,
       error |-> FALSE, view |-> "idle", sel |-> None, dialog |-> None,
       deleting |-> FALSE, known |-> {}, form |-> 0, disturbed |-> FALSE,
       calls |-> {LoadCall(1, Current, 0, "none", {})}]

-----------------------------------------------------------------------------
(* Loads and effects.                                                       *)

Free(t) == {n \in 1..MaxCalls : \A c \in t.calls : c.id # n}
NewId(t) == CHOOSE n \in Free(t) : \A m \in Free(t) : n <= m

\* The start of loadRoles.
Load(t, prefer, at, flow, known) ==
  [t EXCEPT !.loading = TRUE, !.error = FALSE,
            !.calls = @ \cup {LoadCall(NewId(t), prefer, at, flow, known)}]

\* The effects after a step that leaves the page in state t: a panel without
\* its role is closed, a form goes with its view, another offset is loaded.
Settle(t) ==
  LET closed == t.view \in {"details", "edit"} /\ t.sel \notin t.rows
      u == [t EXCEPT !.view = IF closed THEN "idle" ELSE @,
                     !.form = IF closed \/ t.view # s.view THEN 0 ELSE @]
  IN  s' = IF t.offset = s.offset THEN u ELSE Load(u, Current, t.offset, "none", {})

\* A click that makes a call.
Clicked(t) == [t EXCEPT !.disturbed = @ \/ s.calls # {}]

-----------------------------------------------------------------------------
(* Clicks.                                                                  *)

Clickable == s.dialog = None

Refresh ==
  /\ Clickable /\ Free(s) # {}
  /\ Settle(Load(Clicked(s), Current, s.offset, "none", {}))

GoToPage(o) ==
  /\ Clickable /\ ~s.loading /\ Free(s) # {}
  /\ IF o < s.offset THEN s.offset > 0 ELSE o < s.total
  /\ Settle([Clicked(s) EXCEPT !.sel = None, !.view = "idle",
                               !.offset = IF o < 0 THEN 0 ELSE o])

\* The rows take no clicks while they are refreshed.
RowsClickable == Clickable /\ ~s.loading /\ ~s.error

SelectRole(r) ==
  /\ RowsClickable /\ r \in s.rows
  /\ Settle([s EXCEPT !.sel = r, !.view = "details"])

CreateButton ==
  /\ Clickable
  /\ Settle([s EXCEPT !.known = s.rows, !.sel = None, !.view = "create"])

EditButton == Clickable /\ s.view = "details" /\ Settle([s EXCEPT !.view = "edit"])

CancelForm ==
  /\ Clickable /\ s.view \in {"create", "edit"}
  /\ Settle([s EXCEPT !.view = IF s.view = "edit" THEN "details" ELSE "idle"])

DeleteButton(r) ==
  /\ \/ RowsClickable /\ r \in s.rows
     \/ Clickable /\ s.view = "details" /\ r = s.sel
  /\ Settle([s EXCEPT !.dialog = r])

CancelDelete == s.dialog # None /\ ~s.deleting /\ Settle([s EXCEPT !.dialog = None])

Mutate(op, role) ==
  [Clicked(s) EXCEPT !.calls = @ \cup {[id |-> NewId(s), op |-> op, role |-> role,
                                         at |-> s.offset, last |-> Cardinality(s.rows) = 1]}]

SubmitForm(op, role) ==
  /\ Clickable /\ s.form = 0 /\ Free(s) # {}
  /\ Settle([Mutate(op, role) EXCEPT !.form = NewId(s)])

SubmitCreate(r) ==
  /\ s.view = "create" /\ r \notin s.roles
  /\ SubmitForm("create", r)

SubmitEdit == s.view = "edit" /\ SubmitForm("edit", s.sel)

ConfirmDelete ==
  /\ s.dialog # None /\ ~s.deleting /\ Free(s) # {}
  /\ Settle([Mutate("delete", s.dialog) EXCEPT !.deleting = TRUE])

-----------------------------------------------------------------------------
(* The server.                                                              *)

\* LIMIT and OFFSET over the roles in the order of their names.
PageOf(S, o) ==
  {r \in S : LET place == Cardinality({q \in S : q < r}) IN o <= place /\ place < o + Limit}

Answer(c, answer) ==
  /\ c.op = "load" /\ c.answer = "none"
  /\ s' = [s EXCEPT !.calls = (@ \ {c}) \cup {[c EXCEPT !.answer = answer, !.seen = s.roles]}]

-----------------------------------------------------------------------------
(* Answers.                                                                 *)

\* The state without the call, in which the server has the given roles.
Without(c, roles) == [s EXCEPT !.roles = roles, !.calls = @ \ {c}]

First(S) == IF S = {} THEN None ELSE CHOOSE r \in S : \A q \in S : r <= q

\* What the handler that waits for a load does with the roles it brings.
Continue(t, c, rows) ==
  LET chosen == CASE c.flow = "created" -> IF rows \ c.known # {} THEN First(rows \ c.known)
                                            ELSE First(rows)
                  [] OTHER -> IF c.prefer \in rows THEN c.prefer ELSE None
  IN  IF c.flow \in {"created", "edited"}
      THEN [t EXCEPT !.sel = chosen, !.view = IF chosen = None THEN "idle" ELSE "details"]
      ELSE IF c.flow = "deleted" THEN [t EXCEPT !.deleting = FALSE] ELSE t

Loaded(c) ==
  /\ c.op = "load" /\ c.answer = "ok"
  /\ LET rows == PageOf(c.seen, c.at)
         wanted == IF c.prefer = Current THEN s.sel ELSE c.prefer
         t == [Without(c, s.roles) EXCEPT
                 !.rows = rows, !.total = Cardinality(c.seen), !.offset = c.at,
                 !.loading = FALSE, !.sel = IF wanted \in rows THEN wanted ELSE None]
     IN  Settle(Continue(t, c, rows))

\* Mutant: the handler that waits does not go on after a failure.
LoadFailedAlone(c) ==
  /\ c.op = "load" /\ c.answer = "failed"
  /\ Settle([Without(c, s.roles) EXCEPT !.error = TRUE, !.loading = FALSE, !.disturbed = TRUE])

LoadFailed(c) ==
  /\ c.op = "load" /\ c.answer = "failed"
  /\ Settle(Continue([Without(c, s.roles) EXCEPT !.error = TRUE, !.loading = FALSE,
                                         !.disturbed = TRUE], c, {}))

\* handleCreateSuccess: back to the first page.
Created(c) ==
  /\ c.op = "create" /\ c.role \notin s.roles
  /\ LET t == [Without(c, s.roles \cup {c.role}) EXCEPT !.form = IF @ = c.id THEN 0 ELSE @]
     IN  Settle(Load(t, Current, 0, "created", s.known))

\* handleEditSuccess: to the page the form was on.
Edited(c) ==
  /\ c.op = "edit" /\ c.role \in s.roles
  /\ LET t == [Without(c, s.roles) EXCEPT !.form = IF @ = c.id THEN 0 ELSE @]
     IN  Settle(Load(t, s.sel, c.at, "edited", {}))

\* The roles there may be after a failed call: as before, or, if its answer is
\* lost, as it makes them.
AfterFailure(c) ==
  {s.roles, CASE c.op = "create" -> s.roles \cup {c.role}
              [] c.op = "delete" -> s.roles \ {c.role}
              [] OTHER -> s.roles}

NotSaved(c) ==
  /\ c.op \in {"create", "edit"}
  /\ \E roles \in AfterFailure(c) :
       Settle([Without(c, roles) EXCEPT !.form = IF @ = c.id THEN 0 ELSE @,
                                        !.disturbed = @ \/ roles # s.roles])

\* Mutant: the page that has lost its last role is loaded again.
OffsetAfterDeleteSame(c) == c.at

OffsetAfterDelete(c) ==
  IF ~c.last THEN c.at ELSE IF c.at < Limit THEN 0 ELSE c.at - Limit

Deleted(c) ==
  /\ c.op = "delete" /\ c.role \in s.roles
  /\ LET t == [Without(c, s.roles \ {c.role}) EXCEPT !.dialog = None, !.sel = None,
                                                     !.view = "idle"]
     IN  Settle(Load(t, None, OffsetAfterDelete(c), "deleted", {}))

NotDeleted(c) ==
  /\ c.op = "delete"
  /\ \E roles \in AfterFailure(c) :
       Settle([Without(c, roles) EXCEPT !.deleting = FALSE,
                                        !.disturbed = @ \/ roles # s.roles])

-----------------------------------------------------------------------------

Next ==
  \/ Refresh \/ CreateButton \/ EditButton \/ CancelForm
  \/ \E d \in {-Limit, Limit} : GoToPage(s.offset + d)
  \/ \E r \in Role : SelectRole(r) \/ DeleteButton(r) \/ SubmitCreate(r)
  \/ SubmitEdit \/ CancelDelete \/ ConfirmDelete
  \/ \E c \in s.calls :
       \/ \E answer \in {"ok", "failed"} : Answer(c, answer)
       \/ Loaded(c) \/ LoadFailed(c)
       \/ Created(c) \/ Edited(c) \/ NotSaved(c) \/ Deleted(c) \/ NotDeleted(c)

-----------------------------------------------------------------------------
(* Properties.                                                              *)

\* Unless a click has made a call during another, a load has failed or the
\* answer of a change made was lost, the list that has settled is a page of the
\* roles there are, and is empty only if there are none: a deleted role is
\* gone, and so is the page it was the last of.
ListIsAPage ==
  ~s.disturbed /\ s.calls = {} =>
     /\ s.rows = PageOf(s.roles, s.offset)
     /\ s.rows = {} => s.roles = {}

\* The page waits only for what is under way.
WaitsForCalls ==
  /\ s.loading => \E c \in s.calls : c.op = "load"
  /\ s.deleting => \E c \in s.calls : IF c.op = "load" THEN c.flow = "deleted" ELSE c.op = "delete"
  /\ s.form # 0 => \E c \in s.calls : c.id = s.form

=============================================================================
