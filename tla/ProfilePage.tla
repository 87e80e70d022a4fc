------------------------------ MODULE ProfilePage ------------------------------
(***************************************************************************)
(* The user's own profile: its load in two calls, the form with its draft,  *)
(* the memberships, and their removal, which ends with a timer that takes   *)
(* the row from the list.                                                  *)
(*                                                                         *)
(* A value stands for all the fields of the form.  Memberships may be taken *)
(* away by others too; only this page edits the profile.                   *)
(***************************************************************************)
EXTENDS Integers

CONSTANTS
  Value,    \* what the fields may hold
  Valid,    \* those that validateDraft and validateSocialLinks accept
  Initial,  \* what they hold at first
  Position, \* positions the user is a member of
  None,     \* null
  MaxCalls  \* bound: calls under way at one time

VARIABLE s  \* the state of ProfilePage, and what the server holds

Part == {"profile", "memberships"}

\* A load is two calls; parts: those that have brought their answer, with the
\* memberships there were then.
Call ==
  [id : 1..MaxCalls, op : {"load"}, parts : SUBSET Part, value : Value \cup {None},
   held : SUBSET Position]
  \cup [id : 1..MaxCalls, op : {"save"}, value : Valid]
  \cup [id : 1..MaxCalls, op : {"remove"}, position : Position]

\* held, saved: on the server.  rows: memberships.  timers: fadeTimersRef.
\* unsure, history: the answer of a save that was made has been lost since one came.
State == [held : SUBSET Position, saved : Value, profile : Value \cup {None},
          rows : SUBSET Position, loading : BOOLEAN, error : BOOLEAN,
          draft : Value \cup {None}, saving : BOOLEAN, dialog : Position \cup {None},
          fading : SUBSET Position, timers : SUBSET Position, unsure : BOOLEAN,
          calls : SUBSET Call]

TypeOK == s \in State

NewLoad(id) == [id |-> id, op |-> "load", parts |-> {}, value |-> None, held |-> {}]

Init ==
  s = [held |-> Position, saved |-> Initial, profile |-> None, rows |-> {},
       loading |-> TRUE, error |-> FALSE, draft |-> None, saving |-> FALSE,
       dialog |-> None, fading |-> {}, timers |-> {}, unsure |-> FALSE,
       calls |-> {NewLoad(1)}]

-----------------------------------------------------------------------------

Free == {n \in 1..MaxCalls : \A c \in s.calls : c.id # n}
NewId == CHOOSE n \in Free : \A m \in Free : n <= m

Drawn == ~s.loading /\ ~s.error /\ s.profile # None
Clickable == Drawn /\ s.dialog = None

Retry ==
  /\ s.error /\ ~s.loading /\ Free # {}
  /\ s' = [s EXCEPT !.loading = TRUE, !.error = FALSE, !.calls = @ \cup {NewLoad(NewId)}]

\* The draft is there while the profile is being edited.
Edit == Clickable /\ s.draft = None /\ s' = [s EXCEPT !.draft = s.profile]

\* The fields are not disabled while the profile is being saved.
UpdateDraft(v) == Clickable /\ s.draft \notin {None, v} /\ s' = [s EXCEPT !.draft = v]

CancelEdit == Clickable /\ s.draft # None /\ ~s.saving /\ s' = [s EXCEPT !.draft = None]

\* A draft that is not valid, or changes nothing, is not sent.
Save ==
  /\ Clickable /\ ~s.saving
  /\ s.draft \in Valid \ {s.profile} /\ Free # {}
  /\ s' = [s EXCEPT !.saving = TRUE,
                    !.calls = @ \cup {[id |-> NewId, op |-> "save", value |-> s.draft]}]

RemoveButton(p) == Clickable /\ p \in s.rows /\ s' = [s EXCEPT !.dialog = p]

CancelRemove == s.dialog # None /\ s' = [s EXCEPT !.dialog = None]

\* The dialog closes at once: the same row may be removed once more.
ConfirmRemove ==
  /\ s.dialog # None /\ Free # {}
  /\ s' = [s EXCEPT !.dialog = None,
             !.calls = @ \cup {[id |-> NewId, op |-> "remove", position |-> s.dialog]}]

-----------------------------------------------------------------------------

\* One of the two answers has come.
PartLoaded(c, part) ==
  /\ c.op = "load" /\ part \notin c.parts /\ c.parts = {}
  /\ s' = [s EXCEPT !.calls = (@ \ {c}) \cup
       {[c EXCEPT !.parts = {part}, !.value = IF part = "profile" THEN s.saved ELSE None,
                  !.held = IF part = "memberships" THEN s.held ELSE {}]}]

\* Promise.all: both have.
LoadEnds(c) ==
  /\ c.op = "load" /\ c.parts # {}
  /\ s' = [s EXCEPT !.profile = IF "profile" \in c.parts THEN c.value ELSE s.saved,
                    !.rows = IF "memberships" \in c.parts THEN c.held ELSE s.held,
                    !.loading = FALSE, !.calls = @ \ {c}]

\* The first failure ends it.
LoadFails(c) ==
  /\ c.op = "load"
  /\ s' = [s EXCEPT !.error = TRUE, !.loading = FALSE, !.calls = @ \ {c}]

\* Mutant: the page keeps the profile it had.
SavedUnseen(c) ==
  /\ c.op = "save"
  /\ s' = [s EXCEPT !.saved = c.value, !.draft = None, !.saving = FALSE,
                    !.unsure = FALSE, !.calls = @ \ {c}]

Saved(c) ==
  /\ c.op = "save"
  /\ s' = [s EXCEPT !.saved = c.value, !.profile = c.value, !.draft = None,
                    !.saving = FALSE, !.unsure = FALSE, !.calls = @ \ {c}]

\* Refused or not reached; or made, and the answer is lost.
NotSaved(c) ==
  /\ c.op = "save"
  /\ \/ s' = [s EXCEPT !.saving = FALSE, !.calls = @ \ {c}]
     \/ s' = [s EXCEPT !.saved = c.value, !.saving = FALSE, !.unsure = TRUE,
                       !.calls = @ \ {c}]

\* Mutant: the row fades, and no timer takes it away.
RemovedForNow(c) ==
  /\ c.op = "remove" /\ c.position \in s.held
  /\ s' = [s EXCEPT !.held = @ \ {c.position}, !.fading = @ \cup {c.position},
                    !.calls = @ \ {c}]

Removed(c) ==
  /\ c.op = "remove" /\ c.position \in s.held
  /\ s' = [s EXCEPT !.held = @ \ {c.position}, !.fading = @ \cup {c.position},
                    !.timers = @ \cup {c.position}, !.calls = @ \ {c}]

\* Refused, or the membership is gone already.
NotRemoved(c) == c.op = "remove" /\ s' = [s EXCEPT !.calls = @ \ {c}]

\* After 150 ms.
FadeOut(p) ==
  /\ p \in s.timers
  /\ s' = [s EXCEPT !.rows = @ \ {p}, !.fading = @ \ {p}, !.timers = @ \ {p}]

\* A position is archived.
OtherRemoves(p) == p \in s.held /\ s' = [s EXCEPT !.held = @ \ {p}]

Next ==
  \/ Retry \/ Edit \/ CancelEdit \/ Save \/ CancelRemove \/ ConfirmRemove
  \/ \E v \in Value : UpdateDraft(v)
  \/ \E p \in Position : RemoveButton(p) \/ FadeOut(p) \/ OtherRemoves(p)
  \/ \E c \in s.calls :
       \/ \E part \in Part : PartLoaded(c, part)
       \/ LoadEnds(c) \/ LoadFails(c) \/ Saved(c) \/ NotSaved(c) \/ Removed(c) \/ NotRemoved(c)

-----------------------------------------------------------------------------
(* Properties.                                                              *)

\* The profile shown is the one on the server, however saves overlap edits and
\* whatever was saved unnoticed before the last answer to a save; the draft that
\* is being saved is never sent a second time.
ProfileIsTheSavedOne ==
  /\ Drawn => s.profile = s.saved \/ s.unsure
  /\ \A c, d \in s.calls : c.op = "save" /\ d.op = "save" => c = d

\* A row fades only if its membership is gone and a timer will take it away.
FadingRowsGo == \A p \in s.fading : p \notin s.held /\ p \in s.timers

\* The page waits only for what is under way.
WaitsForCalls ==
  /\ s.loading => \E c \in s.calls : c.op = "load"
  /\ s.saving => \E c \in s.calls : c.op = "save"

=============================================================================
