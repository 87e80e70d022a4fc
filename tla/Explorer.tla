-------------------------------- MODULE Explorer --------------------------------
(***************************************************************************)
(* The division explorer of the frontend: the tree it has loaded, the      *)
(* selection, the panel and its forms, the members of a position, and the  *)
(* calls that are under way.  A user's event and the continuation of an    *)
(* answer are steps; the server answers in any order, and others change    *)
(* the divisions meanwhile.  A load that is aborted hears of it in a step   *)
(* of its own, at any time later (in the browser: before anything else).   *)
(*                                                                         *)
(* Left out: the tab of the panel (the user turns to "positions" when she  *)
(* wants it), what is typed in a form, the drawing of the tree             *)
(* (TreeViewport) and the list of positions, which is loaded like it.      *)
(***************************************************************************)
EXTENDS Integers, FiniteSets

CONSTANTS
  Division,     \* divisions, those that may be created among them
  Initial,      \* divisions that are there when the page is opened
  Position,     \* positions, each with members
  Parent,       \* division -> division, or Root
  Root,         \* "root", the node the page adds above the tree
  None,         \* null
  MaxCalls,     \* bound: calls of the API, the first load included
  MaxVersion    \* bound: changes to the divisions

ASSUME NamesDiffer == Root \notin Division /\ None \notin Division \cup Position \cup {Root}
ASSUME DataTypes ==
  /\ Initial \subseteq Division
  /\ Parent \in [Division -> Division \cup {Root}]
ASSUME BoundTypes == MaxCalls \in Nat \ {0} /\ MaxVersion \in Nat \ {0}

VARIABLES
  org,         \* the divisions of the server: version, and those not archived
  used,        \* every division there has been
  tree,        \* nodesById: what the last load has brought
  view,        \* the state of explorerReducer
  busy,        \* the call of the position or member form on the screen, or 0
  title,       \* selectedPositionTitle, the position it is of
  members,     \* positionMembers, the position they are of; None: the empty list
  loading,     \* isBootstrapLoading ("boot") and isRefreshing ("refresh")
  submitting,  \* isSubmitting
  forbidden,   \* forbiddenMessage is set
  failed,      \* errorMessage is set
  dialog,      \* archiveDialogOpen
  pending,     \* pendingSelectRef
  current,     \* treeAbortControllerRef: the load it aborts, or 0
  picked,      \* memberRequestSeq: the last call for members
  calls,       \* the calls under way
  sent,        \* number of calls made
  toast,       \* the last success toast: of a change "made" or "not made"
  acked        \* history: version of the last change this page was told of

vars == <<org, used, tree, view, busy, title, members, loading, submitting, forbidden,
          failed, dialog, pending, current, picked, calls, sent, toast, acked>>
server == <<org, used>>
loader == <<tree, loading, failed, pending, current>>
people == <<title, members, picked>>
flags  == <<submitting, forbidden, dialog>>

Node  == Division \cup {Root}
Maybe == Node \cup {None}
Tree  == [v : 0..MaxVersion, live : SUBSET Division]

Forms == {"division.edit", "division.create", "position.create", "membership.create"}

\* at: the divisionId of the panel mode, or the parentId of division.create.
\* The positionId of membership.create is pos: no list to pick from is shown.
View == [kind : Forms \cup {"empty", "division.view"}, at : Maybe, sel : Maybe,
         pos : Position \cup {None}, load : {"idle", "loading", "loaded", "error"}]

Mutation == {"create", "edit", "archive"}

\* on: what the call is about (of a load: selectId).  flow: the handler that
\* waits for the load.  snap: the tree in the answer of a load.
Call == [id : 1..MaxCalls,
         op : {"boot", "refresh", "members", "position", "membership"} \cup Mutation,
         on : Maybe \cup Position, flow : Mutation \cup {"none"},
         answer : {"none", "ok", "forbidden", "failed", "aborted"}, snap : Tree]

NoTree == [v |-> 0, live |-> {}]

NewCall(op, on, flow) ==
  [id |-> sent + 1, op |-> op, on |-> on, flow |-> flow, answer |-> "none", snap |-> NoTree]

TypeOK ==
  /\ org \in [v : 1..MaxVersion, live : SUBSET Division]
  /\ used \subseteq Division /\ org.live \subseteq used
  /\ tree \in Tree /\ view \in View
  /\ busy \in 0..MaxCalls /\ picked \in 0..MaxCalls /\ current \in 0..MaxCalls
  /\ title \in Position \cup {None} /\ members \in Position \cup {None}
  /\ loading \subseteq {"boot", "refresh"}
  /\ {submitting, forbidden, failed, dialog} \subseteq BOOLEAN
  /\ pending \in Maybe
  /\ calls \subseteq Call /\ sent \in 0..MaxCalls
  /\ toast \in {"none", "made", "not made"}
  /\ acked \in 0..MaxVersion

Init ==
  /\ org = [v |-> 1, live |-> Initial]
  /\ used = Initial
  /\ tree = NoTree
  /\ view = [kind |-> "empty", at |-> None, sel |-> None, pos |-> None, load |-> "idle"]
  /\ busy = 0 /\ title = None /\ members = None
  /\ loading = {"boot"}
  /\ submitting = FALSE /\ forbidden = FALSE /\ failed = FALSE /\ dialog = FALSE
  /\ pending = None
  /\ current = 1 /\ picked = 0 /\ sent = 1
  /\ calls = {[id |-> 1, op |-> "boot", on |-> None, flow |-> "none",
               answer |-> "none", snap |-> NoTree]}
  /\ toast = "none"
  /\ acked = 0

-----------------------------------------------------------------------------
(* explorerReducer.                                                         *)

SelectDivision(v, d) ==
  IF v.kind # "empty" THEN v
  ELSE [kind |-> "division.view", at |-> d, sel |-> d, pos |-> None, load |-> "idle"]

Viewing(v, d) == v.kind = "division.view" /\ v.at = d

StartDivisionEdit(v, d) == IF Viewing(v, d) THEN [v EXCEPT !.kind = "division.edit"] ELSE v

StartDivisionCreate(v, parent) ==
  IF v.kind \in {"empty", "division.view"}
  THEN [v EXCEPT !.kind = "division.create", !.at = parent] ELSE v

StartPositionCreate(v, d) == IF Viewing(v, d) THEN [v EXCEPT !.kind = "position.create"] ELSE v

\* Mutant: the two ids are swapped.
StartMembershipCreateSwapped(v, d, p) ==
  IF Viewing(v, d) THEN [v EXCEPT !.kind = "membership.create", !.at = p, !.pos = d] ELSE v

StartMembershipCreate(v, d, p) ==
  IF Viewing(v, d) THEN [v EXCEPT !.kind = "membership.create", !.pos = p] ELSE v

Cleared(v) == [kind |-> "empty", at |-> None, sel |-> None, pos |-> None, load |-> "idle"]

Cancel(v) ==
  IF v.kind \notin Forms THEN v
  ELSE IF v.at = None THEN Cleared(v)
  ELSE [v EXCEPT !.kind = "division.view", !.sel = v.at]

\* Mutant: the panel moves to the saved division, the selection does not.
SaveSuccessKeepsSelection(v, d) ==
  IF v.kind \in Forms THEN [v EXCEPT !.kind = "division.view", !.at = d] ELSE v

SaveSuccess(v, d) ==
  IF v.kind \in Forms THEN [v EXCEPT !.kind = "division.view", !.at = d, !.sel = d] ELSE v

ClearSelection(v) == IF v.kind = "empty" THEN v ELSE Cleared(v)

SelectPosition(v, p) == [v EXCEPT !.pos = p, !.load = "idle"]

MembersTo(v, load) == [v EXCEPT !.load = load]

-----------------------------------------------------------------------------
(* The page.                                                                *)

\* A form goes away with its panel mode.
Show(v) ==
  /\ view' = v
  /\ busy' = IF v.kind = view.kind /\ v.at = view.at THEN busy ELSE 0

\* selectedNode: the selected node of the tree, if the tree has it.
Selected == IF view.sel \in tree.live \/ (view.sel = Root /\ tree.v > 0) THEN view.sel ELSE None

\* Clicks reach the page: it is drawn, and no dialog covers it.
Drawn     == "boot" \notin loading /\ ~(failed /\ tree.v = 0)
Clickable == Drawn /\ ~dialog

\* A division is shown with its buttons and its positions.
CardShown == Clickable /\ view.kind = "division.view" /\ Selected \in Division

\* A change to a division is followed by a load: one call is kept for it.
Reserved == IF \E c \in calls : c.op \in Mutation THEN 1 ELSE 0

Send(op, on) ==
  /\ sent + Reserved + (IF op \in Mutation THEN 1 ELSE 0) < MaxCalls
  /\ calls' = calls \cup {NewCall(op, on, "none")}
  /\ sent' = sent + 1

\* Mutant: an earlier load is left to finish.
KeepCalls(S, id) == S

Abort(S, id) == {IF c.id = id THEN [c EXCEPT !.answer = "aborted"] ELSE c : c \in S}

\* The start of loadFullTree, up to its await; rest: the calls still under way.
LoadTree(op, select, flow, rest) ==
  /\ sent + (IF flow = "none" THEN Reserved ELSE 0) < MaxCalls
  /\ calls' = Abort(rest, current) \cup {NewCall(op, select, flow)}
  /\ current' = sent + 1
  /\ sent' = sent + 1
  /\ loading' = loading \cup {op}
  /\ failed' = FALSE
  /\ UNCHANGED <<tree, pending>>

Retry ==
  /\ failed /\ tree.v = 0 /\ "boot" \notin loading
  /\ LoadTree("boot", None, "none", calls)
  /\ UNCHANGED <<server, view, busy, people, flags, toast, acked>>

RefreshButton ==
  /\ Clickable /\ "refresh" \notin loading /\ view.kind \notin Forms
  /\ LoadTree("refresh", view.sel, "none", calls)
  /\ UNCHANGED <<server, view, busy, people, flags, toast, acked>>

\* The effect that runs when the nodes have changed.
SelectPending ==
  /\ pending # None
  /\ pending \in tree.live \/ (pending = Root /\ tree.v > 0)
  /\ Show(SelectDivision(ClearSelection(view), pending))
  /\ pending' = None
  /\ UNCHANGED <<server, tree, loading, failed, current, people, flags, calls, sent, toast, acked>>

\* The drawing may still be that of an earlier tree.
TreeNodeSelect(d) ==
  /\ Clickable /\ "refresh" \notin loading
  /\ tree.v > 0 /\ d \in used
  /\ Show(SelectDivision(ClearSelection(view), d))
  /\ title' = None /\ members' = None
  /\ UNCHANGED <<server, loader, flags, picked, calls, sent, toast, acked>>

\* Both listeners: the page's, and that of a dialog that is open.
Escape ==
  /\ Show(ClearSelection(view))
  /\ title' = None /\ members' = None
  /\ dialog' = FALSE
  /\ UNCHANGED <<server, loader, submitting, forbidden, picked, calls, sent, toast, acked>>

EditButton ==
  /\ CardShown /\ ~forbidden
  /\ Show(StartDivisionEdit(view, Selected))
  /\ UNCHANGED <<server, loader, people, flags, calls, sent, toast, acked>>

\* "+ Подразделение".
CreateButton ==
  /\ Clickable /\ ~forbidden /\ view.kind \notin Forms
  /\ Show(StartDivisionCreate(Cancel(view), Selected))
  /\ members' = None
  /\ UNCHANGED <<server, loader, title, picked, flags, calls, sent, toast, acked>>

CancelForm ==
  /\ Clickable /\ view.kind \in Forms
  /\ Show(Cancel(view))
  /\ UNCHANGED <<server, loader, people, flags, calls, sent, toast, acked>>

-----------------------------------------------------------------------------
(* Positions and their members.                                             *)

\* The positions of the division shown, each with its two buttons.  The rows may
\* still be those of the division shown before (PositionPanel), so that any
\* position may be among them.
RowsShown == CardShown

PickPosition(p) ==
  /\ RowsShown
  /\ Send("members", p)
  /\ view' = MembersTo(SelectPosition(view, p), "loading")
  /\ title' = p /\ members' = None
  /\ picked' = sent + 1
  /\ UNCHANGED <<server, loader, busy, flags, toast, acked>>

StartPosition ==
  /\ CardShown
  /\ Show(StartPositionCreate(Cancel(view), Selected))
  /\ UNCHANGED <<server, loader, people, flags, calls, sent, toast, acked>>

StartMembership(p) ==
  /\ RowsShown
  /\ Show(StartMembershipCreate(Cancel(view), Selected, p))
  /\ UNCHANGED <<server, loader, people, flags, calls, sent, toast, acked>>

\* The form does not submit again before its call has ended.
SubmitPosition ==
  /\ Clickable /\ view.kind = "position.create" /\ busy = 0
  /\ Send("position", view.at)
  /\ busy' = sent + 1
  /\ UNCHANGED <<server, loader, view, people, flags, toast, acked>>

SubmitMembership ==
  /\ Clickable /\ view.kind = "membership.create" /\ busy = 0
  /\ Send("membership", view.at)
  /\ busy' = sent + 1
  /\ UNCHANGED <<server, loader, view, people, flags, toast, acked>>

-----------------------------------------------------------------------------
(* Saving and archiving a division.                                         *)

\* The parent is one of the nodes that are shown.
SubmitCreate(d) ==
  /\ Clickable /\ view.kind = "division.create" /\ ~submitting
  /\ d \notin used \cup {c.on : c \in calls} /\ Parent[d] \in tree.live
  /\ Send("create", d)
  /\ submitting' = TRUE
  /\ UNCHANGED <<server, loader, view, busy, people, forbidden, dialog, toast, acked>>

SubmitEdit ==
  /\ Clickable /\ view.kind = "division.edit" /\ ~submitting
  /\ Selected # None
  /\ Send("edit", Selected)
  /\ submitting' = TRUE
  /\ UNCHANGED <<server, loader, view, busy, people, forbidden, dialog, toast, acked>>

\* handleEdit returns at once, and the form announces success.
SubmitEditOfNothing ==
  /\ Clickable /\ view.kind = "division.edit" /\ ~submitting
  /\ Selected = None
  /\ toast' = "not made"
  /\ UNCHANGED <<server, loader, view, busy, people, flags, calls, sent, acked>>

ArchiveButton ==
  /\ CardShown /\ ~submitting /\ ~forbidden
  /\ dialog' = TRUE
  /\ UNCHANGED <<server, loader, view, busy, people, submitting, forbidden, calls, sent, toast, acked>>

CancelArchive ==
  /\ dialog
  /\ dialog' = FALSE
  /\ UNCHANGED <<server, loader, view, busy, people, submitting, forbidden, calls, sent, toast, acked>>

ConfirmArchive ==
  /\ dialog
  /\ dialog' = FALSE
  /\ IF Selected \in Division
     THEN Send("archive", Selected) /\ submitting' = TRUE
     ELSE UNCHANGED <<calls, sent, submitting>>
  /\ UNCHANGED <<server, loader, view, busy, people, forbidden, toast, acked>>

-----------------------------------------------------------------------------
(* The server.                                                              *)

Answer(c, answer, snap) ==
  calls' = (calls \ {c}) \cup {[c EXCEPT !.answer = answer, !.snap = snap]}

Refuse(c) ==
  /\ c.answer = "none"
  /\ \E answer \in {"forbidden", "failed"} : Answer(c, answer, NoTree)
  /\ UNCHANGED <<server, loader, view, busy, people, flags, sent, toast, acked>>

Subtree(d) == {e \in org.live : e = d \/ Parent[e] = d}

ServeTree(c) ==
  /\ c.answer = "none" /\ c.op \in {"boot", "refresh"}
  /\ org.live # {}
  /\ Answer(c, "ok", org)
  /\ UNCHANGED <<server, loader, view, busy, people, flags, sent, toast, acked>>

\* An answer that comes with a change to the divisions.
Change(c, live) ==
  /\ c.answer = "none" /\ org.v < MaxVersion
  /\ org' = [v |-> org.v + 1, live |-> live]
  /\ used' = used \cup {c.on}
  /\ Answer(c, "ok", org')
  /\ UNCHANGED <<loader, view, busy, people, flags, sent, toast, acked>>

ServeCreate(c) ==
  /\ c.op = "create" /\ Parent[c.on] \in org.live /\ c.on \notin used
  /\ Change(c, org.live \cup {c.on})

ServeEdit(c) ==
  /\ c.op = "edit" /\ c.on \in org.live
  /\ Change(c, org.live)

\* Archiving twice succeeds.
ServeArchive(c) ==
  /\ c.op = "archive"
  /\ Change(c, org.live \ Subtree(c.on))

ServeOther(c) ==
  /\ c.answer = "none" /\ c.op \in {"members", "position", "membership"}
  /\ Answer(c, "ok", NoTree)
  /\ UNCHANGED <<server, loader, view, busy, people, flags, sent, toast, acked>>

\* Someone else archives a division.
OtherArchive(d) ==
  /\ org.v < MaxVersion /\ d \in org.live
  /\ org' = [v |-> org.v + 1, live |-> org.live \ Subtree(d)]
  /\ UNCHANGED <<used, loader, view, busy, people, flags, calls, sent, toast, acked>>

-----------------------------------------------------------------------------
(* Answers.                                                                 *)

\* What a handler does when the load it waits for has ended, however it ended.
Continue(c) ==
  /\ Show(IF c.flow \in {"create", "edit"} THEN SaveSuccess(view, c.on) ELSE view)
  /\ submitting' = IF c.flow = "none" THEN submitting ELSE FALSE
  /\ toast' = IF c.flow = "none" THEN toast ELSE "made"

TreeLoaded(c) ==
  /\ c.op \in {"boot", "refresh"} /\ c.answer = "ok"
  /\ tree' = c.snap
  /\ pending' = IF c.on = None THEN pending ELSE c.on
  /\ current' = 0
  /\ loading' = loading \ {c.op}
  /\ calls' = calls \ {c}
  /\ Continue(c)
  /\ UNCHANGED <<server, failed, people, forbidden, dialog, sent, acked>>

\* Mutant: a load that fails leaves its flag set.
TreeFailedForever(c) ==
  /\ c.op \in {"boot", "refresh"} /\ c.answer \in {"failed", "forbidden"}
  /\ failed' = TRUE
  /\ calls' = calls \ {c}
  /\ Continue(c)
  /\ UNCHANGED <<server, tree, loading, pending, current, people, forbidden, dialog, sent, acked>>

TreeFailed(c) ==
  /\ c.op \in {"boot", "refresh"} /\ c.answer \in {"failed", "forbidden"}
  /\ failed' = TRUE
  /\ loading' = loading \ {c.op}
  /\ calls' = calls \ {c}
  /\ Continue(c)
  /\ UNCHANGED <<server, tree, pending, current, people, forbidden, dialog, sent, acked>>

\* The AbortError returns through the finally clause.
TreeAborted(c) ==
  /\ c.answer = "aborted"
  /\ loading' = loading \ {c.op}
  /\ calls' = calls \ {c}
  /\ Continue(c)
  /\ UNCHANGED <<server, tree, failed, pending, current, people, forbidden, dialog, sent, acked>>

\* The division to select after a change to d.
After(c) == IF c.op = "archive" THEN Parent[c.on] ELSE c.on

\* Mutant: the tree is not loaded again after a change.
MutationOkNoReload(c) ==
  /\ c.op \in Mutation /\ c.answer = "ok"
  /\ forbidden' = FALSE /\ submitting' = FALSE
  /\ acked' = c.snap.v
  /\ calls' = calls \ {c}
  /\ toast' = "made"
  /\ Show(IF c.op = "archive" THEN view ELSE SaveSuccess(view, c.on))
  /\ UNCHANGED <<server, loader, people, dialog, sent>>

MutationOk(c) ==
  /\ c.op \in Mutation /\ c.answer = "ok"
  /\ forbidden' = FALSE
  /\ acked' = c.snap.v
  /\ LoadTree("refresh", After(c), c.op, calls \ {c})
  /\ UNCHANGED <<server, view, busy, people, submitting, dialog, toast>>

\* handleCreate and handleEdit return, and the form announces success.
SaveForbidden(c) ==
  /\ c.op \in {"create", "edit"} /\ c.answer = "forbidden"
  /\ forbidden' = TRUE /\ submitting' = FALSE
  /\ Show(Cancel(view))
  /\ toast' = "not made"
  /\ calls' = calls \ {c}
  /\ UNCHANGED <<server, loader, people, dialog, sent, acked>>

SaveFailed(c) ==
  /\ c.op \in {"create", "edit"} /\ c.answer = "failed"
  /\ submitting' = FALSE
  /\ calls' = calls \ {c}
  /\ UNCHANGED <<server, loader, view, busy, people, forbidden, dialog, sent, toast, acked>>

ArchiveRefused(c) ==
  /\ c.op = "archive" /\ c.answer \in {"forbidden", "failed"}
  /\ submitting' = FALSE
  /\ forbidden' = (forbidden \/ c.answer = "forbidden")
  /\ failed' = (failed \/ c.answer = "failed")
  /\ calls' = calls \ {c}
  /\ UNCHANGED <<server, tree, loading, pending, current, view, busy, people, dialog, sent, toast, acked>>

\* Mutant: every answer is taken.
AnyAnswer(c) == TRUE

LatestPick(c) == c.id = picked

MembersAnswered(c) ==
  /\ c.op = "members" /\ c.answer # "none"
  /\ calls' = calls \ {c}
  /\ IF ~LatestPick(c) THEN UNCHANGED <<view, members>>
     ELSE IF c.answer = "ok"
     THEN /\ view' = MembersTo(view, "loaded")
          /\ members' = c.on
     ELSE view' = MembersTo(view, "error") /\ UNCHANGED members
  /\ UNCHANGED <<server, loader, busy, title, picked, flags, sent, toast, acked>>

FormSaved(c) ==
  /\ c.op \in {"position", "membership"} /\ c.answer = "ok"
  /\ Show(SaveSuccess(view, c.on))
  /\ calls' = calls \ {c}
  /\ UNCHANGED <<server, loader, people, flags, sent, toast, acked>>

\* The error is shown in the form, if it is still there.
FormRefused(c) ==
  /\ c.op \in {"position", "membership"} /\ c.answer \in {"forbidden", "failed"}
  /\ busy' = IF busy = c.id THEN 0 ELSE busy
  /\ calls' = calls \ {c}
  /\ UNCHANGED <<server, loader, view, people, flags, sent, toast, acked>>

-----------------------------------------------------------------------------

User ==
  \/ Retry \/ RefreshButton \/ Escape \/ EditButton \/ CreateButton \/ CancelForm
  \/ \E d \in Division : TreeNodeSelect(d) \/ SubmitCreate(d)
  \/ \E p \in Position : PickPosition(p) \/ StartMembership(p)
  \/ StartPosition \/ SubmitPosition \/ SubmitMembership
  \/ SubmitEdit \/ SubmitEditOfNothing
  \/ ArchiveButton \/ CancelArchive \/ ConfirmArchive

Serve(c) ==
  \/ ServeTree(c) \/ ServeCreate(c) \/ ServeEdit(c) \/ ServeArchive(c)
  \/ ServeOther(c) \/ Refuse(c)

Receive(c) ==
  \/ TreeLoaded(c) \/ TreeFailed(c) \/ TreeAborted(c)
  \/ MutationOk(c) \/ SaveForbidden(c) \/ SaveFailed(c) \/ ArchiveRefused(c)
  \/ MembersAnswered(c) \/ FormSaved(c) \/ FormRefused(c)

Next ==
  \/ User
  \/ SelectPending
  \/ \E c \in calls : Serve(c) \/ Receive(c)
  \/ \E d \in Division : OtherArchive(d)

Spec == Init /\ [][Next]_vars

-----------------------------------------------------------------------------
(* Properties.                                                              *)

\* Whatever the order of clicks, Escape, late saves and the selection that a
\* load brings, the card or form on the screen is of the selected division,
\* and nothing is selected behind an empty panel (handleEdit saves the
\* selected division, not the one of the form).
PanelFollowsSelection ==
  /\ view.kind \in Forms \cup {"division.view"} => view.at = view.sel \/ view.at = None
  /\ view.kind # "empty" /\ view.at = None => view.kind = "division.create"
  /\ view.kind = "empty" => view.sel = None /\ view.pos = None

\* The members on the screen are of the position named above them, though
\* the answer for an earlier one may come later (the number of the request).
MembersOfNamedPosition == members # None /\ title # None => members = title

\* A load that a later one has overtaken never puts an older tree back.
TreeNeverGoesBack == [][tree'.v >= tree.v]_vars

\* When nothing is loading, the tree shows every change this page was told
\* has been made, or the page says that the load has failed.
TreeShowsOwnChanges ==
  (\A c \in calls : c.op \notin {"boot", "refresh"}) /\ ~failed => tree.v >= acked

\* Every order of loads, aborts, failures and closed forms leaves a flag set,
\* a button disabled or a skeleton on the screen only while a call that will
\* clear it is under way.
WaitsForCalls ==
  /\ \A op \in loading : \E c \in calls : c.op = op
  /\ submitting => \E c \in calls : c.op \in Mutation \/ c.flow # "none"
  /\ busy # 0 => \E c \in calls : c.id = busy
  /\ view.load = "loading" => \E c \in calls : c.id = picked

\* docs/current-state.md: "Division create/edit success: toast".
ToastMeansSaved == toast # "not made"

=============================================================================
