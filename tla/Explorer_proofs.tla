---------------------------- MODULE Explorer_proofs ----------------------------
(***************************************************************************)
(* Theorems about Explorer, for any divisions, positions and bounds: the   *)
(* panel and the selection, and the tree that loads may put on the screen. *)
(***************************************************************************)
EXTENDS Explorer, TLAPS

Loads(c) == c.op \in {"boot", "refresh"}

\* What a call is about, by its kind.
CallIsAbout(c) ==
  /\ c.op \in Mutation \cup {"position", "membership"} => c.on \in Node
  /\ c.op \in {"create", "archive"} => c.on \in Division
  /\ Loads(c) => c.on \in Maybe
  /\ c.flow # "none" => c.on \in Node
  /\ c.op = "members" => c.on \in Position

\* Numbers of calls are given once.
CallsNumbered ==
  /\ \A c \in calls : c.id <= sent
  /\ \A c, e \in calls : c.id = e.id => c = e

\* Of the loads under way all but the latest have been aborted.
OneLoad == \A c \in calls : Loads(c) /\ c.answer # "aborted" => c.id = current

\* The tree is of the past, and an answer that is to replace it is no older.
TreeIsBehind ==
  /\ tree.v <= org.v
  /\ \A c \in calls : c.snap.v <= org.v
  /\ \A c \in calls : Loads(c) /\ c.answer = "ok" => tree.v <= c.snap.v

PanelOf(v) ==
  /\ v \in View
  /\ v.kind \in Forms \cup {"division.view"} => v.at = v.sel \/ v.at = None
  /\ v.kind # "empty" /\ v.at = None => v.kind = "division.create"
  /\ v.kind = "empty" => v.sel = None /\ v.pos = None

CallsInv ==
  /\ calls \subseteq Call /\ sent \in 0..MaxCalls /\ current \in 0..MaxCalls
  /\ \A c \in calls : CallIsAbout(c)
  /\ CallsNumbered /\ OneLoad

ExplorerInv == TypeOK /\ PanelOf(view) /\ CallsInv /\ TreeIsBehind

-----------------------------------------------------------------------------
(* The reducer.                                                             *)

\* Every function of the reducer keeps the panel and the selection together.
LEMMA ReducerSelect ==
  ASSUME NEW v, PanelOf(v), NEW d \in Node
  PROVE  PanelOf(SelectDivision(v, d)) /\ PanelOf(SaveSuccess(v, d))
<1>1. d # None /\ v \in View
  BY NamesDiffer DEF Node, PanelOf
<1>2. PanelOf(SelectDivision(v, d))
  BY <1>1 DEF SelectDivision, PanelOf, View, Forms, Maybe
<1>3. PanelOf(SaveSuccess(v, d))
  BY <1>1 DEF SaveSuccess, PanelOf, View, Forms, Maybe
<1> QED
  BY <1>2, <1>3

\* Leaving a form, and clearing the selection.
LEMMA ReducerLeave ==
  ASSUME NEW v, PanelOf(v)
  PROVE  PanelOf(Cancel(v)) /\ PanelOf(ClearSelection(v))
<1>1. v \in View
  BY DEF PanelOf
<1>2. PanelOf(Cleared(v))
  BY DEF Cleared, PanelOf, View, Forms, Maybe
<1>3. PanelOf(Cancel(v))
  <2>1. CASE v.kind \in Forms /\ v.at # None
    <3>1. Cancel(v) = [v EXCEPT !.kind = "division.view", !.sel = v.at]
      BY <2>1 DEF Cancel
    <3> QED
      BY <1>1, <2>1, <3>1 DEF PanelOf, View, Forms
  <2> QED
    BY <1>2, <2>1 DEF Cancel
<1>4. PanelOf(ClearSelection(v))
  BY <1>2 DEF ClearSelection
<1> QED
  BY <1>3, <1>4

\* Opening a form.
LEMMA ReducerOpen ==
  ASSUME NEW v, PanelOf(v), NEW d \in Maybe, d = v.sel \/ d = None
  PROVE  /\ PanelOf(StartDivisionEdit(v, d)) /\ PanelOf(StartPositionCreate(v, d))
         /\ PanelOf(StartDivisionCreate(v, d))
         /\ \A p \in Position : PanelOf(StartMembershipCreate(v, d, p))
<1>1. v \in View
  BY DEF PanelOf
<1>2. PanelOf(StartDivisionEdit(v, d)) /\ PanelOf(StartPositionCreate(v, d))
  BY <1>1 DEF StartDivisionEdit, StartPositionCreate, Viewing, PanelOf, View, Forms, Maybe
<1>3. PanelOf(StartDivisionCreate(v, d))
  BY <1>1 DEF StartDivisionCreate, PanelOf, View, Forms, Maybe
<1>4. \A p \in Position : PanelOf(StartMembershipCreate(v, d, p))
  BY <1>1 DEF StartMembershipCreate, Viewing, PanelOf, View, Forms, Maybe
<1> QED
  BY <1>2, <1>3, <1>4

\* The position that is picked, and its members.
LEMMA ReducerPosition ==
  ASSUME NEW v, PanelOf(v),
         NEW load \in {"idle", "loading", "loaded", "error"}
  PROVE  /\ PanelOf(MembersTo(v, load))
         /\ v.kind # "empty" => \A p \in Position : PanelOf(SelectPosition(v, p))
<1>1. v \in View
  BY DEF PanelOf
<1>2. PanelOf(MembersTo(v, load))
  BY <1>1 DEF MembersTo, PanelOf, View, Forms, Maybe
<1>3. v.kind # "empty" => \A p \in Position : PanelOf(SelectPosition(v, p))
  BY <1>1 DEF SelectPosition, PanelOf, View, Forms, Maybe
<1> QED
  BY <1>2, <1>3

\* selectedNode is the selected node, if it is anything.
LEMMA SelectedIsSelected ==
  ASSUME PanelOf(view)
  PROVE  Selected \in Maybe /\ (Selected = view.sel \/ Selected = None)
BY DEF PanelOf, View, Selected, Maybe

-----------------------------------------------------------------------------
(* The panel under every step.                                              *)

\* A form that is open is about a node, unless it makes a division.
LEMMA FormIsOfNode ==
  ASSUME PanelOf(view), view.kind \in {"position.create", "membership.create"}
  PROVE  view.at \in Node
BY DEF PanelOf, View, Maybe

\* A load that ends shows what the handler that waits for it has saved.
LEMMA ContinuePanel ==
  ASSUME PanelOf(view), NEW c, CallIsAbout(c), Continue(c)
  PROVE  PanelOf(view')
BY ReducerSelect DEF Continue, Show, CallIsAbout

\* The panel follows the selection in every step of the user ...
LEMMA UserPanel ==
  ASSUME ExplorerInv, User
  PROVE  PanelOf(view')
<1>1. PanelOf(view)
  BY DEF ExplorerInv
<1>2. ASSUME view' = view PROVE PanelOf(view')
  BY <1>1, <1>2
<1>3. CASE Escape
  BY <1>1, <1>3, ReducerLeave DEF Escape, Show
<1>4. CASE EditButton
  BY <1>1, <1>4, ReducerOpen, SelectedIsSelected DEF EditButton, Show
<1>5. CASE CreateButton
  <2>1. Cancel(view) = view
    BY <1>5 DEF CreateButton, Cancel
  <2> QED
    BY <1>1, <1>5, <2>1, ReducerOpen, SelectedIsSelected DEF CreateButton, Show
<1>6. CASE CancelForm
  BY <1>1, <1>6, ReducerLeave DEF CancelForm, Show
<1>7. ASSUME NEW d \in Division, TreeNodeSelect(d) PROVE PanelOf(view')
  BY <1>1, <1>7, ReducerLeave, ReducerSelect DEF TreeNodeSelect, Show, Node
<1>8. ASSUME NEW p \in Position, PickPosition(p) PROVE PanelOf(view')
  <2>1. PanelOf(SelectPosition(view, p))
    BY <1>1, <1>8, ReducerPosition DEF PickPosition, RowsShown, CardShown
  <2> QED
    BY <1>8, <2>1, ReducerPosition DEF PickPosition
<1>9. ASSUME NEW p \in Position, StartMembership(p) PROVE PanelOf(view')
  <2>1. Cancel(view) = view
    BY <1>9 DEF StartMembership, RowsShown, CardShown, Cancel, Forms
  <2> QED
    BY <1>1, <1>9, <2>1, ReducerOpen, SelectedIsSelected DEF StartMembership, Show
<1>10. CASE StartPosition
  <2>1. Cancel(view) = view
    BY <1>10 DEF StartPosition, CardShown, Cancel, Forms
  <2> QED
    BY <1>1, <1>10, <2>1, ReducerOpen, SelectedIsSelected DEF StartPosition, Show
<1> QED
  BY <1>2, <1>3, <1>4, <1>5, <1>6, <1>7, <1>8, <1>9, <1>10
  DEF User, Retry, RefreshButton, SubmitCreate, SubmitPosition, SubmitMembership,
      SubmitEdit, SubmitEditOfNothing, ArchiveButton, CancelArchive, ConfirmArchive

\* ... in every answer ...
LEMMA ReceivePanel ==
  ASSUME ExplorerInv, NEW c \in calls, Receive(c)
  PROVE  PanelOf(view')
<1>1. PanelOf(view) /\ CallIsAbout(c)
  BY DEF ExplorerInv, CallsInv
<1>2. CASE TreeLoaded(c) \/ TreeFailed(c) \/ TreeAborted(c)
  BY <1>1, <1>2, ContinuePanel DEF TreeLoaded, TreeFailed, TreeAborted
<1>3. CASE SaveForbidden(c)
  BY <1>1, <1>3, ReducerLeave DEF SaveForbidden, Show
<1>4. CASE MembersAnswered(c)
  BY <1>1, <1>4, ReducerPosition DEF MembersAnswered
<1>5. CASE FormSaved(c)
  BY <1>1, <1>5, ReducerSelect DEF FormSaved, Show, CallIsAbout
<1>6. CASE MutationOk(c) \/ SaveFailed(c) \/ ArchiveRefused(c) \/ FormRefused(c)
  BY <1>1, <1>6 DEF MutationOk, SaveFailed, ArchiveRefused, FormRefused
<1> QED
  BY <1>2, <1>3, <1>4, <1>5, <1>6 DEF Receive

\* ... and in the others.
LEMMA PanelStep ==
  ASSUME ExplorerInv, Next
  PROVE  PanelOf(view')
<1>1. PanelOf(view) /\ pending \in Maybe
  BY DEF ExplorerInv, TypeOK
<1>2. CASE SelectPending
  <2>1. pending \in Node
    BY <1>1, <1>2 DEF SelectPending, Maybe
  <2> QED
    BY <1>1, <1>2, <2>1, ReducerLeave, ReducerSelect DEF SelectPending, Show
<1>3. ASSUME NEW c \in calls, Serve(c) PROVE view' = view
  BY <1>3 DEF Serve, ServeTree, ServeCreate, ServeEdit, ServeArchive, Change,
     ServeOther, Refuse
<1>4. ASSUME NEW d \in Division, OtherArchive(d) PROVE view' = view
  BY <1>4 DEF OtherArchive
<1> QED
  BY <1>1, <1>2, <1>3, <1>4, UserPanel, ReceivePanel DEF Next

-----------------------------------------------------------------------------
(* The calls under way and the tree.                                        *)

LoadInv == CallsInv /\ TreeIsBehind

\* What a call is made of.
LEMMA CallParts ==
  ASSUME CallsInv, NEW c \in calls
  PROVE  /\ c \in Call /\ c.id \in 1..MaxCalls /\ c.snap \in Tree /\ c.snap.v \in Nat
         /\ c.id <= sent /\ sent \in Nat /\ CallIsAbout(c)
         /\ Loads(c) /\ c.answer # "aborted" => c.id = current
<1>1. c \in Call
  BY DEF CallsInv
<1>2. c.id \in 1..MaxCalls /\ c.snap \in Tree
  BY <1>1 DEF Call
<1>3. c.snap.v \in Nat
  BY <1>2, BoundTypes DEF Tree
<1> QED
  BY <1>1, <1>2, <1>3, BoundTypes DEF CallsInv, CallsNumbered, OneLoad

\* Versions are numbers.
LEMMA Versions ==
  ASSUME TypeOK
  PROVE  org.v \in Nat /\ tree.v \in Nat /\ acked \in Nat /\ org.v \in 1..MaxVersion
<1>1. org.v \in 1..MaxVersion /\ tree.v \in 0..MaxVersion /\ acked \in 0..MaxVersion
  BY DEF TypeOK, Tree
<1> QED
  BY <1>1, BoundTypes

\* A call that has been dealt with.
LEMMA DropStep ==
  ASSUME LoadInv, NEW c \in calls, calls' = calls \ {c}, UNCHANGED <<sent, current>>,
         tree' = tree, org' = org
  PROVE  LoadInv'
<1>1. CallsInv'
  BY DEF LoadInv, CallsInv, CallsNumbered, OneLoad, CallIsAbout, Loads
<1>2. TreeIsBehind'
  BY DEF LoadInv, TreeIsBehind, Loads
<1> QED
  BY <1>1, <1>2 DEF LoadInv

\* A load that has brought its tree.
LEMMA LoadedStep ==
  ASSUME TypeOK, LoadInv, NEW c \in calls, Loads(c), c.answer = "ok",
         calls' = calls \ {c}, sent' = sent, current' = 0, tree' = c.snap, org' = org
  PROVE  LoadInv'
<1>1. \A e \in calls' : ~(Loads(e) /\ e.answer # "aborted")
  <2> SUFFICES ASSUME NEW e \in calls \ {c}, Loads(e), e.answer # "aborted" PROVE FALSE
    OBVIOUS
  <2>1. e.id = c.id
    BY DEF LoadInv, CallsInv, OneLoad
  <2> QED
    BY <2>1 DEF LoadInv, CallsInv, CallsNumbered
<1>2. CallsInv'
  BY <1>1, BoundTypes DEF LoadInv, CallsInv, CallsNumbered, OneLoad, CallIsAbout, Loads
<1>3. TreeIsBehind'
  BY <1>1 DEF LoadInv, TreeIsBehind, Loads
<1> QED
  BY <1>2, <1>3 DEF LoadInv

\* A new call.
LEMMA NewCallParts ==
  ASSUME CallsInv, NEW op \in {"boot", "refresh", "members", "position", "membership"} \cup Mutation,
         NEW on \in Maybe \cup Position, NEW flow \in Mutation \cup {"none"},
         sent < MaxCalls, NEW n, n = NewCall(op, on, flow)
  PROVE  /\ n \in Call /\ n.id = sent + 1 /\ n.op = op /\ n.on = on /\ n.flow = flow
         /\ n.answer = "none" /\ n.snap.v = 0 /\ sent + 1 \in 0..MaxCalls /\ sent \in Nat
<1>1. sent \in Nat /\ sent + 1 \in 1..MaxCalls
  BY BoundTypes DEF CallsInv
<1>2. NoTree \in Tree
  BY BoundTypes DEF NoTree, Tree
<1> QED
  BY <1>1, <1>2 DEF NewCall, NoTree, Call

\* A call that is no load is sent.
LEMMA SendStep ==
  ASSUME TypeOK, LoadInv,
         NEW op \in {"members", "position", "membership"} \cup Mutation,
         NEW on \in Maybe \cup Position, Send(op, on),
         op # "members" => on \in Node, op = "members" => on \in Position,
         op \in {"create", "archive"} => on \in Division,
         UNCHANGED <<current, tree, org>>
  PROVE  LoadInv' /\ sent' \in 0..MaxCalls
<1> DEFINE n == NewCall(op, on, "none")
<1>1. sent < MaxCalls /\ calls' = calls \cup {n} /\ sent' = sent + 1
  <2>1. sent \in Nat /\ MaxCalls \in Nat
    BY BoundTypes DEF LoadInv, CallsInv
  <2> QED
    BY <2>1 DEF Send, Reserved
<1>2. /\ n \in Call /\ n.id = sent + 1 /\ n.op = op /\ n.on = on /\ n.flow = "none"
      /\ n.answer = "none" /\ n.snap.v = 0 /\ sent + 1 \in 0..MaxCalls /\ sent \in Nat
  BY <1>1, NewCallParts DEF LoadInv
<1> HIDE DEF n
<1>3. ~Loads(n) /\ CallIsAbout(n)
  BY <1>2 DEF Loads, CallIsAbout, Mutation
<1>4. \A c \in calls : c.id \in Nat /\ c.id <= sent
  BY CallParts, BoundTypes DEF LoadInv
<1>5. CallsNumbered'
  BY <1>1, <1>2, <1>4 DEF LoadInv, CallsInv, CallsNumbered
<1>6. CallsInv'
  BY <1>1, <1>2, <1>3, <1>5 DEF LoadInv, CallsInv, OneLoad, CallIsAbout, Loads
<1>7. TreeIsBehind'
  BY <1>1, <1>2, <1>3, Versions DEF LoadInv, TreeIsBehind, Loads
<1> QED
  BY <1>1, <1>2, <1>6, <1>7 DEF LoadInv

\* A load begins: the one under way is aborted.
LEMMA LoadStep ==
  ASSUME TypeOK, LoadInv, NEW op \in {"boot", "refresh"}, NEW on \in Maybe,
         NEW flow \in Mutation \cup {"none"}, flow # "none" => on \in Node,
         NEW rest \in SUBSET calls, LoadTree(op, on, flow, rest), org' = org
  PROVE  LoadInv' /\ sent' \in 0..MaxCalls
<1> DEFINE n == NewCall(op, on, flow)
<1>1. /\ sent < MaxCalls /\ calls' = Abort(rest, current) \cup {n}
      /\ sent' = sent + 1 /\ current' = sent + 1 /\ tree' = tree
  <2>1. sent \in Nat /\ MaxCalls \in Nat
    BY BoundTypes DEF LoadInv, CallsInv
  <2> QED
    BY <2>1 DEF LoadTree, Reserved
<1>2. /\ n \in Call /\ n.id = sent + 1 /\ n.op = op /\ n.on = on /\ n.flow = flow
      /\ n.answer = "none" /\ n.snap.v = 0 /\ sent + 1 \in 0..MaxCalls /\ sent \in Nat
  BY <1>1, NewCallParts DEF LoadInv
<1> HIDE DEF n
<1>3. Loads(n) /\ CallIsAbout(n)
  BY <1>2 DEF Loads, CallIsAbout, Mutation
<1>4. \A e \in Abort(rest, current) : \E c \in calls :
        /\ e.id = c.id /\ e.op = c.op /\ e.on = c.on /\ e.flow = c.flow /\ e.snap = c.snap
        /\ e.answer \in {c.answer, "aborted"} /\ (c.id = current => e.answer = "aborted")
        /\ e = IF c.id = current THEN [c EXCEPT !.answer = "aborted"] ELSE c
  <2> SUFFICES ASSUME NEW c \in rest,
                      NEW e, e = IF c.id = current THEN [c EXCEPT !.answer = "aborted"] ELSE c
               PROVE  /\ e.id = c.id /\ e.op = c.op /\ e.on = c.on /\ e.flow = c.flow
                      /\ e.snap = c.snap
                      /\ e.answer \in {c.answer, "aborted"}
                      /\ (c.id = current => e.answer = "aborted")
    BY DEF Abort
  <2>1. c \in Call
    BY DEF LoadInv, CallsInv
  <2> QED
    BY <2>1 DEF Call
<1>5. \A e \in Abort(rest, current) :
        e \in Call /\ e.id <= sent /\ e.id \in Nat /\ CallIsAbout(e)
        /\ (Loads(e) => e.answer = "aborted")
  <2> SUFFICES ASSUME NEW e \in Abort(rest, current)
               PROVE  /\ e \in Call /\ e.id <= sent /\ e.id \in Nat /\ CallIsAbout(e)
                      /\ Loads(e) => e.answer = "aborted"
    OBVIOUS
  <2>1. PICK c \in calls :
          /\ e.id = c.id /\ e.op = c.op /\ e.on = c.on /\ e.flow = c.flow /\ e.snap = c.snap
          /\ e.answer \in {c.answer, "aborted"} /\ (c.id = current => e.answer = "aborted")
          /\ e = IF c.id = current THEN [c EXCEPT !.answer = "aborted"] ELSE c
    BY <1>4
  <2>2. /\ c \in Call /\ c.id \in 1..MaxCalls /\ c.id <= sent /\ CallIsAbout(c)
        /\ Loads(c) /\ c.answer # "aborted" => c.id = current
    BY CallParts DEF LoadInv
  <2>3. e \in Call
    BY <2>1, <2>2 DEF Call
  <2>4. CallIsAbout(e)
    BY <2>1, <2>2 DEF CallIsAbout, Loads
  <2>5. Loads(e) => e.answer = "aborted"
    BY <2>1, <2>2 DEF Loads
  <2> QED
    BY <2>1, <2>2, <2>3, <2>4, <2>5, BoundTypes
<1>6. \A e, f \in Abort(rest, current) : e.id = f.id => e = f
  <2>1. \A c, d \in calls : c.id = d.id => c = d
    BY DEF LoadInv, CallsInv, CallsNumbered
  <2> QED
    BY <1>4, <2>1
<1>7. CallsNumbered'
  BY <1>1, <1>2, <1>5, <1>6 DEF CallsNumbered
<1>8. CallsInv'
  BY <1>1, <1>2, <1>3, <1>5, <1>7 DEF CallsInv, OneLoad, CallIsAbout, Loads
<1>9. TreeIsBehind'
  <2>1. org.v \in Nat
    BY Versions
  <2> QED
    BY <1>1, <1>2, <1>4, <1>5, <2>1 DEF LoadInv, TreeIsBehind, Loads
<1> QED
  BY <1>1, <1>2, <1>8, <1>9 DEF LoadInv

\* The server answers: a load with the divisions there are.
LEMMA AnswerStep ==
  ASSUME TypeOK, LoadInv, NEW c \in calls, c.answer = "none",
         NEW answer \in {"ok", "forbidden", "failed"}, NEW snap \in Tree,
         Loads(c) /\ answer = "ok" => snap.v = org.v,
         Answer(c, answer, snap), UNCHANGED <<sent, current, tree>>,
         org.v <= org'.v, org'.v \in Nat, snap.v <= org'.v
  PROVE  LoadInv'
<1> DEFINE n == [c EXCEPT !.answer = answer, !.snap = snap]
<1>1. c \in Call /\ CallIsAbout(c) /\ (Loads(c) => c.id = current) /\ c.id <= sent
  BY CallParts DEF LoadInv
<1>2. /\ n \in Call /\ n.id = c.id /\ n.op = c.op /\ n.on = c.on /\ n.flow = c.flow
      /\ n.answer = answer /\ n.snap = snap
  BY <1>1 DEF Call
<1>3. calls' = (calls \ {c}) \cup {n}
  BY DEF Answer
<1> HIDE DEF n
<1>4. CallIsAbout(n) /\ (Loads(n) <=> Loads(c))
  BY <1>1, <1>2 DEF CallIsAbout, Loads
<1>5. CallsNumbered'
  BY <1>1, <1>2, <1>3 DEF LoadInv, CallsInv, CallsNumbered
<1>6. CallsInv'
  BY <1>1, <1>2, <1>3, <1>4, <1>5 DEF LoadInv, CallsInv, OneLoad, CallIsAbout, Loads
<1>7. tree.v <= org.v /\ tree.v \in Nat /\ org.v \in Nat
  BY Versions DEF LoadInv, TreeIsBehind
<1>8. TreeIsBehind'
  <2>1. tree'.v <= org'.v
    BY <1>7
  <2>2. Loads(n) /\ answer = "ok" => tree.v <= n.snap.v
    BY <1>2, <1>4, <1>7
  <2>3. \A e \in calls : e.snap.v \in Nat /\ e.snap.v <= org.v
    BY CallParts DEF LoadInv, TreeIsBehind
  <2>4. \A e \in calls' : e.snap.v <= org'.v
    BY <1>2, <1>3, <1>7, <2>3
  <2>5. \A e \in calls' : Loads(e) /\ e.answer = "ok" => tree'.v <= e.snap.v
    BY <1>2, <1>3, <2>2 DEF LoadInv, TreeIsBehind
  <2> QED
    BY <2>1, <2>4, <2>5 DEF TreeIsBehind, Loads
<1> QED
  BY <1>6, <1>8 DEF LoadInv

\* Nothing is done to the calls, the divisions or the tree.
LEMMA IdleStep ==
  ASSUME LoadInv, UNCHANGED <<calls, sent, current, tree, org>>
  PROVE  LoadInv'
BY DEF LoadInv, CallsInv, CallsNumbered, OneLoad, TreeIsBehind, CallIsAbout, Loads

\* Calls that the user makes.
LEMMA UserCalls ==
  ASSUME ExplorerInv, User
  PROVE  LoadInv'
<1>1. TypeOK /\ LoadInv /\ PanelOf(view) /\ view \in View /\ view.sel \in Maybe
  BY DEF ExplorerInv, LoadInv, PanelOf, View
<1>2. ASSUME UNCHANGED <<calls, sent, current, tree, org>> PROVE LoadInv'
  BY <1>1, <1>2, IdleStep
<1>3. CASE Retry
  <2>1. LoadTree("boot", None, "none", calls) /\ org' = org /\ None \in Maybe
    BY <1>3 DEF Retry, server, Maybe
  <2> QED
    BY <1>1, <2>1, LoadStep
<1>4. CASE RefreshButton
  <2>1. LoadTree("refresh", view.sel, "none", calls) /\ org' = org
    BY <1>4 DEF RefreshButton, server
  <2> QED
    BY <1>1, <2>1, LoadStep
<1>5. ASSUME NEW p \in Position, PickPosition(p) PROVE LoadInv'
  <2>1. Send("members", p) /\ UNCHANGED <<current, tree, org>>
    BY <1>5 DEF PickPosition, server, loader
  <2> QED
    BY <1>1, <2>1, SendStep
<1>6. CASE SubmitPosition
  <2>1. Send("position", view.at) /\ UNCHANGED <<current, tree, org>>
    BY <1>6 DEF SubmitPosition, server, loader
  <2>2. view.at \in Node
    BY <1>1, <1>6, FormIsOfNode DEF SubmitPosition
  <2> QED
    BY <1>1, <2>1, <2>2, SendStep DEF Maybe
<1>7. CASE SubmitMembership
  <2>1. Send("membership", view.at) /\ UNCHANGED <<current, tree, org>>
    BY <1>7 DEF SubmitMembership, server, loader
  <2>2. view.at \in Node
    BY <1>1, <1>7, FormIsOfNode DEF SubmitMembership
  <2> QED
    BY <1>1, <2>1, <2>2, SendStep DEF Maybe
<1>8. ASSUME NEW d \in Division, SubmitCreate(d) PROVE LoadInv'
  <2>1. Send("create", d) /\ UNCHANGED <<current, tree, org>>
    BY <1>8 DEF SubmitCreate, server, loader
  <2> QED
    BY <1>1, <2>1, SendStep DEF Maybe, Node, Mutation
<1>9. CASE SubmitEdit
  <2>1. Send("edit", Selected) /\ UNCHANGED <<current, tree, org>>
    BY <1>9 DEF SubmitEdit, server, loader
  <2>2. Selected \in Node
    BY <1>1, <1>9, SelectedIsSelected DEF SubmitEdit, Maybe
  <2> QED
    BY <1>1, <2>1, <2>2, SendStep DEF Maybe, Mutation
<1>10. CASE ConfirmArchive
  <2>1. UNCHANGED <<current, tree, org>>
    BY <1>10 DEF ConfirmArchive, server, loader
  <2>2. CASE Selected \in Division
    <3>1. Send("archive", Selected)
      BY <1>10, <2>2 DEF ConfirmArchive
    <3> QED
      BY <1>1, <2>1, <2>2, <3>1, SendStep DEF Maybe, Node, Mutation
  <2>3. CASE Selected \notin Division
    BY <1>2, <1>10, <2>1, <2>3 DEF ConfirmArchive
  <2> QED
    BY <2>2, <2>3
<1> QED
  BY <1>2, <1>3, <1>4, <1>5, <1>6, <1>7, <1>8, <1>9, <1>10
  DEF User, Escape, EditButton, CreateButton, CancelForm, TreeNodeSelect,
      StartMembership, StartPosition, SubmitEditOfNothing, ArchiveButton,
      CancelArchive, server, loader

\* The divisions of the server keep their type, and their version grows.
Grows ==
  /\ org' \in [v : 1..MaxVersion, live : SUBSET Division]
  /\ used' \subseteq Division /\ org'.live \subseteq used'
  /\ org.v <= org'.v /\ org'.v \in Nat

\* One version more, of divisions there are or that are being made.
LEMMA NextVersion ==
  ASSUME TypeOK, org.v < MaxVersion, NEW live \in SUBSET Division,
         live \subseteq used', used' \subseteq Division,
         org' = [v |-> org.v + 1, live |-> live]
  PROVE  Grows /\ org' \in Tree
<1>1. org.v \in Nat /\ org.v + 1 \in 1..MaxVersion /\ org.v + 1 \in 0..MaxVersion
  BY Versions, BoundTypes
<1> QED
  BY <1>1 DEF Grows, Tree

\* The server answers.
LEMMA ServeStep ==
  ASSUME ExplorerInv, NEW c \in calls, Serve(c)
  PROVE  LoadInv' /\ Grows
<1>1. /\ TypeOK /\ LoadInv /\ CallIsAbout(c) /\ org.v \in Nat
      /\ org \in [v : 1..MaxVersion, live : SUBSET Division] /\ org.live \in SUBSET Division
      /\ used \subseteq Division /\ org.live \subseteq used /\ NoTree \in Tree
      /\ NoTree.v = 0
  <2>1. TypeOK /\ LoadInv
    BY DEF ExplorerInv, LoadInv
  <2>2. CallIsAbout(c) /\ org.v \in Nat
    BY <2>1, CallParts, Versions DEF LoadInv
  <2>3. NoTree \in Tree /\ NoTree.v = 0
    BY BoundTypes DEF NoTree, Tree
  <2> QED
    BY <2>1, <2>2, <2>3 DEF TypeOK
<1>2. org \in Tree
  <2>1. org.v \in 0..MaxVersion /\ org = [v |-> org.v, live |-> org.live]
    BY <1>1, BoundTypes
  <2> QED
    BY <1>1, <2>1 DEF Tree
<1>3. ASSUME UNCHANGED <<org, used>> PROVE Grows
  BY <1>1, <1>3 DEF Grows
<1>4. CASE ServeTree(c)
  BY <1>1, <1>2, <1>3, <1>4, AnswerStep DEF ServeTree, server, loader
<1>5. CASE ServeOther(c)
  <2>1. ~Loads(c)
    BY <1>5 DEF ServeOther, Loads
  <2> QED
    BY <1>1, <1>3, <1>5, <2>1, AnswerStep DEF ServeOther, server, loader
<1>6. CASE Refuse(c)
  BY <1>1, <1>3, <1>6, AnswerStep DEF Refuse, server, loader
<1>7. ASSUME NEW live \in SUBSET Division, live \subseteq used \cup {c.on},
             c.on \in Division, c.op \in Mutation, Change(c, live)
      PROVE  LoadInv' /\ Grows
  <2>1. Grows /\ org' \in Tree
    BY <1>1, <1>7, NextVersion DEF Change
  <2>2. ~Loads(c)
    BY <1>7 DEF Loads, Mutation
  <2>3. Answer(c, "ok", org') /\ UNCHANGED <<sent, current, tree>> /\ c.answer = "none"
    BY <1>7 DEF Change, loader
  <2>4. ASSUME NEW next \in Tree, next = org' PROVE LoadInv'
    BY <1>1, <2>1, <2>2, <2>3, <2>4, AnswerStep DEF Grows
  <2> QED
    BY <2>1, <2>4
<1>8. CASE ServeCreate(c)
  <2>1. c.on \in Division
    BY <1>1, <1>8 DEF ServeCreate, CallIsAbout
  <2> QED
    BY <1>1, <1>7, <1>8, <2>1 DEF ServeCreate, Mutation
<1>9. CASE ServeEdit(c)
  BY <1>1, <1>7, <1>9 DEF ServeEdit, Mutation
<1>10. CASE ServeArchive(c)
  <2>1. c.on \in Division
    BY <1>1, <1>10 DEF ServeArchive, CallIsAbout
  <2> QED
    BY <1>1, <1>7, <1>10, <2>1 DEF ServeArchive, Mutation
<1> QED
  BY <1>4, <1>5, <1>6, <1>8, <1>9, <1>10 DEF Serve

\* An answer is dealt with.
LEMMA ReceiveCalls ==
  ASSUME ExplorerInv, NEW c \in calls, Receive(c)
  PROVE  LoadInv'
<1>1. TypeOK /\ LoadInv /\ CallIsAbout(c)
  BY CallParts DEF ExplorerInv, LoadInv
<1>2. CASE TreeLoaded(c)
  BY <1>1, <1>2, LoadedStep DEF TreeLoaded, Loads, server
<1>3. CASE MutationOk(c)
  <2>1. LoadTree("refresh", After(c), c.op, calls \ {c}) /\ org' = org /\ c.op \in Mutation
    BY <1>3 DEF MutationOk, server
  <2>2. After(c) \in Node
    BY <1>1, <2>1, DataTypes DEF After, CallIsAbout, Node
  <2> QED
    BY <1>1, <2>1, <2>2, LoadStep DEF Maybe
<1>4. ASSUME calls' = calls \ {c}, UNCHANGED <<sent, current, tree, org>> PROVE LoadInv'
  BY <1>1, <1>4, DropStep
<1> QED
  BY <1>2, <1>3, <1>4
  DEF Receive, TreeFailed, TreeAborted, SaveForbidden, SaveFailed, ArchiveRefused,
      MembersAnswered, FormSaved, FormRefused, server, loader

\* Someone else archives a division.
LEMMA OtherStep ==
  ASSUME ExplorerInv, NEW d \in Division, OtherArchive(d)
  PROVE  LoadInv' /\ Grows
<1>1. TypeOK /\ LoadInv /\ org.live \subseteq used /\ used \subseteq Division
  BY DEF ExplorerInv, LoadInv, TypeOK
<1>2. Grows
  BY <1>1, NextVersion DEF OtherArchive
<1>3. UNCHANGED <<calls, sent, current, tree>>
  BY DEF OtherArchive, loader
<1>4. \A c \in calls : c.snap.v \in Nat
  BY <1>1, CallParts DEF LoadInv
<1>5. CallsInv'
  BY <1>1, <1>3 DEF LoadInv, CallsInv, CallsNumbered, OneLoad, CallIsAbout, Loads
<1>6. TreeIsBehind'
  BY <1>1, <1>2, <1>3, <1>4, Versions DEF LoadInv, TreeIsBehind, Grows, Loads
<1> QED
  BY <1>2, <1>5, <1>6 DEF LoadInv

\* Calls, divisions and tree under every step.
LEMMA CallsStep ==
  ASSUME ExplorerInv, Next
  PROVE  LoadInv' /\ Grows
<1>1. TypeOK /\ LoadInv
  BY DEF ExplorerInv, LoadInv
<1>2. ASSUME UNCHANGED <<org, used>> PROVE Grows
  <2>1. /\ org \in [v : 1..MaxVersion, live : SUBSET Division] /\ org.v \in Nat
        /\ used \subseteq Division /\ org.live \subseteq used
    BY <1>1, Versions DEF TypeOK
  <2> QED
    BY <1>2, <2>1 DEF Grows
<1>3. CASE User
  <2>1. UNCHANGED <<org, used>>
    BY <1>3 DEF User, Retry, RefreshButton, Escape, EditButton, CreateButton, CancelForm,
       TreeNodeSelect, SubmitCreate, PickPosition, StartMembership, StartPosition,
       SubmitPosition, SubmitMembership, SubmitEdit, SubmitEditOfNothing, ArchiveButton,
       CancelArchive, ConfirmArchive, server
  <2> QED
    BY <1>2, <1>3, <2>1, UserCalls
<1>4. CASE SelectPending
  BY <1>1, <1>2, <1>4, IdleStep DEF SelectPending, server
<1>5. ASSUME NEW c \in calls, Receive(c) PROVE LoadInv' /\ Grows
  <2>1. UNCHANGED <<org, used>>
    BY <1>5 DEF Receive, TreeLoaded, TreeFailed, TreeAborted, MutationOk, SaveForbidden,
       SaveFailed, ArchiveRefused, MembersAnswered, FormSaved, FormRefused, server
  <2> QED
    BY <1>2, <1>5, <2>1, ReceiveCalls
<1> QED
  BY <1>3, <1>4, <1>5, ServeStep, OtherStep DEF Next

-----------------------------------------------------------------------------
(* The rest of the state.                                                   *)

\* What the type invariant says of the variables that no other part is about.
RestOK ==
  /\ tree \in Tree /\ busy \in 0..MaxCalls /\ picked \in 0..MaxCalls
  /\ title \in Position \cup {None} /\ members \in Position \cup {None}
  /\ loading \subseteq {"boot", "refresh"}
  /\ submitting \in BOOLEAN /\ forbidden \in BOOLEAN
  /\ failed \in BOOLEAN /\ dialog \in BOOLEAN
  /\ pending \in Maybe
  /\ toast \in {"none", "made", "not made"}
  /\ acked \in 0..MaxVersion

\* The type invariant is made of these parts.
LEMMA TypeParts ==
  /\ TypeOK => RestOK
  /\ /\ RestOK /\ PanelOf(view) /\ CallsInv
     /\ org \in [v : 1..MaxVersion, live : SUBSET Division]
     /\ used \subseteq Division /\ org.live \subseteq used
     => TypeOK
<1>1. TypeOK => RestOK
  BY DEF TypeOK, RestOK
<1>2. ASSUME RestOK, PanelOf(view), CallsInv,
             org \in [v : 1..MaxVersion, live : SUBSET Division],
             used \subseteq Division, org.live \subseteq used
      PROVE  TypeOK
  BY <1>2 DEF TypeOK, RestOK, PanelOf, CallsInv
<1> QED
  BY <1>1, <1>2

\* A form that is shown keeps its call or has none.
LEMMA ShowBusy ==
  ASSUME busy \in 0..MaxCalls, NEW v, Show(v)
  PROVE  busy' \in 0..MaxCalls
BY BoundTypes DEF Show

\* What the user does.
LEMMA UserRest ==
  ASSUME ExplorerInv, User, LoadInv'
  PROVE  RestOK'
<1>1. /\ RestOK /\ sent' \in 0..MaxCalls /\ 0 \in 0..MaxCalls
      /\ "none" \in {"none", "made", "not made"}
  BY TypeParts, BoundTypes DEF ExplorerInv, LoadInv, CallsInv
<1> USE DEF server, loader, people, flags
<1>2. tree' = tree /\ pending' = pending /\ acked' = acked /\ forbidden' = forbidden
  BY DEF User, Retry, RefreshButton, Escape, EditButton, CreateButton, CancelForm,
     TreeNodeSelect, SubmitCreate, PickPosition, StartMembership, StartPosition,
     SubmitPosition, SubmitMembership, SubmitEdit, SubmitEditOfNothing, ArchiveButton,
     CancelArchive, ConfirmArchive, LoadTree
<1>3. /\ title' \in Position \cup {None, title} /\ members' \in {None, members}
      /\ toast' \in {toast, "not made"} /\ picked' \in {picked, sent'}
  BY DEF User, Retry, RefreshButton, Escape, EditButton, CreateButton, CancelForm,
     TreeNodeSelect, SubmitCreate, PickPosition, StartMembership, StartPosition,
     SubmitPosition, SubmitMembership, SubmitEdit, SubmitEditOfNothing, ArchiveButton,
     CancelArchive, ConfirmArchive, LoadTree, Send
<1>4. /\ submitting' = submitting \/ submitting' = TRUE
      /\ dialog' = dialog \/ dialog' = TRUE \/ dialog' = FALSE
      /\ failed' = failed \/ failed' = FALSE
  BY DEF User, Retry, RefreshButton, Escape, EditButton, CreateButton, CancelForm,
     TreeNodeSelect, SubmitCreate, PickPosition, StartMembership, StartPosition,
     SubmitPosition, SubmitMembership, SubmitEdit, SubmitEditOfNothing, ArchiveButton,
     CancelArchive, ConfirmArchive, LoadTree
<1>5. loading' \subseteq loading \cup {"boot", "refresh"}
  BY DEF User, Retry, RefreshButton, Escape, EditButton, CreateButton, CancelForm,
     TreeNodeSelect, SubmitCreate, PickPosition, StartMembership, StartPosition,
     SubmitPosition, SubmitMembership, SubmitEdit, SubmitEditOfNothing, ArchiveButton,
     CancelArchive, ConfirmArchive, LoadTree
<1>6. busy' \in {busy, 0, sent'}
  BY DEF User, Retry, RefreshButton, Escape, EditButton, CreateButton, CancelForm,
     TreeNodeSelect, SubmitCreate, PickPosition, StartMembership, StartPosition,
     SubmitPosition, SubmitMembership, SubmitEdit, SubmitEditOfNothing, ArchiveButton,
     CancelArchive, ConfirmArchive, Show, Send
<1>7. /\ submitting' \in BOOLEAN /\ dialog' \in BOOLEAN
      /\ failed' \in BOOLEAN /\ forbidden' \in BOOLEAN
  BY <1>1, <1>2, <1>4 DEF RestOK
<1>8. /\ tree' \in Tree /\ busy' \in 0..MaxCalls /\ picked' \in 0..MaxCalls
      /\ title' \in Position \cup {None} /\ members' \in Position \cup {None}
      /\ loading' \subseteq {"boot", "refresh"} /\ pending' \in Maybe
      /\ toast' \in {"none", "made", "not made"} /\ acked' \in 0..MaxVersion
  BY <1>1, <1>2, <1>3, <1>5, <1>6 DEF RestOK
<1> QED
  BY <1>7, <1>8 DEF RestOK

\* What the server does changes nothing on the page but the calls.
LEMMA ServeRest ==
  ASSUME ExplorerInv,
         \/ \E c \in calls : Serve(c)
         \/ \E d \in Division : OtherArchive(d)
  PROVE  RestOK'
<1>1. RestOK
  BY TypeParts DEF ExplorerInv
<1>2. UNCHANGED <<tree, busy, picked, title, members, loading, submitting, forbidden,
                  failed, dialog, pending, toast, acked>>
  BY DEF Serve, ServeTree, ServeCreate, ServeEdit, ServeArchive, Change, ServeOther,
     Refuse, OtherArchive, loader, people, flags
<1> QED
  BY <1>1, <1>2 DEF RestOK

\* What the effect that selects does.
LEMMA PendingRest ==
  ASSUME ExplorerInv, SelectPending
  PROVE  RestOK'
<1>1. RestOK
  BY TypeParts DEF ExplorerInv
<1>2. busy' \in 0..MaxCalls /\ pending' \in Maybe
  BY <1>1, ShowBusy DEF SelectPending, RestOK, Maybe
<1> QED
  BY <1>1, <1>2 DEF SelectPending, RestOK, people, flags

\* What the answers do.
LEMMA ReceiveRest ==
  ASSUME ExplorerInv, NEW c \in calls, Receive(c), LoadInv'
  PROVE  RestOK'
<1>1. /\ RestOK /\ c.snap \in Tree /\ c.snap.v \in 0..MaxVersion /\ CallIsAbout(c)
      /\ 0 \in 0..MaxCalls
  <2>1. RestOK /\ c.snap \in Tree /\ CallIsAbout(c)
    BY TypeParts, CallParts DEF ExplorerInv
  <2>2. c.snap.v \in 0..MaxVersion
    BY <2>1 DEF Tree
  <2> QED
    BY <2>1, <2>2, BoundTypes
<1> USE DEF server, loader, people, flags
<1>2. /\ tree' \in {tree, c.snap} /\ acked' \in {acked, c.snap.v}
      /\ title' = title /\ picked' = picked /\ dialog' = dialog
  BY DEF Receive, TreeLoaded, TreeFailed, TreeAborted, MutationOk, SaveForbidden,
     SaveFailed, ArchiveRefused, MembersAnswered, FormSaved, FormRefused, LoadTree
<1>3. /\ pending' = pending \/ (Loads(c) /\ pending' = c.on)
      /\ members' = members \/ (c.op = "members" /\ members' = c.on)
  BY DEF Receive, TreeLoaded, TreeFailed, TreeAborted, MutationOk, SaveForbidden,
     SaveFailed, ArchiveRefused, MembersAnswered, FormSaved, FormRefused, LoadTree, Loads
<1>4. /\ toast' \in {toast, "made", "not made"}
      /\ loading' \subseteq loading \cup {"refresh"}
      /\ busy' \in {busy, 0}
  BY DEF Receive, TreeLoaded, TreeFailed, TreeAborted, MutationOk, SaveForbidden,
     SaveFailed, ArchiveRefused, MembersAnswered, FormSaved, FormRefused, LoadTree,
     Continue, Show
<1>5. submitting' = submitting \/ submitting' = FALSE
  BY DEF Receive, TreeLoaded, TreeFailed, TreeAborted, MutationOk, SaveForbidden,
     SaveFailed, ArchiveRefused, MembersAnswered, FormSaved, FormRefused, Continue
<1>6. forbidden' = forbidden \/ forbidden' \in BOOLEAN
  BY <1>1 DEF RestOK, Receive, TreeLoaded, TreeFailed, TreeAborted, MutationOk, SaveForbidden,
     SaveFailed, ArchiveRefused, MembersAnswered, FormSaved, FormRefused
<1>7. failed' = failed \/ failed' \in BOOLEAN
  BY <1>1 DEF RestOK, Receive, TreeLoaded, TreeFailed, TreeAborted, MutationOk, SaveForbidden,
     SaveFailed, ArchiveRefused, MembersAnswered, FormSaved, FormRefused, LoadTree
<1>8. pending' \in Maybe /\ members' \in Position \cup {None}
  BY <1>1, <1>3 DEF RestOK, CallIsAbout
<1> QED
  BY <1>1, <1>2, <1>4, <1>5, <1>6, <1>7, <1>8 DEF RestOK

-----------------------------------------------------------------------------

\* The page is opened.
LEMMA InitExplorer == Init => ExplorerInv
<1> SUFFICES ASSUME Init PROVE ExplorerInv
  OBVIOUS
<1> DEFINE boot == [id |-> 1, op |-> "boot", on |-> None, flow |-> "none",
                    answer |-> "none", snap |-> NoTree]
<1>1. NoTree \in Tree /\ NoTree.v = 0 /\ 1 \in 1..MaxCalls /\ 1 \in 0..MaxCalls
      /\ 0 \in 0..MaxCalls /\ 1 \in 1..MaxVersion /\ 0 \in 0..MaxVersion
  BY BoundTypes DEF NoTree, Tree
<1>2. boot \in Call /\ boot.id = 1 /\ boot.on = None /\ boot.flow = "none"
      /\ boot.op = "boot" /\ boot.snap = NoTree /\ boot.answer = "none"
  BY <1>1 DEF Call, Maybe
<1>3. calls = {boot} /\ sent = 1 /\ current = 1
  BY DEF Init
<1> HIDE DEF boot
<1>4. CallsInv
  BY <1>1, <1>2, <1>3 DEF CallsInv, CallsNumbered, OneLoad, CallIsAbout, Loads, Maybe,
     Mutation
<1>5. PanelOf(view)
  BY DEF Init, PanelOf, View, Maybe, Forms
<1>6. TreeIsBehind
  BY <1>1, <1>2, <1>3 DEF Init, TreeIsBehind
<1>7. RestOK
  BY <1>1 DEF Init, RestOK, Maybe
<1>8. /\ org \in [v : 1..MaxVersion, live : SUBSET Division]
      /\ used \subseteq Division /\ org.live \subseteq used
  BY <1>1, DataTypes DEF Init
<1> QED
  BY <1>4, <1>5, <1>6, <1>7, <1>8, TypeParts DEF ExplorerInv

\* No step breaks the invariant.
LEMMA ExplorerStep == ExplorerInv /\ [Next]_vars => ExplorerInv'
<1>1. ASSUME ExplorerInv, Next PROVE ExplorerInv'
  <2>1. LoadInv' /\ Grows /\ PanelOf(view')
    BY <1>1, CallsStep, PanelStep
  <2>2. RestOK'
    BY <1>1, <2>1, UserRest, ServeRest, PendingRest, ReceiveRest DEF Next
  <2>3. PanelOf(view)' /\ CallsInv' /\ TreeIsBehind'
    BY <2>1 DEF LoadInv, PanelOf
  <2>4. TypeOK'
    BY <2>1, <2>2, <2>3, TypeParts DEF Grows, TypeOK, RestOK, PanelOf, CallsInv
  <2> QED
    BY <2>3, <2>4 DEF ExplorerInv
<1>2. ASSUME ExplorerInv, UNCHANGED vars PROVE ExplorerInv'
  <2>1. /\ UNCHANGED <<calls, sent, current, tree, org, used, view>>
        /\ TypeOK /\ LoadInv /\ PanelOf(view)
    BY <1>2 DEF vars, ExplorerInv, LoadInv
  <2>2. LoadInv'
    BY <2>1, IdleStep
  <2>3. TypeOK'
    BY <1>2, <2>1 DEF vars, TypeOK
  <2>4. PanelOf(view)'
    BY <2>1 DEF PanelOf
  <2> QED
    BY <2>2, <2>3, <2>4 DEF LoadInv, ExplorerInv
<1> QED
  BY <1>1, <1>2

\* Every variable keeps its type, the bounds on calls and versions included.
THEOREM ExplorerTypes == Spec => []TypeOK
<1>1. ExplorerInv => TypeOK
  BY DEF ExplorerInv
<1> QED
  BY InitExplorer, ExplorerStep, <1>1, PTL DEF Spec

\* The card or form on the screen is always of the selected division, and
\* nothing is selected behind an empty panel.
THEOREM PanelHolds == Spec => []PanelFollowsSelection
<1>1. ExplorerInv => PanelFollowsSelection
  BY DEF ExplorerInv, PanelOf, PanelFollowsSelection
<1> QED
  BY InitExplorer, ExplorerStep, <1>1, PTL DEF Spec

\* An answer to a load never replaces the tree by an older one: whatever the
\* order of the answers, only the latest load is taken.
THEOREM TreeHolds == Spec => TreeNeverGoesBack
<1>1. ExplorerInv /\ [Next]_vars => [tree'.v >= tree.v]_vars
  <2> SUFFICES ASSUME ExplorerInv, Next PROVE tree'.v >= tree.v
    OBVIOUS
  <2>1. tree.v \in Nat /\ CallsInv
    BY Versions DEF ExplorerInv
  <2>2. CASE tree' = tree
    BY <2>1, <2>2
  <2>3. ASSUME NEW c \in calls, TreeLoaded(c) PROVE tree'.v >= tree.v
    <3>1. tree' = c.snap /\ Loads(c) /\ c.answer = "ok" /\ c.snap.v \in Nat
      BY <2>1, <2>3, CallParts DEF TreeLoaded, Loads
    <3> QED
      BY <2>1, <3>1 DEF ExplorerInv, TreeIsBehind
  <2>4. (\E c \in calls : TreeLoaded(c)) \/ tree' = tree
    BY DEF Next, User, Retry, RefreshButton, Escape, EditButton, CreateButton, CancelForm,
       TreeNodeSelect, SubmitCreate, PickPosition, StartMembership, StartPosition,
       SubmitPosition, SubmitMembership, SubmitEdit, SubmitEditOfNothing, ArchiveButton,
       CancelArchive, ConfirmArchive, LoadTree, SelectPending, Serve, ServeTree,
       ServeCreate, ServeEdit, ServeArchive, Change, ServeOther, Refuse, OtherArchive,
       Receive, TreeFailed, TreeAborted, MutationOk, SaveForbidden, SaveFailed,
       ArchiveRefused, MembersAnswered, FormSaved, FormRefused, loader
  <2> QED
    BY <2>2, <2>3, <2>4
<1> QED
  BY InitExplorer, ExplorerStep, <1>1, PTL DEF Spec, TreeNeverGoesBack

-----------------------------------------------------------------------------
(* Whose answer is waited for.                                              *)

\* The numbers the page keeps are of calls that have been made, and a call under
\* one of them is of the kind that the number is for.
CallIsOfItsKind(c) ==
  /\ c.id = current \/ c.answer = "aborted" \/ c.flow # "none" => Loads(c)
  /\ c.id = busy => c.op \in {"position", "membership"}
  /\ c.id = picked => c.op = "members" /\ title \in {None, c.on}

HandlesInv ==
  /\ current <= sent /\ busy <= sent /\ picked <= sent
  /\ \A c \in calls : CallIsOfItsKind(c)
  /\ busy # 0 => view.kind \in {"position.create", "membership.create"}

\* A change the page was told of is in the tree, or in the answer to the load
\* that is under way, unless a load has failed since.
AckInv ==
  /\ acked <= org.v
  /\ \A c \in calls : Loads(c) /\ c.answer = "ok" => acked <= c.snap.v
  /\ failed \/ tree.v >= acked \/ \E c \in calls : Loads(c) /\ c.answer # "aborted"

PageInv == ExplorerInv /\ HandlesInv /\ AckInv /\ MembersOfNamedPosition /\ WaitsForCalls

\* The numbers are numbers.
LEMMA Numbers ==
  ASSUME ExplorerInv
  PROVE  sent \in Nat /\ current \in Nat /\ busy \in Nat /\ picked \in Nat
<1>1. /\ sent \in 0..MaxCalls /\ current \in 0..MaxCalls
      /\ busy \in 0..MaxCalls /\ picked \in 0..MaxCalls
  BY DEF ExplorerInv, TypeOK
<1> QED
  BY <1>1, BoundTypes

\* e is what a step has made of c.
Same(e, c) ==
  /\ e.id = c.id /\ e.op = c.op /\ e.on = c.on /\ e.flow = c.flow
  /\ e.answer = "aborted" => c.answer = "aborted" \/ c.id = current

\* The calls after a step are those of S, and perhaps a new one.
From(S) ==
  /\ \A e \in calls' : \/ \E c \in S : Same(e, c)
                       \/ e.id = sent + 1 /\ sent' = sent + 1
  /\ \A c \in S : \E e \in calls' : Same(e, c)

\* Nothing new.
LEMMA FromKept ==
  ASSUME NEW S, calls' = S
  PROVE  From(S)
BY DEF From, Same

\* An answer.
LEMMA FromAnswer ==
  ASSUME CallsInv, NEW c \in calls, NEW answer, answer # "aborted", NEW snap,
         Answer(c, answer, snap)
  PROVE  From(calls)
<1> DEFINE n == [c EXCEPT !.answer = answer, !.snap = snap]
<1>1. /\ n.id = c.id /\ n.op = c.op /\ n.on = c.on /\ n.flow = c.flow
      /\ n.answer = answer
  BY DEF CallsInv, Call
<1>2. calls' = (calls \ {c}) \cup {n}
  BY DEF Answer
<1> HIDE DEF n
<1> QED
  BY <1>1, <1>2 DEF From, Same

\* The call that is sent.
LEMMA FromSend ==
  ASSUME CallsInv, NEW op \in {"members", "position", "membership"} \cup Mutation,
         NEW on \in Maybe \cup Position, Send(op, on)
  PROVE  /\ From(calls) /\ sent' = sent + 1
         /\ \E e \in calls' : e.id = sent + 1 /\ e.op = op
         /\ \A e \in calls' : e.id = sent + 1 =>
              /\ e.op = op /\ e.on = on /\ e.flow = "none" /\ e.answer = "none"
         /\ calls \subseteq calls'
         /\ \A e \in calls' : ~Loads(e) \/ e \in calls
<1> DEFINE n == NewCall(op, on, "none")
<1>1. sent < MaxCalls /\ calls' = calls \cup {n} /\ sent' = sent + 1 /\ sent \in Nat
  <2>1. sent \in Nat /\ MaxCalls \in Nat
    BY BoundTypes DEF CallsInv
  <2> QED
    BY <2>1 DEF Send, Reserved
<1>2. n.id = sent + 1 /\ n.op = op /\ n.on = on /\ n.flow = "none" /\ n.answer = "none"
  BY <1>1, NewCallParts
<1> HIDE DEF n
<1>3. \A c \in calls : c.id # sent + 1
  BY <1>1, CallParts
<1>4. From(calls)
  BY <1>1, <1>2 DEF From, Same
<1>5. ~Loads(n)
  BY <1>2 DEF Loads, Mutation
<1> QED
  BY <1>1, <1>2, <1>3, <1>4, <1>5

\* The load that begins.
LEMMA FromLoad ==
  ASSUME CallsInv, NEW op \in {"boot", "refresh"}, NEW on \in Maybe,
         NEW flow \in Mutation \cup {"none"}, NEW rest \in SUBSET calls,
         LoadTree(op, on, flow, rest)
  PROVE  /\ From(rest) /\ sent' = sent + 1
         /\ \E e \in calls' : e.id = sent + 1 /\ e.op = op /\ e.flow = flow
                              /\ e.answer = "none"
         /\ \A e \in calls' : e.id = sent + 1 =>
              e.op = op /\ e.flow = flow /\ e.answer = "none"
         /\ \A e \in calls' : ~(Loads(e) /\ e.answer = "ok")
<1> DEFINE n == NewCall(op, on, flow)
<1>1. /\ sent < MaxCalls /\ calls' = Abort(rest, current) \cup {n}
      /\ sent' = sent + 1 /\ sent \in Nat
  <2>1. sent \in Nat /\ MaxCalls \in Nat
    BY BoundTypes DEF CallsInv
  <2> QED
    BY <2>1 DEF LoadTree, Reserved
<1>2. n.id = sent + 1 /\ n.op = op /\ n.flow = flow /\ n.answer = "none"
  BY DEF NewCall
<1> HIDE DEF n
<1> DEFINE aborted(c) == IF c.id = current THEN [c EXCEPT !.answer = "aborted"] ELSE c
<1>3. ASSUME NEW c \in rest
      PROVE  /\ Same(aborted(c), c) /\ aborted(c).id # sent + 1
             /\ ~(Loads(aborted(c)) /\ aborted(c).answer = "ok")
  <2>1. c \in Call /\ c.id <= sent /\ c.id \in Nat
        /\ (Loads(c) /\ c.answer # "aborted" => c.id = current)
    BY CallParts, BoundTypes
  <2>2. CASE c.id = current
    <3>1. /\ aborted(c).id = c.id /\ aborted(c).op = c.op /\ aborted(c).on = c.on
          /\ aborted(c).flow = c.flow /\ aborted(c).answer = "aborted"
      BY <2>1, <2>2 DEF Call
    <3> QED
      BY <1>1, <2>1, <2>2, <3>1 DEF Same
  <2>3. CASE c.id # current
    BY <1>1, <2>1, <2>3 DEF Same
  <2> QED
    BY <2>2, <2>3
<1>4. Abort(rest, current) = {aborted(c) : c \in rest}
  BY DEF Abort
<1> HIDE DEF aborted
<1>5. From(rest)
  BY <1>1, <1>2, <1>3, <1>4 DEF From
<1> QED
  BY <1>1, <1>2, <1>3, <1>4, <1>5

\* What keeps the numbers in order.
LEMMA HandlesKept ==
  ASSUME ExplorerInv, HandlesInv, NEW S \in SUBSET calls, From(S),
         sent' = sent \/ sent' = sent + 1,
         current' \in {current, 0} \/ (current' = sent + 1 /\ sent' = sent + 1),
         busy' \in {busy, 0} \/ (busy' = sent + 1 /\ sent' = sent + 1),
         picked' = picked \/ (picked' = sent + 1 /\ sent' = sent + 1),
         picked' = picked => title' \in {title, None},
         \A e \in calls' : e.id = sent + 1 => CallIsOfItsKind(e)',
         busy' # 0 => view'.kind \in {"position.create", "membership.create"}
  PROVE  HandlesInv'
<1>1. sent \in Nat /\ current \in Nat /\ busy \in Nat /\ picked \in Nat
  BY Numbers
<1>2. current' <= sent' /\ busy' <= sent' /\ picked' <= sent'
  BY <1>1 DEF HandlesInv
<1>3. ASSUME NEW e \in calls' PROVE CallIsOfItsKind(e)'
  <2>1. CASE e.id = sent + 1
    BY <2>1
  <2>2. CASE e.id # sent + 1
    <3>1. PICK c \in S : Same(e, c)
      BY <2>2 DEF From
    <3>2. c.id \in 1..MaxCalls /\ CallIsOfItsKind(c)
      BY CallParts DEF ExplorerInv, HandlesInv
    <3>3. /\ e.id = current' => c.id = current
          /\ e.id = busy' => c.id = busy
          /\ e.id = picked' => c.id = picked /\ picked' = picked
      BY <2>2, <3>1, <3>2, BoundTypes DEF Same
    <3>4. e.id = current' \/ e.answer = "aborted" \/ e.flow # "none" => Loads(e)
      BY <3>1, <3>2, <3>3 DEF Same, CallIsOfItsKind, Loads
    <3>5. e.id = busy' => e.op \in {"position", "membership"}
      BY <3>1, <3>2, <3>3 DEF Same, CallIsOfItsKind
    <3>6. e.id = picked' => e.op = "members" /\ title' \in {None, e.on}
      BY <3>1, <3>2, <3>3 DEF Same, CallIsOfItsKind
    <3> QED
      BY <3>4, <3>5, <3>6 DEF CallIsOfItsKind, Loads
  <2> QED
    BY <2>1, <2>2
<1> QED
  BY <1>2, <1>3 DEF HandlesInv

\* What keeps a call under way for everything that waits.
LEMMA WaitsKept ==
  ASSUME NEW S, From(S),
         \A op \in loading' : (\E c \in S : c.op = op) \/ (\E e \in calls' : e.op = op),
         submitting' => \/ \E c \in S : c.op \in Mutation \/ c.flow # "none"
                        \/ \E e \in calls' : e.op \in Mutation \/ e.flow # "none",
         busy' # 0 => (\E c \in S : c.id = busy') \/ (\E e \in calls' : e.id = busy'),
         view'.load = "loading" =>
           (\E c \in S : c.id = picked') \/ (\E e \in calls' : e.id = picked')
  PROVE  WaitsForCalls'
BY DEF From, Same, WaitsForCalls

\* The reducer starts no load of members but for a position that is picked.
LEMMA ReducerLoad ==
  ASSUME NEW v \in View
  PROVE  /\ Cancel(v).load \in {v.load, "idle"}
         /\ ClearSelection(v).load \in {v.load, "idle"}
         /\ \A d : /\ SelectDivision(v, d).load \in {v.load, "idle"}
                   /\ SelectDivision(ClearSelection(v), d).load \in {v.load, "idle"}
                   /\ SaveSuccess(v, d).load \in {v.load, "idle"}
                   /\ StartDivisionEdit(v, d).load \in {v.load, "idle"}
                   /\ StartDivisionCreate(v, d).load \in {v.load, "idle"}
                   /\ StartPositionCreate(v, d).load \in {v.load, "idle"}
                   /\ \A p : StartMembershipCreate(v, d, p).load \in {v.load, "idle"}
BY DEF View, Cancel, ClearSelection, Cleared, SelectDivision, SaveSuccess,
   StartDivisionEdit, StartDivisionCreate, StartPositionCreate, StartMembershipCreate

\* What is waited for, and what of it will be on the screen.
WaitInv == HandlesInv /\ AckInv /\ WaitsForCalls

\* What the panel shows is kept or goes away, and the calls of forms with it.
Calm ==
  /\ busy' = 0 \/ (busy' = busy /\ view'.kind = view.kind)
  /\ view'.load \in {view.load, "idle"}

\* A step that makes no call and deals with none.
Quiet ==
  /\ UNCHANGED <<org, calls, sent, current, picked, loading, submitting, tree, failed, acked>>
  /\ title' \in {title, None}
  /\ Calm

\* It keeps everything that is waited for.
LEMMA QuietStep ==
  ASSUME ExplorerInv, WaitInv, Quiet
  PROVE  WaitInv'
<1>1. From(calls)
  BY FromKept DEF Quiet
<1>2. HandlesInv'
  <2>1. \A e \in calls' : e.id # sent + 1
    <3>1. \A e \in calls : e.id \in 1..MaxCalls /\ e.id <= sent /\ sent \in Nat
      BY CallParts DEF ExplorerInv
    <3> QED
      BY <3>1, BoundTypes DEF Quiet
  <2>2. busy' # 0 => view'.kind \in {"position.create", "membership.create"}
    BY DEF Quiet, Calm, WaitInv, HandlesInv
  <2> QED
    BY <1>1, <2>1, <2>2, HandlesKept DEF Quiet, Calm, WaitInv
<1>3. AckInv'
  BY DEF Quiet, WaitInv, AckInv, Loads
<1>4. WaitsForCalls'
  BY DEF Quiet, Calm, WaitInv, WaitsForCalls
<1> QED
  BY <1>2, <1>3, <1>4 DEF WaitInv

\* Clicks and keys that make no call.
LEMMA ClickStep ==
  ASSUME ExplorerInv, WaitInv,
         \/ Escape \/ EditButton \/ CreateButton \/ CancelForm \/ StartPosition
         \/ SubmitEditOfNothing \/ ArchiveButton \/ CancelArchive \/ SelectPending
         \/ ConfirmArchive /\ Selected \notin Division
         \/ \E d \in Division : TreeNodeSelect(d)
         \/ \E p \in Position : StartMembership(p)
  PROVE  WaitInv'
<1>1. view \in View
  BY DEF ExplorerInv, PanelOf
<1>2. Calm
  <2>1. CASE view' = view /\ busy' = busy
    BY <2>1 DEF Calm
  <2>2. ASSUME NEW v, Show(v), v.load \in {view.load, "idle"} PROVE Calm
    BY <2>2 DEF Show, Calm
  <2>3. CASE CreateButton \/ StartPosition \/ \E p \in Position : StartMembership(p)
    <3>1. Cancel(view) = view
      BY <2>3 DEF CreateButton, StartPosition, StartMembership, RowsShown, CardShown,
         Cancel, Forms
    <3> QED
      BY <1>1, <2>2, <2>3, <3>1, ReducerLoad DEF CreateButton, StartPosition, StartMembership
  <2>4. CASE Escape \/ EditButton \/ CancelForm \/ SelectPending
    BY <1>1, <2>2, <2>4, ReducerLoad DEF Escape, EditButton, CancelForm, SelectPending
  <2>5. ASSUME NEW d \in Division, TreeNodeSelect(d) PROVE Calm
    BY <1>1, <2>2, <2>5, ReducerLoad DEF TreeNodeSelect
  <2> QED
    BY <2>1, <2>3, <2>4, <2>5
    DEF SubmitEditOfNothing, ArchiveButton, CancelArchive, ConfirmArchive
<1>3. UNCHANGED <<org, calls, sent, current, picked, loading, submitting, tree, failed, acked>>
  BY DEF Escape, EditButton, CreateButton, CancelForm, StartPosition, SubmitEditOfNothing,
     ArchiveButton, CancelArchive, SelectPending, ConfirmArchive, TreeNodeSelect,
     StartMembership, server, loader, people, flags
<1>4. title' \in {title, None}
  BY DEF Escape, EditButton, CreateButton, CancelForm, StartPosition, SubmitEditOfNothing,
     ArchiveButton, CancelArchive, SelectPending, ConfirmArchive, TreeNodeSelect,
     StartMembership, people
<1> QED
  BY <1>2, <1>3, <1>4, QuietStep DEF Quiet

\* A call of a form, for members or for a change.
LEMMA SendWaits ==
  ASSUME ExplorerInv, WaitInv,
         NEW op \in {"members", "position", "membership"} \cup Mutation,
         NEW on \in Maybe \cup Position, Send(op, on),
         UNCHANGED <<org, current, loading, tree, failed, acked>>,
         view'.kind = view.kind,
         op \in Mutation => UNCHANGED <<busy, view, picked, title>> /\ submitting' = TRUE,
         op \in {"position", "membership"} =>
           /\ UNCHANGED <<view, picked, title, submitting>> /\ busy' = sent + 1
           /\ view.kind \in {"position.create", "membership.create"},
         op = "members" =>
           UNCHANGED <<busy, submitting>> /\ picked' = sent + 1 /\ title' = on
  PROVE  WaitInv'
<1>1. /\ From(calls) /\ sent' = sent + 1
      /\ \E e \in calls' : e.id = sent + 1 /\ e.op = op
      /\ \A e \in calls' : e.id = sent + 1 =>
           /\ e.op = op /\ e.on = on /\ e.flow = "none" /\ e.answer = "none"
      /\ calls \subseteq calls'
      /\ \A e \in calls' : ~Loads(e) \/ e \in calls
  BY FromSend DEF ExplorerInv
<1>2. /\ sent \in Nat /\ current \in Nat /\ busy \in Nat /\ picked \in Nat
      /\ current <= sent /\ busy <= sent /\ picked <= sent
  BY Numbers DEF WaitInv, HandlesInv
<1>3. op \notin Mutation \/ op \notin {"members", "position", "membership"}
  BY DEF Mutation
<1>4. ASSUME NEW e \in calls', e.id = sent + 1 PROVE CallIsOfItsKind(e)'
  BY <1>1, <1>2, <1>3, <1>4 DEF CallIsOfItsKind
<1>5. busy' # 0 => view'.kind \in {"position.create", "membership.create"}
  BY <1>3 DEF WaitInv, HandlesInv
<1>6. HandlesInv'
  <2>1. /\ busy' = busy \/ busy' = sent + 1
        /\ picked' = picked \/ picked' = sent + 1
        /\ picked' = picked => title' \in {title, None}
    BY <1>2
  <2> QED
    BY <1>1, <1>4, <1>5, <2>1, HandlesKept DEF WaitInv
<1>7. AckInv'
  BY <1>1 DEF WaitInv, AckInv, Loads
<1>8. WaitsForCalls'
  <2>1. \A o \in loading' : \E c \in calls : c.op = o
    BY DEF WaitInv, WaitsForCalls
  <2>2. submitting' => \/ \E c \in calls : c.op \in Mutation \/ c.flow # "none"
                       \/ \E e \in calls' : e.op \in Mutation \/ e.flow # "none"
    BY <1>1, <1>3 DEF WaitInv, WaitsForCalls
  <2>3. busy' # 0 => (\E c \in calls : c.id = busy') \/ (\E e \in calls' : e.id = busy')
    BY <1>1, <1>3 DEF WaitInv, WaitsForCalls
  <2>4. view'.load = "loading" =>
          (\E c \in calls : c.id = picked') \/ (\E e \in calls' : e.id = picked')
    BY <1>1, <1>3 DEF WaitInv, WaitsForCalls
  <2> QED
    BY <1>1, <2>1, <2>2, <2>3, <2>4, WaitsKept
<1> QED
  BY <1>6, <1>7, <1>8 DEF WaitInv

\* A load begins, by itself or for the handler of a change that has been made.
LEMMA LoadWaits ==
  ASSUME ExplorerInv, WaitInv, NEW op \in {"boot", "refresh"}, NEW on \in Maybe,
         NEW flow \in Mutation \cup {"none"}, NEW rest \in SUBSET calls,
         LoadTree(op, on, flow, rest),
         \A c \in calls \ rest : c.op \in Mutation,
         rest = calls \/ flow # "none",
         UNCHANGED <<org, view, busy, people, submitting>>, acked' <= org.v
  PROVE  WaitInv'
<1>1. /\ From(rest) /\ sent' = sent + 1
      /\ \E e \in calls' : e.id = sent + 1 /\ e.op = op /\ e.flow = flow
                           /\ e.answer = "none"
      /\ \A e \in calls' : e.id = sent + 1 =>
           e.op = op /\ e.flow = flow /\ e.answer = "none"
      /\ \A e \in calls' : ~(Loads(e) /\ e.answer = "ok")
  BY FromLoad DEF ExplorerInv
<1>2. /\ sent \in Nat /\ busy \in Nat /\ picked \in Nat
      /\ busy <= sent /\ picked <= sent
  BY Numbers DEF WaitInv, HandlesInv
<1>3. /\ busy' = busy /\ picked' = picked /\ title' = title /\ view' = view
      /\ current' = sent + 1 /\ loading' = loading \cup {op} /\ submitting' = submitting
  BY DEF LoadTree, people
<1>4. ASSUME NEW e \in calls', e.id = sent + 1 PROVE CallIsOfItsKind(e)'
  BY <1>1, <1>2, <1>3, <1>4 DEF CallIsOfItsKind, Loads
<1>5. HandlesInv'
  BY <1>1, <1>3, <1>4, HandlesKept DEF WaitInv, HandlesInv
<1>6. AckInv'
  BY <1>1 DEF AckInv, Loads
<1>7. \A c \in calls : /\ c.id = busy \/ c.id = picked => c \in rest
                       /\ c.op \in {"boot", "refresh"} => c \in rest
  BY DEF WaitInv, HandlesInv, CallIsOfItsKind, Mutation
<1>8. WaitsForCalls'
  <2>1. \A o \in loading' : (\E c \in rest : c.op = o) \/ (\E e \in calls' : e.op = o)
    <3>1. loading \subseteq {"boot", "refresh"}
      BY DEF ExplorerInv, TypeOK
    <3> QED
      BY <1>1, <1>3, <1>7, <3>1 DEF WaitInv, WaitsForCalls
  <2>2. submitting' => \/ \E c \in rest : c.op \in Mutation \/ c.flow # "none"
                       \/ \E e \in calls' : e.op \in Mutation \/ e.flow # "none"
    BY <1>1, <1>3 DEF WaitInv, WaitsForCalls
  <2>3. busy' # 0 => \E c \in rest : c.id = busy'
    BY <1>3, <1>7 DEF WaitInv, WaitsForCalls
  <2>4. view'.load = "loading" => \E c \in rest : c.id = picked'
    BY <1>3, <1>7 DEF WaitInv, WaitsForCalls
  <2> QED
    BY <1>1, <2>1, <2>2, <2>3, <2>4, WaitsKept
<1> QED
  BY <1>5, <1>6, <1>8 DEF WaitInv

\* The user keeps the page in order.
LEMMA UserWaits ==
  ASSUME ExplorerInv, WaitInv, User
  PROVE  WaitInv'
<1>1. PanelOf(view) /\ view \in View /\ view.sel \in Maybe /\ acked <= org.v
  BY DEF ExplorerInv, PanelOf, View, WaitInv, AckInv
<1> USE DEF server, loader, people, flags
<1>2. CASE Retry
  <2>1. LoadTree("boot", None, "none", calls) /\ None \in Maybe
    BY <1>2 DEF Retry, Maybe
  <2> QED
    BY <1>1, <1>2, <2>1, LoadWaits DEF Retry
<1>3. CASE RefreshButton
  BY <1>1, <1>3, LoadWaits DEF RefreshButton
<1>4. ASSUME NEW p \in Position, PickPosition(p) PROVE WaitInv'
  <2>1. view'.kind = view.kind
    BY <1>1, <1>4 DEF PickPosition, MembersTo, SelectPosition, View
  <2>2. "members" \notin Mutation
    BY DEF Mutation
  <2> QED
    BY <1>4, <2>1, <2>2, SendWaits DEF PickPosition
<1>5. CASE SubmitPosition
  <2>1. view.at \in Maybe /\ "position" \notin Mutation
    BY <1>1 DEF View, Mutation
  <2> QED
    BY <1>5, <2>1, SendWaits DEF SubmitPosition
<1>6. CASE SubmitMembership
  <2>1. view.at \in Maybe /\ "membership" \notin Mutation
    BY <1>1 DEF View, Mutation
  <2> QED
    BY <1>6, <2>1, SendWaits DEF SubmitMembership
<1>7. ASSUME NEW d \in Division, SubmitCreate(d) PROVE WaitInv'
  BY <1>7, SendWaits DEF SubmitCreate, Maybe, Node, Mutation
<1>8. CASE SubmitEdit
  BY <1>1, <1>8, SelectedIsSelected, SendWaits DEF SubmitEdit, Mutation
<1>9. CASE ConfirmArchive /\ Selected \in Division
  BY <1>1, <1>9, SelectedIsSelected, SendWaits DEF ConfirmArchive, Mutation
<1> QED
  BY <1>2, <1>3, <1>4, <1>5, <1>6, <1>7, <1>8, <1>9, ClickStep DEF User

\* An answer of the server changes its call only.
LEMMA ServeWaits ==
  ASSUME ExplorerInv, WaitInv, NEW c \in calls, Serve(c), Grows
  PROVE  WaitInv'
<1>1. /\ UNCHANGED <<sent, current, busy, picked, title, view, loading, submitting,
                     tree, failed, acked>>
      /\ c.answer = "none"
      /\ \E answer \in {"ok", "forbidden", "failed"}, snap \in {org, org', NoTree} :
           /\ Answer(c, answer, snap)
           /\ Loads(c) /\ answer = "ok" => snap = org
  <2>1. CASE ServeTree(c)
    BY <2>1 DEF ServeTree, server, loader, people, flags
  <2>2. CASE ServeOther(c)
    BY <2>2 DEF ServeOther, server, loader, people, flags, Loads
  <2>3. CASE Refuse(c)
    BY <2>3 DEF Refuse, server, loader, people, flags
  <2>4. CASE ServeCreate(c) \/ ServeEdit(c) \/ ServeArchive(c)
    BY <2>4 DEF ServeCreate, ServeEdit, ServeArchive, Change, loader, people, flags, Loads
  <2> QED
    BY <2>1, <2>2, <2>3, <2>4 DEF Serve
<1>2. PICK answer \in {"ok", "forbidden", "failed"}, snap \in {org, org', NoTree} :
        Answer(c, answer, snap) /\ (Loads(c) /\ answer = "ok" => snap = org)
  BY <1>1
<1> DEFINE n == [c EXCEPT !.answer = answer, !.snap = snap]
<1>3. /\ n.id = c.id /\ n.op = c.op /\ n.answer = answer /\ n.snap = snap
  BY DEF ExplorerInv, CallsInv, Call
<1>4. calls' = (calls \ {c}) \cup {n}
  BY <1>2 DEF Answer
<1> HIDE DEF n
<1>5. From(calls)
  BY <1>2, FromAnswer DEF ExplorerInv
<1>6. \A e \in calls : e.id \in 1..MaxCalls /\ e.id <= sent /\ sent \in Nat
  BY CallParts DEF ExplorerInv
<1>7. \A e \in calls' : e.id # sent + 1
  BY <1>3, <1>4, <1>6, BoundTypes
<1>8. HandlesInv'
  BY <1>1, <1>5, <1>7, HandlesKept DEF WaitInv, HandlesInv
<1>9. acked \in Nat /\ tree.v \in Nat /\ org.v \in Nat
  BY Versions DEF ExplorerInv
<1>10. AckInv'
  <2>1. acked' <= org'.v
    BY <1>1, <1>9 DEF WaitInv, AckInv, Grows
  <2>2. \A e \in calls' : Loads(e) /\ e.answer = "ok" => acked' <= e.snap.v
    BY <1>1, <1>2, <1>3, <1>4 DEF WaitInv, AckInv, Loads
  <2>3. failed' \/ tree'.v >= acked' \/ \E e \in calls' : Loads(e) /\ e.answer # "aborted"
    BY <1>1, <1>3, <1>4 DEF WaitInv, AckInv, Loads
  <2> QED
    BY <2>1, <2>2, <2>3 DEF AckInv, Loads
<1>11. WaitsForCalls'
  BY <1>1, <1>5, WaitsKept DEF WaitInv, WaitsForCalls
<1> QED
  BY <1>8, <1>10, <1>11 DEF WaitInv

\* Others change nothing on the page.
LEMMA OtherWaits ==
  ASSUME ExplorerInv, WaitInv, NEW d \in Division, OtherArchive(d)
  PROVE  WaitInv'
<1>1. /\ UNCHANGED <<calls, sent, current, busy, picked, title, view, loading, submitting,
                     tree, failed, acked>>
      /\ org'.v = org.v + 1
  BY DEF OtherArchive, loader, people, flags
<1>2. HandlesInv'
  BY <1>1 DEF WaitInv, HandlesInv, CallIsOfItsKind, Loads
<1>3. acked \in Nat /\ org.v \in Nat
  BY Versions DEF ExplorerInv
<1>4. AckInv'
  BY <1>1, <1>3 DEF WaitInv, AckInv, Loads
<1>5. WaitsForCalls'
  BY <1>1 DEF WaitInv, WaitsForCalls
<1> QED
  BY <1>2, <1>4, <1>5 DEF WaitInv

\* A call that has been dealt with, and that nothing waits for any more.
LEMMA DropWaits ==
  ASSUME ExplorerInv, WaitInv, NEW c \in calls, calls' = calls \ {c},
         UNCHANGED <<org, sent, picked, title, acked>>, current' \in {current, 0},
         busy' = 0 \/ (busy' = busy /\ view'.kind = view.kind), busy' # c.id,
         view'.load = "loading" => view.load = "loading" /\ c.id # picked,
         loading' \subseteq loading \ {c.op} \/ (loading' = loading /\ ~Loads(c)),
         submitting' = FALSE
           \/ (submitting' = submitting /\ c.op \notin Mutation /\ c.flow = "none"),
         \/ tree' = tree /\ failed' = failed /\ (~Loads(c) \/ c.answer = "aborted")
         \/ tree' = tree /\ failed' = TRUE
         \/ tree' = c.snap /\ Loads(c) /\ c.answer = "ok"
  PROVE  WaitInv'
<1>1. From(calls \ {c})
  BY FromKept
<1>2. \A e \in calls' : e.id # sent + 1
  <2>1. \A e \in calls : e.id \in 1..MaxCalls /\ e.id <= sent /\ sent \in Nat
    BY CallParts DEF ExplorerInv
  <2> QED
    BY <2>1, BoundTypes
<1>3. HandlesInv'
  BY <1>1, <1>2, HandlesKept DEF WaitInv, HandlesInv
<1>4. AckInv'
  <2>1. /\ acked' <= org'.v
        /\ \A e \in calls' : Loads(e) /\ e.answer = "ok" => acked' <= e.snap.v
    BY DEF WaitInv, AckInv, Loads
  <2>2. failed' \/ tree'.v >= acked' \/ \E e \in calls' : Loads(e) /\ e.answer # "aborted"
    <3>1. CASE tree' = tree /\ failed' = failed /\ (~Loads(c) \/ c.answer = "aborted")
      BY <3>1 DEF WaitInv, AckInv, Loads
    <3>2. CASE tree' = c.snap /\ Loads(c) /\ c.answer = "ok"
      <4>1. acked <= c.snap.v /\ acked \in Nat /\ c.snap.v \in Nat
        BY <3>2, CallParts, Versions DEF WaitInv, AckInv, ExplorerInv, Loads
      <4> QED
        BY <3>2, <4>1
    <3> QED
      BY <3>1, <3>2
  <2> QED
    BY <2>1, <2>2 DEF AckInv, Loads
<1>5. WaitsForCalls'
  <2>1. \A op \in loading' : \E e \in calls \ {c} : e.op = op
    <3>1. loading \subseteq {"boot", "refresh"}
      BY DEF ExplorerInv, TypeOK
    <3> QED
      BY <3>1 DEF WaitInv, WaitsForCalls, Loads
  <2>2. submitting' => \E e \in calls \ {c} : e.op \in Mutation \/ e.flow # "none"
    BY DEF WaitInv, WaitsForCalls
  <2>3. busy' # 0 => \E e \in calls \ {c} : e.id = busy'
    BY DEF WaitInv, WaitsForCalls
  <2>4. view'.load = "loading" => \E e \in calls \ {c} : e.id = picked'
    BY DEF WaitInv, WaitsForCalls
  <2> QED
    BY <1>1, <2>1, <2>2, <2>3, <2>4, WaitsKept
<1> QED
  BY <1>3, <1>4, <1>5 DEF WaitInv

\* The continuation of a load clears what its handler has set.
LEMMA ContinueWaits ==
  ASSUME ExplorerInv, WaitInv, NEW c \in calls, Loads(c), Continue(c)
  PROVE  /\ busy' = 0 \/ (busy' = busy /\ view'.kind = view.kind)
         /\ busy' # c.id
         /\ view'.load = "loading" => view.load = "loading" /\ c.id # picked
         /\ submitting' = FALSE \/ (submitting' = submitting /\ c.flow = "none")
<1>1. view \in View /\ CallIsOfItsKind(c) /\ c.id # 0
  BY CallParts DEF ExplorerInv, PanelOf, WaitInv, HandlesInv
<1>2. c.id # busy /\ c.id # picked
  BY <1>1 DEF CallIsOfItsKind, Loads
<1>3. view'.load \in {view.load, "idle"}
  BY <1>1, ReducerLoad DEF Continue, Show
<1> QED
  BY <1>1, <1>2, <1>3 DEF Continue, Show

\* The answers keep the page in order.
LEMMA ReceiveWaits ==
  ASSUME ExplorerInv, WaitInv, NEW c \in calls, Receive(c)
  PROVE  WaitInv'
<1>1. /\ view \in View /\ CallIsOfItsKind(c) /\ CallIsAbout(c) /\ c.id # 0
      /\ (c.answer = "aborted" \/ c.flow # "none" => Loads(c))
      /\ (c.id = busy => c.op \in {"position", "membership"})
      /\ (c.id = picked => c.op = "members")
      /\ (busy # 0 => view.kind \in {"position.create", "membership.create"})
  BY CallParts DEF ExplorerInv, PanelOf, WaitInv, HandlesInv, CallIsOfItsKind
<1> USE DEF server, loader, people, flags
<1>2. CASE TreeLoaded(c) \/ TreeFailed(c) \/ TreeAborted(c)
  <2>1. Loads(c) /\ Continue(c) /\ c.op \notin Mutation
    BY <1>1, <1>2 DEF TreeLoaded, TreeFailed, TreeAborted, Loads, Mutation
  <2>2. /\ busy' = 0 \/ (busy' = busy /\ view'.kind = view.kind)
        /\ busy' # c.id
        /\ view'.load = "loading" => view.load = "loading" /\ c.id # picked
        /\ submitting' = FALSE \/ (submitting' = submitting /\ c.flow = "none")
    BY <2>1, ContinueWaits
  <2>3. /\ calls' = calls \ {c} /\ loading' = loading \ {c.op} /\ current' \in {current, 0}
        /\ UNCHANGED <<org, sent, picked, title, acked>>
    BY <1>2 DEF TreeLoaded, TreeFailed, TreeAborted
  <2>4. \/ tree' = tree /\ failed' = failed /\ (~Loads(c) \/ c.answer = "aborted")
        \/ tree' = tree /\ failed' = TRUE
        \/ tree' = c.snap /\ Loads(c) /\ c.answer = "ok"
    BY <1>2, <2>1 DEF TreeLoaded, TreeFailed, TreeAborted
  <2> QED
    BY <2>1, <2>2, <2>3, <2>4, DropWaits
<1>3. CASE MutationOk(c)
  <2>1. /\ LoadTree("refresh", After(c), c.op, calls \ {c}) /\ c.op \in Mutation
        /\ UNCHANGED <<org, view, busy, people, submitting>> /\ acked' = c.snap.v
    BY <1>3 DEF MutationOk
  <2>2. After(c) \in Maybe
    BY <1>1, <2>1, DataTypes DEF After, CallIsAbout, Node, Maybe
  <2>3. acked' <= org.v
    BY <2>1 DEF ExplorerInv, TreeIsBehind
  <2>4. c.op # "none"
    BY <2>1 DEF Mutation
  <2> QED
    BY <2>1, <2>2, <2>3, <2>4, LoadWaits
<1>4. CASE SaveForbidden(c) \/ SaveFailed(c)
  <2>1. /\ ~Loads(c) /\ c.id # busy /\ c.id # picked
        /\ calls' = calls \ {c} /\ submitting' = FALSE
        /\ UNCHANGED <<org, sent, picked, title, acked, current, loading, tree, failed>>
    BY <1>1, <1>4 DEF SaveForbidden, SaveFailed, Loads
  <2>2. busy' = 0 \/ (busy' = busy /\ view'.kind = view.kind)
    BY <1>4 DEF SaveForbidden, SaveFailed, Show
  <2>3. view'.load \in {view.load, "idle"}
    BY <1>1, <1>4, ReducerLoad DEF SaveForbidden, SaveFailed, Show
  <2> QED
    BY <1>1, <2>1, <2>2, <2>3, DropWaits
<1>5. CASE ArchiveRefused(c)
  <2>1. /\ ~Loads(c) /\ c.id # busy /\ c.id # picked
        /\ calls' = calls \ {c} /\ submitting' = FALSE
        /\ UNCHANGED <<org, sent, picked, title, acked, current, loading, tree, busy, view>>
    BY <1>1, <1>5 DEF ArchiveRefused, Loads
  <2>2. failed' = failed \/ failed' = TRUE
    BY <1>5 DEF ArchiveRefused, ExplorerInv, TypeOK
  <2> QED
    BY <2>1, <2>2, DropWaits
<1>6. CASE MembersAnswered(c)
  <2>1. /\ ~Loads(c) /\ c.id # busy /\ c.op \notin Mutation /\ c.flow = "none"
        /\ calls' = calls \ {c}
        /\ UNCHANGED <<org, sent, picked, title, acked, current, loading, tree, failed,
                       busy, submitting>>
    BY <1>1, <1>6 DEF MembersAnswered, Loads, Mutation
  <2>2. /\ view'.kind = view.kind
        /\ view'.load = "loading" => view.load = "loading" /\ c.id # picked
    BY <1>1, <1>6 DEF MembersAnswered, LatestPick, MembersTo, View
  <2> QED
    BY <2>1, <2>2, DropWaits
<1>7. CASE FormSaved(c)
  <2>1. /\ ~Loads(c) /\ c.id # picked /\ c.op \notin Mutation /\ c.flow = "none"
        /\ calls' = calls \ {c}
        /\ UNCHANGED <<org, sent, picked, title, acked, current, loading, tree, failed,
                       submitting>>
    BY <1>1, <1>7 DEF FormSaved, Loads, Mutation
  <2>2. /\ busy' = 0 \/ (busy' = busy /\ view'.kind = view.kind)
        /\ view' = SaveSuccess(view, c.on)
    BY <1>7 DEF FormSaved, Show
  <2>3. view'.load \in {view.load, "idle"}
    BY <1>1, <2>2, ReducerLoad
  <2>4. busy' # c.id
    <3>1. view.kind \in Forms => view'.kind = "division.view"
      BY <1>1, <2>2 DEF SaveSuccess, View
    <3>2. busy' = c.id => busy = c.id /\ view.kind \in Forms /\ view'.kind \in Forms
      BY <1>1, <2>2 DEF Forms
    <3> QED
      BY <3>1, <3>2 DEF Forms
  <2> QED
    BY <2>1, <2>2, <2>3, <2>4, DropWaits
<1>8. CASE FormRefused(c)
  <2>1. /\ ~Loads(c) /\ c.id # picked /\ c.op \notin Mutation /\ c.flow = "none"
        /\ calls' = calls \ {c}
        /\ UNCHANGED <<org, sent, picked, title, acked, current, loading, tree, failed,
                       submitting, view>>
        /\ busy' = (IF busy = c.id THEN 0 ELSE busy)
    BY <1>1, <1>8 DEF FormRefused, Loads, Mutation
  <2> QED
    BY <1>1, <2>1, DropWaits
<1> QED
  BY <1>2, <1>3, <1>4, <1>5, <1>6, <1>7, <1>8 DEF Receive

\* The members on the screen are those of the position named, in every step.
LEMMA MembersStep ==
  ASSUME HandlesInv, MembersOfNamedPosition, Next
  PROVE  MembersOfNamedPosition'
<1>1. ASSUME members' \in {members, None}, title' \in {title, None}
      PROVE  MembersOfNamedPosition'
  BY <1>1 DEF MembersOfNamedPosition
<1> USE DEF people, loader
<1>2. CASE User
  <2>1. ASSUME NEW p \in Position, PickPosition(p) PROVE MembersOfNamedPosition'
    BY <2>1 DEF PickPosition, MembersOfNamedPosition
  <2>2. (\E p \in Position : PickPosition(p))
          \/ (members' \in {members, None} /\ title' \in {title, None})
    BY <1>2 DEF User, Retry, RefreshButton, Escape, EditButton, CreateButton, CancelForm,
       TreeNodeSelect, SubmitCreate, StartMembership, StartPosition, SubmitPosition,
       SubmitMembership, SubmitEdit, SubmitEditOfNothing, ArchiveButton, CancelArchive,
       ConfirmArchive
  <2> QED
    BY <1>1, <2>1, <2>2
<1>3. ASSUME NEW c \in calls, Receive(c) PROVE MembersOfNamedPosition'
  <2>1. CASE MembersAnswered(c)
    <3>1. c.id = picked => title \in {None, c.on}
      BY DEF HandlesInv, CallIsOfItsKind
    <3> QED
      BY <2>1, <3>1 DEF MembersAnswered, LatestPick, MembersOfNamedPosition
  <2> QED
    BY <1>1, <1>3, <2>1
    DEF Receive, TreeLoaded, TreeFailed, TreeAborted, MutationOk, SaveForbidden, SaveFailed,
        ArchiveRefused, FormSaved, FormRefused
<1>4. ASSUME NEW c \in calls, Serve(c) PROVE MembersOfNamedPosition'
  BY <1>1, <1>4 DEF Serve, ServeTree, ServeCreate, ServeEdit, ServeArchive, Change,
     ServeOther, Refuse
<1> QED
  BY <1>1, <1>2, <1>3, <1>4 DEF Next, SelectPending, OtherArchive

\* At the start the first load is waited for.
LEMMA InitPage == Init => PageInv
<1> SUFFICES ASSUME Init PROVE PageInv
  OBVIOUS
<1>1. /\ \A c \in calls : c.id = 1 /\ c.op = "boot" /\ c.answer = "none" /\ c.flow = "none"
      /\ calls # {} /\ sent = 1 /\ current = 1 /\ busy = 0 /\ picked = 0 /\ acked = 0
      /\ org.v = 1 /\ tree.v = 0 /\ loading = {"boot"} /\ submitting = FALSE
      /\ view.load = "idle" /\ members = None
  BY DEF Init, NoTree
<1>2. HandlesInv
  BY <1>1 DEF HandlesInv, CallIsOfItsKind, Loads
<1>3. AckInv /\ MembersOfNamedPosition
  BY <1>1 DEF AckInv, MembersOfNamedPosition
<1>4. WaitsForCalls
  BY <1>1 DEF WaitsForCalls
<1> QED
  BY <1>2, <1>3, <1>4, InitExplorer DEF PageInv

\* No step leaves anything waiting for nothing.
LEMMA PageStep == PageInv /\ [Next]_vars => PageInv'
<1>1. ASSUME PageInv, Next PROVE PageInv'
  <2>1. ExplorerInv /\ WaitInv /\ MembersOfNamedPosition
    BY <1>1 DEF PageInv, WaitInv
  <2>2. ExplorerInv' /\ Grows
    BY <1>1, <2>1, ExplorerStep, CallsStep
  <2>3. WaitInv'
    BY <1>1, <2>1, <2>2, UserWaits, ServeWaits, OtherWaits, ReceiveWaits, ClickStep DEF Next
  <2>4. MembersOfNamedPosition'
    BY <1>1, <2>1, MembersStep DEF WaitInv
  <2> QED
    BY <2>2, <2>3, <2>4 DEF PageInv, WaitInv
<1>2. ASSUME PageInv, UNCHANGED vars PROVE PageInv'
  <2>1. ExplorerInv'
    BY <1>2, ExplorerStep DEF PageInv
  <2>2. HandlesInv' /\ AckInv'
    BY <1>2 DEF vars, PageInv, HandlesInv, CallIsOfItsKind, AckInv, Loads
  <2>3. MembersOfNamedPosition' /\ WaitsForCalls'
    BY <1>2 DEF vars, PageInv, MembersOfNamedPosition, WaitsForCalls
  <2> QED
    BY <2>1, <2>2, <2>3 DEF PageInv
<1> QED
  BY <1>1, <1>2

\* The members on the screen are those of the position named above them.
THEOREM MembersHold == Spec => []MembersOfNamedPosition
<1>1. PageInv => MembersOfNamedPosition
  BY DEF PageInv
<1> QED
  BY InitPage, PageStep, <1>1, PTL DEF Spec

\* With nothing under way and no load failed, the tree shows every change the
\* page was told has been made.
THEOREM OwnChangesHold == Spec => []TreeShowsOwnChanges
<1>1. PageInv => TreeShowsOwnChanges
  BY DEF PageInv, AckInv, TreeShowsOwnChanges, Loads
<1> QED
  BY InitPage, PageStep, <1>1, PTL DEF Spec

\* No flag, button or skeleton waits for a call that is not under way.
THEOREM WaitsHold == Spec => []WaitsForCalls
<1>1. PageInv => WaitsForCalls
  BY DEF PageInv
<1> QED
  BY InitPage, PageStep, <1>1, PTL DEF Spec

================================================================================
