----------------------------- MODULE TreeViewport -----------------------------
(***************************************************************************)
(* The drawing of the division tree.  A layout is computed in the           *)
(* background for the shape of the tree (identifiers, parents, depths), and *)
(* its graph is drawn with what the latest nodes say of each identifier.   *)
(* The first view of a graph is fitted to the screen once.                 *)
(*                                                                         *)
(* While the explorer refreshes, the viewport is wrapped in other elements: *)
(* it is unmounted and mounted again at both ends of a refresh.            *)
(***************************************************************************)
EXTENDS Integers

CONSTANTS
  Shape,      \* shapes a tree may have
  None,       \* null
  MaxLayouts  \* bound: layouts under way at one time

VARIABLE s  \* the state of DivisionTreeViewport and InitialTreeFit

\* graph: the shape it draws.  fallback: it is the one without a layout.  fit:
\* hasFitOnLoad.  frame: an animation frame is asked for.  moved is history:
\* the viewport has been moved by the user since it was mounted.
State == [shape : Shape, refreshing : BOOLEAN, graph : Shape \cup {None},
          fallback : BOOLEAN, fit : BOOLEAN, frame : BOOLEAN, moved : BOOLEAN,
          fits : 0..2,
          calls : SUBSET [id : 1..MaxLayouts, shape : Shape, cancelled : BOOLEAN]]

TypeOK == s \in State

-----------------------------------------------------------------------------

Free(C) == {n \in 1..MaxLayouts : \A c \in C : c.id # n}

\* The effect on the layout: the one under way is cancelled, another begins.
Lay(C, shape) ==
  LET stopped == {[c EXCEPT !.cancelled = TRUE] : c \in C}
  IN  stopped \cup {[id |-> CHOOSE n \in Free(C) : \A m \in Free(C) : n <= m,
                     shape |-> shape, cancelled |-> FALSE]}

Mounted(shape, refreshing, C) ==
  [shape |-> shape, refreshing |-> refreshing, graph |-> None, fallback |-> FALSE,
   fit |-> FALSE, frame |-> FALSE, moved |-> FALSE, fits |-> 0, calls |-> Lay(C, shape)]

Init == \E shape \in Shape : s = Mounted(shape, FALSE, {})

\* A refresh begins or ends, with another tree perhaps: everything is new.
Remount(shape) == Free(s.calls) # {} /\ s' = Mounted(shape, ~s.refreshing, s.calls)

\* The tree changes outside of a refresh, or after one that was aborted.  The
\* effect of the fit runs again: its frame is cancelled, and as it has marked
\* the view as fitted no other is asked for.
Reshape(shape) ==
  /\ shape # s.shape /\ Free(s.calls) # {}
  /\ s' = [s EXCEPT !.shape = shape, !.calls = Lay(@, shape), !.frame = FALSE]

\* Mutant: every graph is fitted.
FitEveryGraph(t) == IF t.refreshing THEN t ELSE [t EXCEPT !.fit = TRUE, !.frame = TRUE]

\* The effect of the fit after a graph is drawn.
FitOnce(t) ==
  IF t.refreshing \/ t.fit THEN t ELSE [t EXCEPT !.fit = TRUE, !.frame = TRUE]

Draw(c, fallback) ==
  /\ ~c.cancelled
  /\ s' = FitOnce([s EXCEPT !.graph = c.shape, !.fallback = fallback, !.calls = @ \ {c}])

Laid(c) == Draw(c, FALSE)

LayoutFailed(c) == Draw(c, TRUE)

Dropped(c) == c.cancelled /\ s' = [s EXCEPT !.calls = @ \ {c}]

\* fitView and setViewport.
Frame == s.frame /\ s' = [s EXCEPT !.frame = FALSE, !.fits = IF @ < 2 THEN @ + 1 ELSE @]

\* Panning and zooming.
Move == s.graph # None /\ ~s.refreshing /\ ~s.moved /\ s' = [s EXCEPT !.moved = TRUE]

Next ==
  \/ \E shape \in Shape : Remount(shape) \/ Reshape(shape)
  \/ \E c \in s.calls : Laid(c) \/ LayoutFailed(c) \/ Dropped(c)
  \/ Frame \/ Move

-----------------------------------------------------------------------------
(* Properties.                                                              *)

\* When no layout is under way, the tree drawn is the tree there is: an
\* earlier layout that ends late is dropped.
DrawsTheTree == s.calls = {} => s.graph = s.shape

\* The view is fitted once at most while the viewport is mounted, however the
\* tree changes: it is never taken away from a user who has moved it twice.
FittedOnce == s.fits <= 1

=============================================================================
