-------------------------------- MODULE Toasts --------------------------------
(***************************************************************************)
(* The toasts in the corner of the screen.  A toast goes when its time is   *)
(* up, when it is closed, or when newer ones take its place; the first two  *)
(* let it slide out and remove it with a timer.  Changes are queued, and    *)
(* toastsRef is brought up to date by the effects of the next rendering.   *)
(***************************************************************************)
EXTENDS Integers, FiniteSets

CONSTANTS
  MaxToasts, \* MAX_TOASTS
  MaxShown   \* bound: toasts ever shown

VARIABLE s  \* the state of ToastProvider and its items

Toast == 0..(MaxShown - 1)

\* next: nextIdRef.  toasts, exiting: the toasts, and those that slide out.
\* seen, seenExiting: the same in toastsRef.  timed: those with a timer for
\* their dismissal; leaving: removalTimersRef.
State == [next : 0..MaxShown, toasts : SUBSET Toast, exiting : SUBSET Toast,
          seen : SUBSET Toast, seenExiting : SUBSET Toast,
          timed : SUBSET Toast, leaving : SUBSET Toast]

TypeOK == s \in State

Init ==
  s = [next |-> 0, toasts |-> {}, exiting |-> {}, seen |-> {}, seenExiting |-> {},
       timed |-> {}, leaving |-> {}]

-----------------------------------------------------------------------------

\* The newest ones are kept.
Newest(S) == {t \in S : Cardinality({u \in S : u > t}) < MaxToasts}

ShowToast ==
  /\ s.next < MaxShown
  /\ LET kept == Newest(s.toasts \cup {s.next}) IN
       s' = [s EXCEPT !.next = @ + 1, !.toasts = kept, !.exiting = @ \cap kept]

\* Rendering, and its effects: items set and clear their timers.
Commit ==
  /\ s' = [s EXCEPT !.seen = s.toasts, !.seenExiting = s.exiting,
                    !.timed = (@ \cup (s.toasts \ s.seen)) \cap (s.toasts \ s.exiting)]

\* Mutant: the timer is set before it is known that the toast is to go.
DismissWithoutTimer(t, id) ==
  IF id \notin t.seen \/ id \in t.seenExiting \/ id \in t.leaving THEN t
  ELSE [t EXCEPT !.exiting = @ \cup ({id} \cap t.toasts)]

Dismiss(t, id) ==
  IF id \notin t.seen \/ id \in t.seenExiting \/ id \in t.leaving THEN t
  ELSE [t EXCEPT !.exiting = @ \cup ({id} \cap t.toasts), !.leaving = @ \cup {id}]

TimeIsUp(id) == id \in s.timed /\ s' = Dismiss([s EXCEPT !.timed = @ \ {id}], id)

Close(id) == id \in s.seen /\ s' = Dismiss(s, id)

Remove(id) ==
  /\ id \in s.leaving
  /\ s' = [s EXCEPT !.toasts = @ \ {id}, !.exiting = @ \ {id}, !.leaving = @ \ {id}]

Next ==
  \/ ShowToast \/ Commit
  \/ \E id \in Toast : TimeIsUp(id) \/ Close(id) \/ Remove(id)

-----------------------------------------------------------------------------
(* Properties.                                                              *)

\* A toast on the screen always has a timer that will take it away, whatever
\* closings, timers and newer toasts come between two renderings.
ToastsGo ==
  \A id \in s.toasts : id \in s.leaving \/ (id \notin s.exiting /\ (id \in s.timed \/ id \notin s.seen))

=============================================================================
