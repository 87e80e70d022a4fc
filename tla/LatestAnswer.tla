----------------------------- MODULE LatestAnswer -----------------------------
(***************************************************************************)
(* What parts of the frontend that load details promise: something is      *)
(* asked for in each of them, it may be something else at any time, and    *)
(* what comes on the screen is what is asked for just then.  An answer     *)
(* that has been overtaken is never shown.                                 *)
(***************************************************************************)

CONSTANTS
  Slot,    \* places on the screen
  Thing,   \* what may be shown in them
  Nothing  \* nothing is asked for, or shown

VARIABLES
  asked,  \* what each place is to show
  shown   \* what it shows

TypeOK == asked \in [Slot -> Thing \cup {Nothing}] /\ shown \in [Slot -> Thing \cup {Nothing}]

Init ==
  /\ asked \in [Slot -> Thing \cup {Nothing}]
  /\ shown = [k \in Slot |-> Nothing]

\* Other things are asked for; what is there may stay for the time being.
Ask ==
  /\ asked' \in [Slot -> Thing \cup {Nothing}]
  /\ \A k \in Slot : shown'[k] \in {shown[k], Nothing}

\* An answer.
Show(k) == shown' = [shown EXCEPT ![k] = asked[k]] /\ UNCHANGED asked

Next == Ask \/ \E k \in Slot : Show(k)

Spec == Init /\ [][Next]_<<asked, shown>>

=============================================================================
