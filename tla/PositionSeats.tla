----------------------------- MODULE PositionSeats -----------------------------
(***************************************************************************)
(* What the personnel store promises its clients about positions, whatever *)
(* requests run at the same time and wherever they fail: one committed     *)
(* assignment adds one member to an open position with a free seat, and    *)
(* every other commit only takes members away or archives positions, which *)
(* stay archived.                                                          *)
(***************************************************************************)
EXTENDS Integers, FiniteSets

CONSTANTS User, Position, Limit, InitialMembers

VARIABLES members, archived

seats == <<members, archived>>

HoldersOf(p) == {u \in User : <<u, p>> \in members}

\* Position.CanAssign on the state the assignment is committed to.
CanAssign(p) ==
  /\ p \notin archived
  /\ Limit[p] = 0 \/ Cardinality(HoldersOf(p)) < Limit[p]

Init == members = InitialMembers /\ archived = {}

Assign(u, p) ==
  /\ <<u, p>> \notin members
  /\ CanAssign(p)
  /\ members' = members \cup {<<u, p>>}
  /\ UNCHANGED archived

Withdraw ==
  /\ members' \subseteq members
  /\ archived \subseteq archived'
  /\ archived' \subseteq Position

Next == (\E u \in User, p \in Position : Assign(u, p)) \/ Withdraw

Spec == Init /\ [][Next]_seats

=============================================================================
