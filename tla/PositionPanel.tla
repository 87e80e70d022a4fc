----------------------------- MODULE PositionPanel -----------------------------
(***************************************************************************)
(* The positions of the division shown in the explorer, and the profiles   *)
(* of the members of a position under them: PositionListPanel and          *)
(* PositionMembersList.  Both load anew when they are given something else  *)
(* to show, and abort the load that was under way, which is heard of before *)
(* anything else happens: in the finally clause of the first, while the    *)
(* second looks at the signal.                                             *)
(***************************************************************************)
EXTENDS Integers

CONSTANTS
  Division, \* divisions, each with positions
  Position, \* positions, each with members
  None,     \* null
  MaxCalls  \* bound: calls under way at one time

VARIABLE s  \* the state of both components, and what they are given

Call == [id : 1..MaxCalls, op : {"positions"}, of : Division]
          \cup [id : 1..MaxCalls, op : {"profiles"}, of : Position]

\* division: divisionId.  rows: the division the positions are of.  members:
\* the position whose members have been given.  profiles: the position of
\* whose members they are.  abortControllerRef is the call for positions.
State == [division : Division, rows : Division \cup {None}, loading : BOOLEAN,
          error : BOOLEAN, members : Position \cup {None},
          profiles : Position \cup {None}, fetching : BOOLEAN, calls : SUBSET Call]

TypeOK == s \in State

Init ==
  \E d \in Division :
    s = [division |-> d, rows |-> None, loading |-> TRUE, error |-> FALSE,
         members |-> None, profiles |-> None, fetching |-> FALSE,
         calls |-> {[id |-> 1, op |-> "positions", of |-> d]}]

-----------------------------------------------------------------------------

Free == {n \in 1..MaxCalls : \A c \in s.calls : c.id # n}
NewCall(op, of) ==
  [id |-> CHOOSE n \in Free : \A m \in Free : n <= m, op |-> op, of |-> of]

Abort(C, op) == {c \in C : c.op # op}

Running(op) == \E c \in s.calls : c.op = op

\* loadData up to its await.  The finally clause of the load it aborts clears
\* the flag it has just set.
Load(d) ==
  /\ Free # {}
  /\ s' = [s EXCEPT !.division = d, !.loading = ~Running("positions"), !.error = FALSE,
                    !.calls = Abort(@, "positions") \cup {NewCall("positions", d)}]

ShowDivision(d) == d # s.division /\ Load(d)

Retry == s.error /\ Load(s.division)

Loaded(c) ==
  /\ c.op = "positions"
  /\ s' = [s EXCEPT !.rows = c.of, !.loading = FALSE, !.calls = @ \ {c}]

LoadFailed(c) ==
  /\ c.op = "positions"
  /\ s' = [s EXCEPT !.error = TRUE, !.loading = FALSE, !.calls = @ \ {c}]

\* Mutant: the effect has no clean-up.
GiveMembersUncleaned(p) ==
  /\ p # s.members
  /\ p # None => Free # {}
  /\ s' = [s EXCEPT !.members = p, !.profiles = None, !.fetching = p # None,
                    !.calls = @ \cup (IF p = None THEN {} ELSE {NewCall("profiles", p)})]

\* The effect on the members given by the explorer; None: there are none yet.
GiveMembers(p) ==
  /\ p # s.members
  /\ p # None => Free # {}
  /\ s' = [s EXCEPT !.members = p, !.profiles = None, !.fetching = p # None,
                    !.calls = Abort(@, "profiles") \cup
                                (IF p = None THEN {} ELSE {NewCall("profiles", p)})]

\* allSettled: the calls for all members have ended, some perhaps in failure.
ProfilesSettled(c) ==
  /\ c.op = "profiles"
  /\ s' = [s EXCEPT !.profiles = c.of, !.fetching = FALSE, !.calls = @ \ {c}]

Next ==
  \/ \E d \in Division : ShowDivision(d)
  \/ Retry
  \/ \E p \in Position \cup {None} : GiveMembers(p)
  \/ \E c \in s.calls :
       \/ Loaded(c) \/ LoadFailed(c) \/ ProfilesSettled(c)

-----------------------------------------------------------------------------
(* Properties.                                                              *)

\* When nothing is loading and nothing has failed, positions and profiles are
\* those of what is shown, whichever loads were aborted before.
ShowsWhatIsGiven ==
  /\ ~s.error /\ (\A c \in s.calls : c.op # "positions") => s.rows = s.division
  /\ (\A c \in s.calls : c.op # "profiles") => s.profiles = s.members

\* The panel never waits for a load that has ended.
WaitsForCalls ==
  /\ s.loading => \E c \in s.calls : c.op = "positions"
  /\ s.fetching => \E c \in s.calls : c.op = "profiles"

=============================================================================
