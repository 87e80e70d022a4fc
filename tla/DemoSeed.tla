------------------------------ MODULE DemoSeed ------------------------------
(***************************************************************************)
(* The script that fills a database for a demonstration                    *)
(* (src/scripts/seed/demo-seed.ts): a bootstrap in SQL, then one call of   *)
(* the HTTP API after the other.  It stops at the first call that fails,   *)
(* and is simply run again: every "ensure" first looks for what an earlier *)
(* run has left.  A run can be cut off between any two steps, and the call *)
(* it was waiting for may be lost, served without an answer, or still be   *)
(* on its way and served during a later run.  Runs do not overlap          *)
(* otherwise.  Divisions, positions and memberships are rows; the index of *)
(* a division or a position is its id.                                     *)
(***************************************************************************)
EXTENDS Integers, Sequences, FiniteSets, Functions

CONSTANTS
    Roles,        \* the roles of the script, in order; the first is the
                  \* one the bootstrap creates too
    Divisions,    \* its divisions, in order: [name, parent]
    People,       \* its people, in order
    Assignments,  \* its assignments, in order: [person, division, title]
    Root, Temp,   \* the root division; the temporary group and its position
    Admin,        \* the demo administrator
    Nothing,
    MaxRuns       \* bound on the runs of the script

\* The lists of the script, with every parent before its children.
ASSUME ScriptAssumption ==
    /\ MaxRuns \in Nat \ {0}
    /\ Roles \in Seq(Range(Roles)) /\ Divisions \in Seq(Range(Divisions))
    /\ People \in Seq(Range(People)) /\ Assignments \in Seq(Range(Assignments))
    /\ Len(Roles) > 0 /\ Len(Divisions) > 0
    /\ Len(People) > 0 /\ Len(Assignments) > 0
    /\ \A i \in DOMAIN Divisions :
          \/ Divisions[i].parent = Root
          \/ \E j \in 1..(i - 1) : Divisions[j].name = Divisions[i].parent
    /\ \A i \in DOMAIN Assignments :
          /\ Assignments[i].person \in Range(People)
          /\ \/ Assignments[i].division = Root
             \/ \E j \in DOMAIN Divisions : Divisions[j].name = Assignments[i].division

\* The temporary group has names of its own, and a position of the script is
\* for one person.
ASSUME NamesAreApart ==
    /\ Temp # Root
    /\ \A i \in DOMAIN Divisions : Divisions[i].name # Temp
    /\ \A i \in DOMAIN Assignments : Assignments[i].title # Temp
    /\ \A i, j \in DOMAIN Assignments :
          /\ Assignments[i].division = Assignments[j].division
          /\ Assignments[i].title = Assignments[j].title
          => Assignments[i].person = Assignments[j].person

VARIABLES
    db,         \* the tables
    script,     \* where the run is, and what it has remembered
    call,       \* the call it waits for: sent, or answered
    abandoned,  \* calls that were under way when a run was cut off, in order
    late,       \* indices of those still to be served
    disturbed   \* a late call was served during this run

vars == <<db, script, call, abandoned, late, disturbed>>
-----------------------------------------------------------------------------
Keys == {Root, Temp} \cup {Divisions[i].name : i \in DOMAIN Divisions}
Titles == {Temp} \cup {Assignments[i].title : i \in DOMAIN Assignments}

\* A request of the API: what it does, the name it carries, and the ids it
\* refers to.
Request(op, name, in) == [op |-> op, name |-> name, in |-> in]

\* An answer says how it went, which row it is about, and whether that row is
\* as the script wants it.
Answers == {"done", "conflict", "full"}
Idle == [state |-> "idle", req |-> Nothing, answer |-> "done", id |-> 0, same |-> TRUE]
Sent(req) == [Idle EXCEPT !.state = "sent", !.req = req]

NoIds == [k \in Keys |-> 0]
Start0 == [pc |-> "stopped", n |-> 1, ids |-> NoIds, pos |-> 0, runs |-> 0,
           complete |-> 0]

\* A fresh database, or one with an organisation in which a division has the
\* name of one of the script's and other texts, and a role one of its names and
\* other permissions.
Init ==
    /\ \E ds \in {<< >>,
                  << [name |-> Root, parent |-> 0, texts |-> "other", archived |-> FALSE],
                     [name |-> Divisions[1].name, parent |-> 1,
                      texts |-> "other", archived |-> FALSE] >>} :
          db = [roles |-> IF ds = << >> THEN {} ELSE {Roles[Len(Roles)]},
                granted |-> {}, users |-> {},
                divisions |-> ds, positions |-> << >>, members |-> {}]
    /\ script = Start0 /\ call = Idle
    /\ abandoned = << >> /\ late = {} /\ disturbed = FALSE
-----------------------------------------------------------------------------
(* The API and the database.                                               *)

\* The one SQL statement of the bootstrap: admin, root, first role with the
\* permissions the script has for it, whatever they were, a position and the
\* admin's membership.
Bootstrap ==
    /\ script.pc = "bootstrap"
    /\ db' = [db EXCEPT
          !.users = @ \cup {Admin}, !.roles = @ \cup {Roles[1]},
          !.granted = @ \cup {Roles[1]},
          !.divisions = IF @ = << >>
                        THEN << [name |-> Root, parent |-> 0,
                                 texts |-> "script", archived |-> FALSE] >>
                        ELSE @]
    /\ script' = [script EXCEPT !.pc = "patch_root", !.ids[Root] = 1]
    /\ call' = Sent(Request("edit_division", Root, 1))
    /\ UNCHANGED <<abandoned, late, disturbed>>

Vacant(p) == \A u \in db.users : <<u, p>> \notin db.members

\* How a request changes the tables.  Names of roles and logins are unique;
\* short names of divisions and titles of positions are not.
Effect(req) ==
    CASE req.op = "create_role" -> [db EXCEPT !.roles = @ \cup {req.name},
                                              !.granted = @ \cup ({req.name} \ db.roles)]
      [] req.op = "edit_role" -> [db EXCEPT !.granted = @ \cup {req.name}]
      [] req.op = "create_division" -> [db EXCEPT !.divisions =
             Append(@, [name |-> req.name, parent |-> req.in,
                        texts |-> "script", archived |-> FALSE])]
      [] req.op = "edit_division" -> [db EXCEPT !.divisions[req.in].texts = "script"]
      [] req.op = "archive_division" -> [db EXCEPT !.divisions[req.in].archived = TRUE]
      [] req.op = "register" -> [db EXCEPT !.users = @ \cup {req.name}]
      [] req.op = "create_position" -> [db EXCEPT !.positions =
             Append(@, [title |-> req.name, division |-> req.in, archived |-> FALSE])]
      [] req.op = "assign" /\ Vacant(req.in) ->
             [db EXCEPT !.members = @ \cup {<<req.name, req.in>>}]
      [] req.op = "archive_position" ->
             [db EXCEPT !.positions[req.in].archived = TRUE,
                        !.members = {m \in @ : m[2] # req.in}]
      [] OTHER -> db

\* How it is answered: with a conflict what is there already, as unprocessable
\* a membership of a position another one has.
Taken(req) ==
    CASE req.op = "create_role" -> req.name \in db.roles
      [] req.op = "register" -> req.name \in db.users
      [] req.op = "assign" -> <<req.name, req.in>> \in db.members
      [] OTHER -> FALSE
AnswerTo(req) ==
    CASE Taken(req) -> "conflict"
      [] req.op = "assign" /\ ~Vacant(req.in) /\ ~Taken(req) -> "full"
      [] OTHER -> "done"

\* A variant for a tree read to the depth of one.
DivisionsAtTheTop(name, in) ==
    {i \in DOMAIN db.divisions :
        /\ db.divisions[i].name = name
        /\ in = 1 /\ db.divisions[i].parent = in
        /\ ~db.divisions[i].archived}

\* The unarchived divisions of a name below a parent, in a tree of any depth.
DivisionsNamed(name, in) ==
    {i \in DOMAIN db.divisions :
        /\ db.divisions[i].name = name
        /\ db.divisions[i].parent = in
        /\ ~db.divisions[i].archived}

\* The ids a read or a create can answer with; find takes the first match of
\* a list, whatever its order.
Ids(req) ==
    LET Match ==
        CASE req.op = "tree" -> DivisionsNamed(req.name, req.in)
          [] req.op = "positions" -> {i \in DOMAIN db.positions :
                 /\ db.positions[i].title = req.name
                 /\ db.positions[i].division = req.in
                 /\ ~db.positions[i].archived}
          [] req.op = "roles" -> {1 : r \in db.roles \cap {req.name}}
          [] req.op = "create_division" -> {Len(db.divisions) + 1}
          [] req.op = "create_position" -> {Len(db.positions) + 1}
          [] OTHER -> {}
    IN  IF Match = {} THEN {0} ELSE Match

AsInScript(req, id) ==
    CASE req.op = "roles" -> req.name \in db.granted
      [] req.op = "tree" /\ id # 0 -> db.divisions[id].texts = "script"
      [] OTHER -> TRUE

Serve ==
    /\ call.state = "sent"
    /\ \E id \in Ids(call.req) :
          call' = [state |-> "answered", req |-> call.req, id |-> id,
                   answer |-> AnswerTo(call.req),
                   same |-> AsInScript(call.req, id)]
    /\ db' = Effect(call.req)
    /\ UNCHANGED <<script, abandoned, late, disturbed>>

ServeLate ==
    \E i \in late :
        /\ db' = Effect(abandoned[i])
        /\ late' = late \ {i}
        /\ disturbed' = (disturbed \/ script.pc \notin {"stopped", "refused", "done"})
        /\ UNCHANGED <<script, call, abandoned>>
-----------------------------------------------------------------------------
(* The script.                                                             *)

Run ==
    /\ script.pc \in {"stopped", "refused", "done"}
    /\ script.runs < MaxRuns
    /\ script' = [Start0 EXCEPT !.pc = "bootstrap", !.runs = script.runs + 1,
                              !.complete = script.complete]
    /\ disturbed' = FALSE
    /\ UNCHANGED <<db, call, abandoned, late>>

\* The run is cut off, or its call fails on the way: it was never served, or
\* is still on its way, or its answer is lost.
CutOff ==
    /\ script.pc \notin {"stopped", "refused", "done"}
    /\ script' = [script EXCEPT !.pc = "stopped"]
    /\ call' = Idle
    /\ \/ UNCHANGED <<abandoned, late>>
       \/ /\ call.state = "sent"
          /\ abandoned' = Append(abandoned, call.req)
          /\ late' = late \cup {Len(abandoned) + 1}
    /\ UNCHANGED <<db, disturbed>>

\* One answer has come: the run goes on at pc with the next call.
GoOn(from, pc, n, ids, pos, req) ==
    /\ script.pc = from /\ call.state = "answered" /\ call.answer = "done"
    /\ script' = [script EXCEPT !.pc = pc, !.n = n, !.ids = ids, !.pos = pos]
    /\ call' = Sent(req)
    /\ UNCHANGED <<db, abandoned, late, disturbed>>

\* A variant that allows a conflict for a user only.
RefusedIfMember ==
    /\ call.answer # "done" /\ call.req.op # "register"
    /\ script' = [script EXCEPT !.pc = "refused"]
    /\ call' = Idle
    /\ UNCHANGED <<db, abandoned, late, disturbed>>

\* request throws at a conflict; requestAllowing takes it for a user and for a
\* membership that are there.
Refused ==
    /\ call.state = "answered"
    /\ \/ call.answer = "full"
       \/ call.answer = "conflict" /\ call.req.op \notin {"register", "assign"}
    /\ script' = [script EXCEPT !.pc = "refused"]
    /\ call' = Idle
    /\ UNCHANGED <<db, abandoned, late, disturbed>>

ListRoles(n) == Request("roles", Roles[n], 0)
ReadTree(n, ids) == Request("tree", Divisions[n].name, ids[Divisions[n].parent])
Register(n) == Request("register", People[n], 0)
ListPositions(n, ids) ==
    Request("positions", Assignments[n].title, ids[Assignments[n].division])

PatchRoot ==
    GoOn("patch_root", "roles", 1, script.ids, 0, ListRoles(1))

\* ensureRole: create it, or edit it where its permissions are others.
EnsureRole ==
    LET r == Roles[script.n]
        op == IF call.id = 0 THEN "create_role" ELSE "edit_role"
    IN  /\ call.id = 0 \/ ~call.same
        /\ GoOn("roles", "role", script.n, script.ids, 0, Request(op, r, 0))

RoleEnsured ==
    /\ \/ script.pc = "role"
       \/ call.id # 0 /\ call.same
    /\ \E from \in {"roles", "role"} :
          IF script.n < Len(Roles)
          THEN GoOn(from, "roles", script.n + 1, script.ids, 0, ListRoles(script.n + 1))
          ELSE GoOn(from, "tree", 1, script.ids, 0, ReadTree(1, script.ids))

\* ensureDivision: create it, or edit it where its texts are others.
EnsureDivision ==
    LET d == Divisions[script.n]
    IN  \/ /\ call.id = 0
           /\ GoOn("tree", "division", script.n, script.ids, 0,
                   Request("create_division", d.name, script.ids[d.parent]))
        \/ /\ call.id # 0 /\ ~call.same
           /\ GoOn("tree", "division", script.n,
                   [script.ids EXCEPT ![d.name] = call.id], 0,
                   Request("edit_division", d.name, call.id))

\* A variant that does not keep the id of what it has created.
DivisionEnsuredUnrecorded ==
    LET ids == IF script.pc = "division" THEN script.ids
               ELSE [script.ids EXCEPT ![Divisions[script.n].name] = call.id]
    IN  /\ \/ script.pc = "division"
           \/ call.id # 0 /\ call.same
        /\ \E from \in {"tree", "division"} :
              IF script.n < Len(Divisions)
              THEN GoOn(from, "tree", script.n + 1, ids, 0, ReadTree(script.n + 1, ids))
              ELSE GoOn(from, "register", 1, ids, 0, Register(1))

DivisionEnsured ==
    LET ids == [script.ids EXCEPT ![Divisions[script.n].name] =
                    IF call.id = 0 THEN @ ELSE call.id]
    IN  /\ \/ script.pc = "division"
           \/ call.id # 0 /\ call.same
        /\ \E from \in {"tree", "division"} :
              IF script.n < Len(Divisions)
              THEN GoOn(from, "tree", script.n + 1, ids, 0, ReadTree(script.n + 1, ids))
              ELSE GoOn(from, "register", 1, ids, 0, Register(1))

\* ensureUser: a login that is taken is that of an earlier run; it is
\* searched for.
EnsureUser ==
    /\ script.pc = "register" /\ call.answer = "conflict"
    /\ script' = [script EXCEPT !.pc = "find_user"]
    /\ call' = Sent(Request("search", People[script.n], 0))
    /\ UNCHANGED <<db, abandoned, late, disturbed>>

UserEnsured ==
    \E from \in {"register", "find_user"} :
        IF script.n < Len(People)
        THEN GoOn(from, "register", script.n + 1, script.ids, 0, Register(script.n + 1))
        ELSE GoOn(from, "positions", 1, script.ids, 0, ListPositions(1, script.ids))

Assign(n, pos) == Request("assign", Assignments[n].person, pos)

\* A variant that takes a position that is there for one that is filled.
PositionFoundSkipped(n) ==
    IF n < Len(Assignments)
    THEN GoOn("positions", "positions", n + 1, script.ids, 0,
              ListPositions(n + 1, script.ids))
    ELSE GoOn("positions", "temp_division", 1, script.ids, 0,
              Request("create_division", Temp, script.ids[Divisions[1].name]))
EnsureMembershipOfNew ==
    /\ call.id # 0
    /\ \/ GoOn("position", "member", script.n, script.ids, call.id,
               Assign(script.n, call.id))
       \/ PositionFoundSkipped(script.n)

\* ensurePosition, then ensureMembership at the position found or created.
EnsurePosition ==
    /\ call.id = 0
    /\ GoOn("positions", "position", script.n, script.ids, 0,
            Request("create_position", Assignments[script.n].title,
                    script.ids[Assignments[script.n].division]))

EnsureMembership ==
    /\ call.id # 0
    /\ \E from \in {"positions", "position"} :
          GoOn(from, "member", script.n, script.ids, call.id,
               Assign(script.n, call.id))

\* The member holds the position, by this call or by an earlier run.
Held ==
    /\ call.state = "answered" /\ call.answer \in {"done", "conflict"}
    /\ UNCHANGED <<db, abandoned, late, disturbed>>

MembershipEnsured ==
    /\ script.pc = "member"
    /\ Held
    /\ IF script.n < Len(Assignments)
       THEN /\ script' = [script EXCEPT !.pc = "positions", !.n = @ + 1, !.pos = 0]
            /\ call' = Sent(ListPositions(script.n + 1, script.ids))
       ELSE /\ script' = [script EXCEPT !.pc = "temp_division", !.pos = 0]
            /\ call' = Sent(Request("create_division", Temp,
                                    script.ids[Divisions[1].name]))

\* createArchiveActivity: a temporary group with one position and a member,
\* both archived at the end.  Nothing is looked for.
TempDivision ==
    GoOn("temp_division", "temp_position", 1, [script.ids EXCEPT ![Temp] = call.id],
         0, Request("create_position", Temp, call.id))
TempPosition ==
    GoOn("temp_position", "temp_member", 1, script.ids, call.id,
         Request("assign", Admin, call.id))
TempMember ==
    /\ script.pc = "temp_member"
    /\ Held
    /\ script' = [script EXCEPT !.pc = "temp_archive_position"]
    /\ call' = Sent(Request("archive_position", Temp, script.pos))
\* A variant that leaves the group to be archived with its position.
TempArchivePositionOnly ==
    /\ script.pc = "temp_archive_position" /\ call.state = "answered"
    /\ script' = [script EXCEPT !.pc = "done", !.complete = @ + 1]
    /\ call' = Idle
    /\ UNCHANGED <<db, abandoned, late, disturbed>>
TempArchivePosition ==
    GoOn("temp_archive_position", "temp_archive", 1, script.ids, 0,
         Request("archive_division", Temp, script.ids[Temp]))
TempArchive ==
    /\ script.pc = "temp_archive" /\ call.state = "answered"
    /\ script' = [script EXCEPT !.pc = "done", !.complete = @ + 1]
    /\ call' = Idle
    /\ UNCHANGED <<db, abandoned, late, disturbed>>

Next ==
    \/ Run \/ CutOff \/ Refused \/ Serve \/ ServeLate
    \/ Bootstrap \/ PatchRoot \/ EnsureRole \/ RoleEnsured
    \/ EnsureDivision \/ DivisionEnsured \/ EnsureUser \/ UserEnsured
    \/ EnsurePosition \/ EnsureMembership \/ MembershipEnsured
    \/ TempDivision \/ TempPosition \/ TempMember
    \/ TempArchivePosition \/ TempArchive

Spec == Init /\ [][Next]_vars
-----------------------------------------------------------------------------
(* What the script is for.                                                 *)

\* The tables refer to rows that are there and the divisions make one tree;
\* the run never works with an id it has not been given.
TypeOK ==
    /\ db.granted \subseteq db.roles /\ db.roles \subseteq Range(Roles)
    /\ db.users \subseteq Range(People) \cup {Admin}
    /\ \A i \in DOMAIN db.divisions :
          /\ db.divisions[i].name \in Keys
          /\ db.divisions[i].parent \in (IF i = 1 THEN {0} ELSE 1..(i - 1))
    /\ \A i \in DOMAIN db.positions :
          /\ db.positions[i].title \in Titles
          /\ db.positions[i].division \in DOMAIN db.divisions
    /\ db.members \subseteq db.users \X DOMAIN db.positions
    /\ script.runs \in 0..MaxRuns
    /\ script.pos \in 0..Len(db.positions)
    /\ \A k \in Keys : script.ids[k] \in 0..Len(db.divisions)
    /\ call.answer \in Answers
    /\ late \subseteq DOMAIN abandoned /\ disturbed \in BOOLEAN

\* When a run is complete every assignment of the demonstration is in place:
\* its person holds a position of its title in a division of its name, none
\* of them archived, whatever earlier runs had left half done
\* (main, demo-seed.ts:662).
DemoIsInPlace ==
    script.pc = "done" =>
        \A i \in DOMAIN Assignments : \E p \in DOMAIN db.positions :
            LET a == Assignments[i]  position == db.positions[p]
                division == db.divisions[position.division]
            IN  /\ position.title = a.title /\ ~position.archived
                /\ division.name = a.division /\ ~division.archived
                /\ <<a.person, p>> \in db.members

Creates(op, name, in) ==
    {i \in DOMAIN abandoned : abandoned[i] = Request(op, name, in)}

\* Running the script again makes nothing twice: a division or a position has
\* a second row of its name in its place only where a run was cut off while
\* the call that creates it was under way (ensureDivision, ensurePosition;
\* demo-seed.ts:560 and 615).
TwiceOnlyByLostCalls ==
    /\ \A i \in DOMAIN db.divisions :
          LET d == db.divisions[i]
          IN  d.name # Temp =>
                  Cardinality({j \in DOMAIN db.divisions :
                      db.divisions[j].name = d.name
                      /\ db.divisions[j].parent = d.parent})
                  <= 1 + Cardinality(Creates("create_division", d.name, d.parent))
    /\ \A i \in DOMAIN db.positions :
          LET p == db.positions[i]
          IN  p.title # Temp =>
                  Cardinality({j \in DOMAIN db.positions :
                      db.positions[j].title = p.title
                      /\ db.positions[j].division = p.division})
                  <= 1 + Cardinality(Creates("create_position", p.title, p.division))

\* A temporary group that is still open is that of the run under way or of a
\* run that did not complete (createArchiveActivity, demo-seed.ts:638).
TempsAreClosed ==
    Cardinality({i \in DOMAIN db.divisions :
        db.divisions[i].name = Temp /\ ~db.divisions[i].archived})
      <= script.runs - script.complete
\* Running the script again leaves nothing twice: no rows of one name but those
\* of lost calls, and no more temporary groups than runs cut off.
NothingIsLeftTwice == TwiceOnlyByLostCalls /\ TempsAreClosed

\* What earlier runs have left never stands in the way: the API refuses a call
\* of a run only when a late call of an earlier one was served during it
\* (requestAllowing, demo-seed.ts:455).
RefusedOnlyByLateCalls == script.pc = "refused" => disturbed

=============================================================================
