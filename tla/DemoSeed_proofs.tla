--------------------------- MODULE DemoSeed_proofs ---------------------------
(***************************************************************************)
(* Theorems about DemoSeed, for any lists of the script and any number of  *)
(* runs, whose calls are lost, served late, or cut off.                    *)
(***************************************************************************)
EXTENDS DemoSeed, FiniteSetTheorems, SequenceTheorems, TLAPS

(***************************************************************************)
(* The tables: rows refer to rows, only what is temporary is archived, and *)
(* a position has no other member than the one the script means for it.    *)

Person == Range(People) \cup {Admin}
Row == [name : Keys, parent : Nat, texts : {"script", "other"}, archived : BOOLEAN]
Seat == [title : Titles, division : Nat, archived : BOOLEAN]
Tables == [roles : SUBSET Range(Roles), granted : SUBSET Range(Roles),
           users : SUBSET Person, divisions : Seq(Row), positions : Seq(Seat),
           members : SUBSET (Person \X Nat)]

\* Position p of the tables d is the one of assignment i.
Fits(d, p, i) ==
  /\ p \in DOMAIN d.positions
  /\ d.positions[p].title = Assignments[i].title
  /\ d.divisions[d.positions[p].division].name = Assignments[i].division

\* The script means position p for u.
Meant(d, u, p) ==
  \/ d.positions[p].title = Temp /\ u = Admin
  \/ \E i \in DOMAIN Assignments : Fits(d, p, i) /\ Assignments[i].person = u

TablesInv(d) ==
  /\ d \in Tables
  /\ d.granted \subseteq d.roles
  /\ d.divisions # << >> => d.divisions[1].name = Root
  /\ \A i \in DOMAIN d.divisions :
        /\ d.divisions[i].parent \in (IF i = 1 THEN {0} ELSE 1..(i - 1))
        /\ d.divisions[i].archived => d.divisions[i].name = Temp
  /\ \A p \in DOMAIN d.positions :
        /\ d.positions[p].division \in DOMAIN d.divisions
        /\ d.positions[p].archived => d.positions[p].title = Temp
  /\ \A u \in Person, p \in Nat :
        <<u, p>> \in d.members => /\ u \in d.users /\ p \in DOMAIN d.positions
                                  /\ Meant(d, u, p)

\* What no request undoes.
Grows(d, e) ==
  /\ d.roles \subseteq e.roles /\ d.users \subseteq e.users
  /\ Len(d.divisions) <= Len(e.divisions)
  /\ \A i \in DOMAIN d.divisions :
        /\ e.divisions[i].name = d.divisions[i].name
        /\ e.divisions[i].parent = d.divisions[i].parent
        /\ d.divisions[i].archived => e.divisions[i].archived
  /\ Len(d.positions) <= Len(e.positions)
  /\ \A p \in DOMAIN d.positions :
        /\ e.positions[p].title = d.positions[p].title
        /\ e.positions[p].division = d.positions[p].division
  /\ \A u \in Person, p \in DOMAIN d.positions :
        <<u, p>> \in d.members /\ d.positions[p].title # Temp => <<u, p>> \in e.members

(***************************************************************************)
(* Requests: all that are ever sent make sense to the server.              *)

Ops == {"roles", "create_role", "edit_role", "tree", "create_division",
        "edit_division", "archive_division", "register", "search", "positions",
        "create_position", "archive_position", "assign"}

Sound(d, req) ==
  /\ req = Request(req.op, req.name, req.in) /\ req.op \in Ops
  /\ req.op \in {"roles", "create_role"} => req.name \in Range(Roles)
  /\ req.op = "edit_role" => req.name \in d.roles
  /\ req.op = "tree" => req.name \in Keys \ {Temp}
  /\ req.op = "positions" => req.name \in Titles \ {Temp}
  /\ req.op = "create_division" => req.name \in Keys /\ req.in \in DOMAIN d.divisions
  /\ req.op = "edit_division" => req.in \in DOMAIN d.divisions
  /\ req.op = "archive_division" =>
        req.in \in DOMAIN d.divisions /\ d.divisions[req.in].name = Temp
  /\ req.op = "register" => req.name \in Range(People)
  /\ req.op = "create_position" => req.name \in Titles /\ req.in \in DOMAIN d.divisions
  /\ req.op = "archive_position" =>
        req.in \in DOMAIN d.positions /\ d.positions[req.in].title = Temp
  /\ req.op = "assign" =>
        /\ req.name \in d.users /\ req.in \in DOMAIN d.positions
        /\ Meant(d, req.name, req.in)

(***************************************************************************)
(* The run: t is the script, c its call.                                   *)

Halted == {"stopped", "refused", "done"}
TempPcs == {"temp_division", "temp_position", "temp_member",
            "temp_archive_position", "temp_archive"}
Pcs == Halted \cup TempPcs \cup
       {"bootstrap", "patch_root", "roles", "role", "tree", "division", "register",
        "find_user", "positions", "position", "member"}

\* What a run remembers is there.
Remembers(d, t) ==
  /\ t \in [pc : Pcs, n : Nat, ids : [Keys -> Nat], pos : Nat, runs : 0..MaxRuns,
            complete : Nat]
  /\ \A k \in Keys : t.ids[k] # 0 =>
        t.ids[k] \in DOMAIN d.divisions /\ d.divisions[t.ids[k]].name = k
  /\ t.pos <= Len(d.positions)

DivisionsKnown(t, n) == \A j \in DOMAIN Divisions : j < n => t.ids[Divisions[j].name] # 0
Registered(d, n) == \A j \in DOMAIN People : j < n => People[j] \in d.users
Placed(d, n) ==
  \A j \in DOMAIN Assignments : j < n =>
      \E p \in DOMAIN d.positions :
          Fits(d, p, j) /\ <<Assignments[j].person, p>> \in d.members

\* Where it is, with all that has been ensured before.
Reached(d, t) ==
  /\ t.pc \notin Halted \cup {"bootstrap"} => Admin \in d.users /\ t.ids[Root] # 0
  /\ t.pc \in {"roles", "role"} => t.n \in DOMAIN Roles
  /\ t.pc \in {"tree", "division"} => t.n \in DOMAIN Divisions /\ DivisionsKnown(t, t.n)
  /\ t.pc \in {"register", "find_user"} =>
        t.n \in DOMAIN People /\ Registered(d, t.n)
  /\ t.pc = "find_user" => People[t.n] \in d.users
  /\ t.pc \in {"positions", "position", "member"} =>
        t.n \in DOMAIN Assignments /\ Placed(d, t.n)
  /\ t.pc \in {"register", "find_user", "positions", "position", "member"} \cup TempPcs =>
        DivisionsKnown(t, Len(Divisions) + 1)
  /\ t.pc \in {"positions", "position", "member"} => Registered(d, Len(People) + 1)
  /\ t.pc \in TempPcs \cup {"done"} => Placed(d, Len(Assignments) + 1)
  /\ t.pc = "member" => Fits(d, t.pos, t.n)
  /\ t.pc \in {"temp_member", "temp_archive_position"} =>
        t.pos # 0 /\ d.positions[t.pos].title = Temp
  /\ t.pc \in TempPcs \ {"temp_division"} => t.ids[Temp] # 0

\* The call it waits for there.
Asks(d, t, c) ==
  /\ c.state \in {"idle", "sent", "answered"}
  /\ c.state = "idle" <=> t.pc \in Halted \cup {"bootstrap"}
  /\ t.pc = "patch_root" => c.req = Request("edit_division", Root, 1)
  /\ t.pc = "roles" => c.req = ListRoles(t.n)
  /\ t.pc = "role" => \/ c.req = Request("create_role", Roles[t.n], 0)
                      \/ c.req = Request("edit_role", Roles[t.n], 0) /\ Roles[t.n] \in d.roles
  /\ t.pc = "tree" => c.req = ReadTree(t.n, t.ids)
  /\ t.pc = "division" =>
        LET r == Divisions[t.n]
        IN  \/ c.req = Request("create_division", r.name, t.ids[r.parent])
            \/ c.req = Request("edit_division", r.name, t.ids[r.name]) /\ t.ids[r.name] # 0
  /\ t.pc = "register" => c.req = Register(t.n)
  /\ t.pc = "find_user" => c.req = Request("search", People[t.n], 0)
  /\ t.pc = "positions" => c.req = ListPositions(t.n, t.ids)
  /\ t.pc = "position" => c.req = Request("create_position", Assignments[t.n].title,
                                          t.ids[Assignments[t.n].division])
  /\ t.pc = "member" => c.req = Assign(t.n, t.pos)
  /\ t.pc = "temp_division" =>
        c.req = Request("create_division", Temp, t.ids[Divisions[1].name])
  /\ t.pc = "temp_position" => c.req = Request("create_position", Temp, t.ids[Temp])
  /\ t.pc = "temp_member" => c.req = Request("assign", Admin, t.pos)
  /\ t.pc = "temp_archive_position" => c.req = Request("archive_position", Temp, t.pos)
  /\ t.pc = "temp_archive" => c.req = Request("archive_division", Temp, t.ids[Temp])

\* What an answer says is so.
Answered(d, c) ==
  /\ c.answer \in {"done", "conflict"} /\ c.id \in Nat /\ c.same \in BOOLEAN
  /\ c.state # "answered" => c.answer = "done"
  /\ c.state = "answered" =>
       /\ c.answer = "conflict" => c.req.op \in {"create_role", "register", "assign"}
       /\ c.req.op = "edit_division" => c.id = 0
       /\ c.req.op = "create_division" => c.id # 0
       /\ c.req.op = "create_position" => c.id # 0
       /\ c.req.op \in {"tree", "create_division"} /\ c.id # 0 =>
             c.id \in DOMAIN d.divisions /\ d.divisions[c.id].name = c.req.name
       /\ c.req.op \in {"positions", "create_position"} /\ c.id # 0 =>
             /\ c.id \in DOMAIN d.positions
             /\ d.positions[c.id].title = c.req.name
             /\ d.positions[c.id].division = c.req.in
       /\ c.req.op = "roles" /\ c.id # 0 => c.req.name \in d.roles
       /\ c.req.op = "register" => c.req.name \in d.users
       /\ c.req.op = "assign" /\ d.positions[c.req.in].title # Temp =>
             <<c.req.name, c.req.in>> \in d.members

\* A role that is created is not there unless a late call has created it.
RoleIsNew(d, c) ==
  /\ c.state = "sent" /\ c.req.op = "create_role" => c.req.name \notin d.roles
  /\ c.state = "answered" /\ c.req.op = "roles" /\ c.id = 0 => c.req.name \notin d.roles
  /\ c.state = "answered" /\ c.req.op = "create_role" => c.answer = "done"

SeedInv ==
  /\ TablesInv(db)
  /\ Remembers(db, script) /\ Reached(db, script) /\ Asks(db, script, call)
  /\ Answered(db, call)
  /\ disturbed \in BOOLEAN /\ (~disturbed => RoleIsNew(db, call))
  /\ script.pc = "refused" => disturbed
  /\ abandoned \in Seq(Range(abandoned)) /\ late \subseteq DOMAIN abandoned
  /\ \A i \in DOMAIN abandoned : Sound(db, abandoned[i])

(***************************************************************************)
(* Counting.                                                               *)

Named(d, name, in) == {i \in DOMAIN d.divisions :
                          d.divisions[i].name = name /\ d.divisions[i].parent = in}
Titled(d, title, in) == {p \in DOMAIN d.positions :
                            d.positions[p].title = title /\ d.positions[p].division = in}

\* Between the read that finds nothing and the row that is created for it all
\* rows there are come from late calls.
Creating(c, read, create, name, in) ==
  \/ c.state = "sent" /\ c.req = Request(create, name, in)
  \/ c.state = "answered" /\ c.req = Request(read, name, in) /\ c.id = 0

DivisionsCounted(name, in) ==
  Cardinality(Named(db, name, in))
    <= Cardinality(Creates("create_division", name, in) \ late)
       + (IF Creating(call, "tree", "create_division", name, in) THEN 0 ELSE 1)
PositionsCounted(title, in) ==
  Cardinality(Titled(db, title, in))
    <= Cardinality(Creates("create_position", title, in) \ late)
       + (IF Creating(call, "positions", "create_position", title, in) THEN 0 ELSE 1)
OneOfEach ==
  /\ \A name \in Keys \ {Temp}, in \in Nat : DivisionsCounted(name, in)
  /\ \A title \in Titles \ {Temp}, in \in Nat : PositionsCounted(title, in)

OpenTemps(d) == {i \in DOMAIN d.divisions :
                    d.divisions[i].name = Temp /\ ~d.divisions[i].archived}
LateTemps == {i \in late : abandoned[i].op = "create_division" /\ abandoned[i].name = Temp}

\* The temporary group of the run is open.
OwnTempIsOpen ==
  /\ script.pc \in TempPcs
  /\ IF script.pc = "temp_division" THEN call.state = "answered" /\ call.id \in OpenTemps(db)
                                    ELSE script.ids[Temp] \in OpenTemps(db)

\* A run under way whose group is not open may still open one.
Credit == IF script.pc \in Halted \/ OwnTempIsOpen THEN 0 ELSE 1

\* Each run that has not completed accounts for one group that is open or may
\* still be created late.
TempsAccounted ==
  Cardinality(OpenTemps(db)) + Cardinality(LateTemps) + Credit
    <= script.runs - script.complete

ArchivedAtTheEnd ==
  script.pc = "temp_archive" /\ call.state = "answered" => ~OwnTempIsOpen

CountInv == OneOfEach /\ TempsAccounted /\ ArchivedAtTheEnd

-----------------------------------------------------------------------------
(* The lists of the script.                                                *)

\* The lists are sequences of their elements.
LEMMA Lists ==
  /\ DOMAIN Roles = 1..Len(Roles) /\ Len(Roles) \in Nat \ {0}
  /\ DOMAIN Divisions = 1..Len(Divisions) /\ Len(Divisions) \in Nat \ {0}
  /\ DOMAIN People = 1..Len(People) /\ Len(People) \in Nat \ {0}
  /\ DOMAIN Assignments = 1..Len(Assignments) /\ Len(Assignments) \in Nat \ {0}
  /\ \A n \in DOMAIN Roles : Roles[n] \in Range(Roles)
  /\ \A n \in DOMAIN People : People[n] \in Range(People)
<1>1. \A n \in DOMAIN Roles : Roles[n] \in Range(Roles)
  BY DEF Range
<1>2. \A n \in DOMAIN People : People[n] \in Range(People)
  BY DEF Range
<1> QED
  BY <1>1, <1>2, ScriptAssumption, LenProperties

\* Every division of the script has a key, and so have its parent and the
\* division of an assignment; the titles are those of assignments.
LEMMA KeysOfScript ==
  /\ Root \in Keys /\ Temp \in Keys /\ Root # Temp /\ Temp \in Titles
  /\ \A n \in DOMAIN Divisions :
       Divisions[n].name \in Keys \ {Temp} /\ Divisions[n].parent \in Keys
  /\ \A n \in DOMAIN Assignments :
       /\ Assignments[n].title \in Titles \ {Temp}
       /\ Assignments[n].division \in Keys
       /\ Assignments[n].person \in Range(People)
<1>1. Root \in Keys /\ Temp \in Keys /\ Root # Temp /\ Temp \in Titles
  BY NamesAreApart DEF Keys, Titles
<1>2. \A n \in DOMAIN Divisions : Divisions[n].name \in Keys \ {Temp}
  BY NamesAreApart DEF Keys
<1>3. \A n \in DOMAIN Divisions : 1..(n - 1) \subseteq DOMAIN Divisions
  BY Lists
<1>4. \A n \in DOMAIN Divisions : Divisions[n].parent \in Keys
  BY <1>1, <1>2, <1>3, ScriptAssumption
<1>5. \A n \in DOMAIN Assignments : Assignments[n].title \in Titles \ {Temp}
  BY NamesAreApart DEF Titles
<1>6. \A n \in DOMAIN Assignments :
        Assignments[n].division \in Keys /\ Assignments[n].person \in Range(People)
  BY <1>1, <1>2, ScriptAssumption
<1> QED
  BY <1>1, <1>2, <1>4, <1>5, <1>6

-----------------------------------------------------------------------------
(* What is so stays so when the tables grow.                               *)

\* The domains of sequences of rows.
LEMMA RowDomains ==
  ASSUME NEW d, TablesInv(d)
  PROVE  /\ DOMAIN d.divisions = 1..Len(d.divisions) /\ Len(d.divisions) \in Nat
         /\ DOMAIN d.positions = 1..Len(d.positions) /\ Len(d.positions) \in Nat
BY LenProperties DEF TablesInv, Tables

\* Rows that are there stay where they are.
LEMMA GrownDomains ==
  ASSUME NEW d, TablesInv(d), NEW e, TablesInv(e), Grows(d, e)
  PROVE  DOMAIN d.divisions \subseteq DOMAIN e.divisions
         /\ DOMAIN d.positions \subseteq DOMAIN e.positions
BY RowDomains DEF Grows

\* A position stays that of its assignment.
LEMMA FitsGrows ==
  ASSUME NEW d, TablesInv(d), NEW e, TablesInv(e), Grows(d, e),
         NEW p, NEW i \in DOMAIN Assignments, Fits(d, p, i)
  PROVE  Fits(e, p, i)
<1>1. p \in DOMAIN d.positions /\ d.positions[p].division \in DOMAIN d.divisions
  BY DEF Fits, TablesInv
<1>2. p \in DOMAIN e.positions
  BY <1>1, GrownDomains
<1> QED
  BY <1>1, <1>2 DEF Fits, Grows

\* A position stays meant for the same person.
LEMMA MeantGrows ==
  ASSUME NEW d, TablesInv(d), NEW e, TablesInv(e), Grows(d, e),
         NEW p \in DOMAIN d.positions, NEW u, Meant(d, u, p)
  PROVE  Meant(e, u, p)
<1>1. CASE d.positions[p].title = Temp /\ u = Admin
  BY <1>1 DEF Grows, Meant
<1>2. ASSUME NEW i \in DOMAIN Assignments, Fits(d, p, i) /\ Assignments[i].person = u
      PROVE  Meant(e, u, p)
  BY <1>2, FitsGrows DEF Meant
<1> QED
  BY <1>1, <1>2 DEF Meant

\* A request stays one that makes sense.
LEMMA SoundGrows ==
  ASSUME NEW d, TablesInv(d), NEW e, TablesInv(e), Grows(d, e),
         NEW req, Sound(d, req)
  PROVE  Sound(e, req)
<1>1. req.op = "assign" => Meant(e, req.name, req.in)
  BY MeantGrows DEF Sound
<1> QED
  BY <1>1, GrownDomains DEF Sound, Grows

\* Memberships of the script stay.
LEMMA PlacedGrows ==
  ASSUME NEW d, TablesInv(d), NEW e, TablesInv(e), Grows(d, e),
         NEW n \in Nat, Placed(d, n)
  PROVE  Placed(e, n)
<1> SUFFICES ASSUME NEW j \in DOMAIN Assignments, j < n
             PROVE  \E p \in DOMAIN e.positions :
                       Fits(e, p, j) /\ <<Assignments[j].person, p>> \in e.members
  BY DEF Placed
<1>1. PICK p \in DOMAIN d.positions :
        Fits(d, p, j) /\ <<Assignments[j].person, p>> \in d.members
  BY DEF Placed
<1>2. d.positions[p].title # Temp /\ Assignments[j].person \in Person
  BY <1>1, KeysOfScript DEF Fits, Person
<1> QED
  BY <1>1, <1>2, FitsGrows, GrownDomains DEF Grows

\* What a run has remembered and ensured stays so.
LEMMA RunGrows ==
  ASSUME NEW d, TablesInv(d), NEW e, TablesInv(e), Grows(d, e), NEW t, NEW c,
         Remembers(d, t), Reached(d, t), Asks(d, t, c)
  PROVE  Remembers(e, t) /\ Reached(e, t) /\ Asks(e, t, c)
<1>1. Remembers(e, t)
  <2>1. \A k \in Keys : t.ids[k] # 0 =>
          t.ids[k] \in DOMAIN e.divisions /\ e.divisions[t.ids[k]].name = k
    BY GrownDomains DEF Remembers, Grows
  <2>2. t.pos \in Nat /\ t.pos <= Len(d.positions) /\ Len(d.positions) <= Len(e.positions)
    BY DEF Remembers, Grows
  <2>3. t.pos <= Len(e.positions)
    BY <2>2, RowDomains
  <2> QED
    BY <2>1, <2>3 DEF Remembers
<1>2. t.n \in Nat /\ t.pos \in Nat /\ Len(Assignments) + 1 \in Nat
  BY Lists DEF Remembers
<1>3. Reached(e, t)
  <2>1. t.pc \in {"positions", "position", "member"} => Placed(e, t.n)
    BY <1>2, PlacedGrows DEF Reached
  <2>2. t.pc \in TempPcs \cup {"done"} => Placed(e, Len(Assignments) + 1)
    BY <1>2, PlacedGrows DEF Reached
  <2>3. t.pc = "member" => Fits(e, t.pos, t.n)
    BY FitsGrows DEF Reached
  <2>4. t.pc \in {"temp_member", "temp_archive_position"} =>
          t.pos # 0 /\ e.positions[t.pos].title = Temp
    BY <1>2, RowDomains DEF Reached, Remembers, Grows
  <2>5. /\ t.pc \in {"register", "find_user"} => Registered(e, t.n)
        /\ t.pc \in {"positions", "position", "member"} => Registered(e, Len(People) + 1)
        /\ t.pc = "find_user" => People[t.n] \in e.users
        /\ t.pc \notin Halted \cup {"bootstrap"} => Admin \in e.users
    BY DEF Reached, Registered, Grows
  <2> QED
    BY <2>1, <2>2, <2>3, <2>4, <2>5 DEF Reached
<1>4. Asks(e, t, c)
  BY DEF Asks, Grows
<1> QED
  BY <1>1, <1>3, <1>4

\* An answer stays true.
LEMMA AnsweredGrows ==
  ASSUME NEW d, TablesInv(d), NEW e, TablesInv(e), Grows(d, e), NEW c,
         c.state = "answered" => Sound(d, c.req), Answered(d, c)
  PROVE  Answered(e, c)
<1>1. c.state = "answered" /\ c.req.op = "assign" /\ e.positions[c.req.in].title # Temp
        => <<c.req.name, c.req.in>> \in e.members
  <2> SUFFICES ASSUME c.state = "answered", c.req.op = "assign",
                      e.positions[c.req.in].title # Temp
               PROVE  <<c.req.name, c.req.in>> \in e.members
    OBVIOUS
  <2>1. c.req.in \in DOMAIN d.positions /\ c.req.name \in Person
    BY DEF Sound, TablesInv, Tables
  <2>2. d.positions[c.req.in].title # Temp
    BY <2>1 DEF Grows
  <2> QED
    BY <2>1, <2>2 DEF Answered, Grows
<1>2. c.state = "answered" /\ c.req.op \in {"tree", "create_division"} /\ c.id # 0 =>
        c.id \in DOMAIN e.divisions /\ e.divisions[c.id].name = c.req.name
  BY GrownDomains DEF Answered, Grows
<1>3. c.state = "answered" /\ c.req.op \in {"positions", "create_position"} /\ c.id # 0 =>
        /\ c.id \in DOMAIN e.positions
        /\ e.positions[c.id].title = c.req.name
        /\ e.positions[c.id].division = c.req.in
  BY GrownDomains DEF Answered, Grows
<1> QED
  BY <1>1, <1>2, <1>3 DEF Answered, Grows

-----------------------------------------------------------------------------
(* What a request does to the tables.                                      *)

\* The sequence with one more element.
LEMMA Appended ==
  ASSUME NEW S, NEW q \in Seq(S), NEW r \in S
  PROVE  /\ Append(q, r) \in Seq(S) /\ Len(Append(q, r)) = Len(q) + 1
         /\ DOMAIN Append(q, r) = DOMAIN q \cup {Len(q) + 1}
         /\ \A i \in DOMAIN q : Append(q, r)[i] = q[i]
         /\ Append(q, r)[Len(q) + 1] = r
         /\ DOMAIN q = 1..Len(q) /\ Len(q) \in Nat
<1>1. /\ Append(q, r) \in Seq(S) /\ Len(Append(q, r)) = Len(q) + 1
      /\ \A i \in 1..Len(q) : Append(q, r)[i] = q[i]
      /\ Append(q, r)[Len(q) + 1] = r
  BY AppendProperties
<1>2. DOMAIN q = 1..Len(q) /\ Len(q) \in Nat
      /\ DOMAIN Append(q, r) = 1..(Len(q) + 1)
  BY <1>1, LenProperties
<1> QED
  BY <1>1, <1>2

\* A position the script means for someone is meant for them as long as its
\* texts are, and the members whose rows are kept are still as they should be.
LEMMA MembersStay ==
  ASSUME NEW d, TablesInv(d), NEW e,
         DOMAIN d.positions \subseteq DOMAIN e.positions,
         \A p \in DOMAIN d.positions :
            /\ e.positions[p].title = d.positions[p].title
            /\ e.positions[p].division = d.positions[p].division,
         \A i \in DOMAIN d.divisions : e.divisions[i].name = d.divisions[i].name,
         d.users \subseteq e.users, e.members \subseteq d.members
  PROVE  \A u \in Person, p \in Nat :
            <<u, p>> \in e.members => /\ u \in e.users /\ p \in DOMAIN e.positions
                                      /\ Meant(e, u, p)
<1> SUFFICES ASSUME NEW u \in Person, NEW p \in Nat, <<u, p>> \in e.members
             PROVE  u \in e.users /\ p \in DOMAIN e.positions /\ Meant(e, u, p)
  OBVIOUS
<1>1. u \in d.users /\ p \in DOMAIN d.positions /\ Meant(d, u, p)
  BY DEF TablesInv
<1>2. /\ p \in DOMAIN e.positions /\ e.positions[p].title = d.positions[p].title
      /\ e.positions[p].division = d.positions[p].division
  BY <1>1
<1>3. d.positions[p].division \in DOMAIN d.divisions
  BY <1>1 DEF TablesInv
<1>4. e.divisions[e.positions[p].division].name = d.divisions[d.positions[p].division].name
  BY <1>2, <1>3
<1>5. \A i \in DOMAIN Assignments : Fits(d, p, i) => Fits(e, p, i)
  BY <1>2, <1>4 DEF Fits
<1>6. Meant(e, u, p)
  BY <1>1, <1>2, <1>5 DEF Meant
<1> QED
  BY <1>1, <1>2, <1>6

\* A division is created below one that is there.
LEMMA AddsDivision ==
  ASSUME NEW d, TablesInv(d), NEW e, NEW r \in Row,
         r.parent \in DOMAIN d.divisions, ~r.archived,
         e = [d EXCEPT !.divisions = Append(@, r)]
  PROVE  /\ TablesInv(e) /\ Grows(d, e)
         /\ e.divisions = Append(d.divisions, r)
<1>1. d.divisions \in Seq(Row)
  BY DEF TablesInv, Tables
<1>2. /\ e.divisions = Append(d.divisions, r) /\ e \in Tables
      /\ e.roles = d.roles /\ e.granted = d.granted /\ e.users = d.users
      /\ e.positions = d.positions /\ e.members = d.members
  BY <1>1, Appended DEF TablesInv, Tables
<1>3. /\ DOMAIN e.divisions = DOMAIN d.divisions \cup {Len(d.divisions) + 1}
      /\ \A i \in DOMAIN d.divisions : e.divisions[i] = d.divisions[i]
      /\ e.divisions[Len(d.divisions) + 1] = r
      /\ Len(e.divisions) = Len(d.divisions) + 1
      /\ DOMAIN d.divisions = 1..Len(d.divisions) /\ Len(d.divisions) \in Nat
  BY <1>1, <1>2, Appended
<1>4. Grows(d, e)
  BY <1>2, <1>3 DEF Grows, TablesInv, Tables
<1>5. \A i \in DOMAIN e.divisions :
        /\ e.divisions[i].parent \in (IF i = 1 THEN {0} ELSE 1..(i - 1))
        /\ e.divisions[i].archived => e.divisions[i].name = Temp
  BY <1>3 DEF TablesInv
<1>6. e.divisions # << >> /\ e.divisions[1].name = Root
  BY <1>3 DEF TablesInv
<1>7. \A u \in Person, p \in Nat :
        <<u, p>> \in e.members => /\ u \in e.users /\ p \in DOMAIN e.positions
                                  /\ Meant(e, u, p)
  BY <1>2, <1>3, MembersStay
<1>8. e.granted \subseteq e.roles
  BY <1>2 DEF TablesInv
<1>9. \A p \in DOMAIN e.positions :
        /\ e.positions[p].division \in DOMAIN e.divisions
        /\ e.positions[p].archived => e.positions[p].title = Temp
  BY <1>2, <1>3 DEF TablesInv
<1> QED
  BY <1>2, <1>4, <1>5, <1>6, <1>7, <1>8, <1>9 DEF TablesInv

\* A position is created in a division that is there.
LEMMA AddsPosition ==
  ASSUME NEW d, TablesInv(d), NEW e, NEW r \in Seat,
         r.division \in DOMAIN d.divisions, ~r.archived,
         e = [d EXCEPT !.positions = Append(@, r)]
  PROVE  /\ TablesInv(e) /\ Grows(d, e)
         /\ e.positions = Append(d.positions, r)
<1>1. d.positions \in Seq(Seat)
  BY DEF TablesInv, Tables
<1>2. /\ e.positions = Append(d.positions, r) /\ e \in Tables
      /\ e.roles = d.roles /\ e.granted = d.granted /\ e.users = d.users
      /\ e.divisions = d.divisions /\ e.members = d.members
  BY <1>1, Appended DEF TablesInv, Tables
<1>3. /\ DOMAIN e.positions = DOMAIN d.positions \cup {Len(d.positions) + 1}
      /\ \A i \in DOMAIN d.positions : e.positions[i] = d.positions[i]
      /\ e.positions[Len(d.positions) + 1] = r
      /\ Len(e.positions) = Len(d.positions) + 1
      /\ DOMAIN d.positions = 1..Len(d.positions) /\ Len(d.positions) \in Nat
  BY <1>1, <1>2, Appended
<1>4. Len(d.divisions) \in Nat
  BY RowDomains
<1>5. Grows(d, e)
  BY <1>2, <1>3, <1>4 DEF Grows, TablesInv, Tables
<1>6. \A u \in Person, p \in Nat :
        <<u, p>> \in e.members => /\ u \in e.users /\ p \in DOMAIN e.positions
                                  /\ Meant(e, u, p)
  BY <1>2, <1>3, MembersStay
<1>7. \A p \in DOMAIN e.positions :
        /\ e.positions[p].division \in DOMAIN e.divisions
        /\ e.positions[p].archived => e.positions[p].title = Temp
  BY <1>2, <1>3 DEF TablesInv
<1>8. e.granted \subseteq e.roles /\ (e.divisions # << >> => e.divisions[1].name = Root)
  BY <1>2 DEF TablesInv
<1>9. \A i \in DOMAIN e.divisions :
        /\ e.divisions[i].parent \in (IF i = 1 THEN {0} ELSE 1..(i - 1))
        /\ e.divisions[i].archived => e.divisions[i].name = Temp
  BY <1>2 DEF TablesInv
<1> QED
  BY <1>2, <1>5, <1>6, <1>7, <1>8, <1>9 DEF TablesInv

\* Texts are changed, or the temporary group is archived.
LEMMA ChangesDivision ==
  ASSUME NEW d, TablesInv(d), NEW e, NEW i \in DOMAIN d.divisions,
         \/ e = [d EXCEPT !.divisions[i].texts = "script"]
         \/ e = [d EXCEPT !.divisions[i].archived = TRUE] /\ d.divisions[i].name = Temp
  PROVE  /\ TablesInv(e) /\ Grows(d, e)
         /\ e.positions = d.positions /\ DOMAIN e.divisions = DOMAIN d.divisions
<1>1. d.divisions \in Seq(Row) /\ d.divisions[i] \in Row
  BY ElementOfSeq, RowDomains DEF TablesInv, Tables
<1>2. PICK r \in Row :
        /\ e = [d EXCEPT !.divisions = [d.divisions EXCEPT ![i] = r]]
        /\ r.name = d.divisions[i].name /\ r.parent = d.divisions[i].parent
        /\ d.divisions[i].archived => r.archived
        /\ r.archived => r.name = Temp
  <2>1. CASE e = [d EXCEPT !.divisions[i].texts = "script"]
    <3> DEFINE r == [d.divisions[i] EXCEPT !.texts = "script"]
    <3>1. r \in Row /\ r.name = d.divisions[i].name /\ r.parent = d.divisions[i].parent
          /\ r.archived = d.divisions[i].archived
      BY <1>1 DEF Row
    <3>2. e = [d EXCEPT !.divisions = [d.divisions EXCEPT ![i] = r]]
      BY <2>1
    <3>3. d.divisions[i].archived => d.divisions[i].name = Temp
      BY DEF TablesInv
    <3> HIDE DEF r
    <3> QED
      BY <3>1, <3>2, <3>3
  <2>2. CASE /\ e = [d EXCEPT !.divisions[i].archived = TRUE]
             /\ d.divisions[i].name = Temp
    <3> DEFINE r == [d.divisions[i] EXCEPT !.archived = TRUE]
    <3>1. r \in Row /\ r.name = d.divisions[i].name /\ r.parent = d.divisions[i].parent
          /\ r.archived
      BY <1>1 DEF Row
    <3>2. e = [d EXCEPT !.divisions = [d.divisions EXCEPT ![i] = r]]
      BY <2>2
    <3> HIDE DEF r
    <3> QED
      BY <2>2, <3>1, <3>2
  <2> QED
    BY <2>1, <2>2
<1>3. i \in 1..Len(d.divisions)
  BY RowDomains
<1>4. [d.divisions EXCEPT ![i] = r] \in Seq(Row)
      /\ Len([d.divisions EXCEPT ![i] = r]) = Len(d.divisions)
  BY <1>1, <1>3, ExceptSeq
<1>5. /\ e.divisions = [d.divisions EXCEPT ![i] = r] /\ e \in Tables
      /\ e.roles = d.roles /\ e.granted = d.granted /\ e.users = d.users
      /\ e.positions = d.positions /\ e.members = d.members
  BY <1>2, <1>4 DEF TablesInv, Tables
<1>6. /\ DOMAIN e.divisions = DOMAIN d.divisions /\ Len(e.divisions) = Len(d.divisions)
      /\ \A j \in DOMAIN d.divisions :
           /\ e.divisions[j].name = d.divisions[j].name
           /\ e.divisions[j].parent = d.divisions[j].parent
           /\ d.divisions[j].archived => e.divisions[j].archived
           /\ e.divisions[j].archived => e.divisions[j].name = Temp
  BY <1>2, <1>4, <1>5 DEF TablesInv
<1>7. Len(d.divisions) \in Nat /\ Len(d.positions) \in Nat
      /\ DOMAIN d.divisions = 1..Len(d.divisions) /\ DOMAIN e.divisions = 1..Len(e.divisions)
  BY <1>6, RowDomains
<1>8. Grows(d, e)
  BY <1>5, <1>6, <1>7 DEF Grows
<1>9. \A u \in Person, p \in Nat :
        <<u, p>> \in e.members => /\ u \in e.users /\ p \in DOMAIN e.positions
                                  /\ Meant(e, u, p)
  BY <1>5, <1>6, MembersStay
<1>10. e.divisions # << >> => e.divisions[1].name = Root
  BY <1>3, <1>6, <1>7 DEF TablesInv
<1>11. \A p \in DOMAIN e.positions :
         /\ e.positions[p].division \in DOMAIN e.divisions
         /\ e.positions[p].archived => e.positions[p].title = Temp
  BY <1>5, <1>6 DEF TablesInv
<1>12. \A j \in DOMAIN e.divisions :
         /\ e.divisions[j].parent \in (IF j = 1 THEN {0} ELSE 1..(j - 1))
         /\ e.divisions[j].archived => e.divisions[j].name = Temp
  BY <1>6 DEF TablesInv
<1>13. e.granted \subseteq e.roles
  BY <1>5 DEF TablesInv
<1> QED
  BY <1>5, <1>8, <1>9, <1>10, <1>11, <1>12, <1>13 DEF TablesInv

\* The temporary position is archived, and has no member any more.
LEMMA EmptiesPosition ==
  ASSUME NEW d, TablesInv(d), NEW e, NEW i \in DOMAIN d.positions,
         d.positions[i].title = Temp,
         e = [d EXCEPT !.positions[i].archived = TRUE,
                       !.members = {m \in @ : m[2] # i}]
  PROVE  /\ TablesInv(e) /\ Grows(d, e)
         /\ e.divisions = d.divisions /\ DOMAIN e.positions = DOMAIN d.positions
<1>1. d.positions \in Seq(Seat) /\ d.positions[i] \in Seat
  BY ElementOfSeq, RowDomains DEF TablesInv, Tables
<1> DEFINE r == [d.positions[i] EXCEPT !.archived = TRUE]
           M == {m \in d.members : m[2] # i}
<1>2. r \in Seat /\ r.title = d.positions[i].title /\ r.division = d.positions[i].division
  BY <1>1 DEF Seat
<1>3. e = [d EXCEPT !.positions = [d.positions EXCEPT ![i] = r], !.members = M]
  OBVIOUS
<1>4. /\ M \subseteq d.members
      /\ \A u \in Person, p \in Nat : <<u, p>> \in M <=> <<u, p>> \in d.members /\ p # i
  OBVIOUS
<1> HIDE DEF r, M
<1>5. i \in 1..Len(d.positions)
  BY RowDomains
<1>6. [d.positions EXCEPT ![i] = r] \in Seq(Seat)
      /\ Len([d.positions EXCEPT ![i] = r]) = Len(d.positions)
  BY <1>1, <1>2, <1>5, ExceptSeq
<1>7. /\ e.positions = [d.positions EXCEPT ![i] = r] /\ e \in Tables
      /\ e.roles = d.roles /\ e.granted = d.granted /\ e.users = d.users
      /\ e.divisions = d.divisions /\ e.members = M
  BY <1>3, <1>4, <1>6 DEF TablesInv, Tables
<1>8. /\ DOMAIN e.positions = DOMAIN d.positions /\ Len(e.positions) = Len(d.positions)
      /\ \A p \in DOMAIN d.positions :
           /\ e.positions[p].title = d.positions[p].title
           /\ e.positions[p].division = d.positions[p].division
           /\ e.positions[p].archived => e.positions[p].title = Temp
  BY <1>2, <1>6, <1>7 DEF TablesInv
<1>9. Len(d.divisions) \in Nat /\ Len(d.positions) \in Nat /\ DOMAIN d.positions \subseteq Nat
  BY RowDomains
<1>10. Grows(d, e)
  BY <1>4, <1>7, <1>8, <1>9 DEF Grows
<1>11. \A u \in Person, p \in Nat :
         <<u, p>> \in e.members => /\ u \in e.users /\ p \in DOMAIN e.positions
                                   /\ Meant(e, u, p)
  BY <1>4, <1>7, <1>8, MembersStay
<1>12. \A p \in DOMAIN e.positions :
         /\ e.positions[p].division \in DOMAIN e.divisions
         /\ e.positions[p].archived => e.positions[p].title = Temp
  BY <1>7, <1>8 DEF TablesInv
<1>13. e.granted \subseteq e.roles /\ (e.divisions # << >> => e.divisions[1].name = Root)
  BY <1>7 DEF TablesInv
<1>14. \A j \in DOMAIN e.divisions :
         /\ e.divisions[j].parent \in (IF j = 1 THEN {0} ELSE 1..(j - 1))
         /\ e.divisions[j].archived => e.divisions[j].name = Temp
  BY <1>7 DEF TablesInv
<1> QED
  BY <1>7, <1>10, <1>11, <1>12, <1>13, <1>14 DEF TablesInv

\* Roles, users and members are added.
LEMMA AddsToSets ==
  ASSUME NEW d, TablesInv(d), NEW e, e \in Tables,
         e.divisions = d.divisions, e.positions = d.positions,
         d.roles \subseteq e.roles, d.users \subseteq e.users,
         e.granted \subseteq e.roles,
         NEW u \in e.users, NEW p \in DOMAIN d.positions,
         Meant(d, u, p), e.members = d.members \cup {<<u, p>>} \/ e.members = d.members
  PROVE  TablesInv(e) /\ Grows(d, e)
<1>1. Len(d.divisions) \in Nat /\ Len(d.positions) \in Nat /\ DOMAIN d.positions \subseteq Nat
  BY RowDomains
<1>2. Grows(d, e)
  BY <1>1 DEF Grows
<1>3. \A v, q : Meant(d, v, q) => Meant(e, v, q)
  BY DEF Meant, Fits
<1>4. \A v \in Person, q \in Nat :
        <<v, q>> \in e.members =>
          v \in e.users /\ q \in DOMAIN e.positions /\ Meant(e, v, q)
  BY <1>3 DEF TablesInv
<1> QED
  BY <1>2, <1>4 DEF TablesInv

\* The same without a member.
LEMMA AddsNames ==
  ASSUME NEW d, TablesInv(d), NEW e, e \in Tables,
         e.divisions = d.divisions, e.positions = d.positions,
         d.roles \subseteq e.roles, d.users \subseteq e.users,
         e.granted \subseteq e.roles, e.members = d.members
  PROVE  TablesInv(e) /\ Grows(d, e)
<1>1. Len(d.divisions) \in Nat /\ Len(d.positions) \in Nat /\ DOMAIN d.positions \subseteq Nat
  BY RowDomains
<1>2. Grows(d, e)
  BY <1>1 DEF Grows
<1>3. \A v, q : Meant(d, v, q) => Meant(e, v, q)
  BY DEF Meant, Fits
<1> QED
  BY <1>2, <1>3 DEF TablesInv

\* Effect, one operation at a time.
LEMMA EffectCases ==
  ASSUME NEW req
  PROVE  /\ req.op = "create_role" =>
              Effect(req) = [db EXCEPT !.roles = @ \cup {req.name},
                                       !.granted = @ \cup ({req.name} \ db.roles)]
         /\ req.op = "edit_role" => Effect(req) = [db EXCEPT !.granted = @ \cup {req.name}]
         /\ req.op = "create_division" =>
              Effect(req) = [db EXCEPT !.divisions =
                  Append(@, [name |-> req.name, parent |-> req.in,
                             texts |-> "script", archived |-> FALSE])]
         /\ req.op = "edit_division" =>
              Effect(req) = [db EXCEPT !.divisions[req.in].texts = "script"]
         /\ req.op = "archive_division" =>
              Effect(req) = [db EXCEPT !.divisions[req.in].archived = TRUE]
         /\ req.op = "register" => Effect(req) = [db EXCEPT !.users = @ \cup {req.name}]
         /\ req.op = "create_position" =>
              Effect(req) = [db EXCEPT !.positions =
                  Append(@, [title |-> req.name, division |-> req.in, archived |-> FALSE])]
         /\ req.op = "assign" /\ Vacant(req.in) =>
              Effect(req) = [db EXCEPT !.members = @ \cup {<<req.name, req.in>>}]
         /\ req.op = "archive_position" =>
              Effect(req) = [db EXCEPT !.positions[req.in].archived = TRUE,
                                       !.members = {m \in @ : m[2] # req.in}]
         /\ req.op \in {"roles", "tree", "search", "positions"} => Effect(req) = db
         /\ req.op = "assign" /\ ~Vacant(req.in) => Effect(req) = db
BY DEF Effect

\* The tables after a position is archived.
LEMMA ArchivesSeat ==
  ASSUME db \in Tables, NEW req, req.op = "archive_position"
  PROVE  /\ Effect(req).positions = [db.positions EXCEPT ![req.in].archived = TRUE]
         /\ Effect(req).roles = db.roles /\ Effect(req).divisions = db.divisions
<1> DEFINE P == [db.positions EXCEPT ![req.in].archived = TRUE]
           M == {m \in db.members : m[2] # req.in}
<1>1. Effect(req) = [db EXCEPT !.positions = P, !.members = M]
  <2>1. Effect(req) = [db EXCEPT !.positions[req.in].archived = TRUE,
                                 !.members = {m \in @ : m[2] # req.in}]
    BY DEF Effect
  <2> QED
    BY ONLY <2>1
<1> HIDE DEF P, M
<1>2. /\ Effect(req).positions = P /\ Effect(req).roles = db.roles
      /\ Effect(req).divisions = db.divisions
  BY <1>1 DEF Tables
<1> QED
  BY <1>2 DEF P

\* A request that makes sense keeps the tables as they should be, and undoes
\* nothing.
LEMMA EffectKeeps ==
  ASSUME TablesInv(db), NEW req, Sound(db, req)
  PROVE  TablesInv(Effect(req)) /\ Grows(db, Effect(req))
<1>1. db \in Tables /\ db.granted \subseteq db.roles
  BY DEF TablesInv
<1>2. DOMAIN db.divisions \subseteq Nat \ {0} /\ DOMAIN db.positions \subseteq Nat \ {0}
  BY RowDomains
<1> DEFINE e == Effect(req)
<1> HIDE DEF e
<1>3. CASE req.op = "create_role"
  <2>1. e = [db EXCEPT !.roles = @ \cup {req.name},
                       !.granted = @ \cup ({req.name} \ db.roles)]
    BY <1>3, EffectCases DEF e
  <2>2. /\ e = [db EXCEPT !.roles = e.roles, !.granted = e.granted]
        /\ e.roles = db.roles \cup {req.name} /\ e.granted \subseteq db.granted \cup {req.name}
    BY <1>1, <2>1 DEF Tables
  <2>3. req.name \in Range(Roles)
    BY <1>3 DEF Sound
  <2>4. e.roles \in SUBSET Range(Roles) /\ e.granted \in SUBSET Range(Roles)
    BY <1>1, <2>2, <2>3 DEF Tables
  <2>5. e \in Tables
    BY <1>1, <2>2, <2>4 DEF Tables
  <2>6. /\ e.divisions = db.divisions /\ e.positions = db.positions
        /\ e.users = db.users /\ e.members = db.members
    BY <1>1, <2>1 DEF Tables
  <2> QED
    BY <1>1, <2>2, <2>5, <2>6, AddsNames DEF e
<1>4. CASE req.op = "edit_role"
  <2>1. e = [db EXCEPT !.granted = @ \cup {req.name}]
    BY <1>4, EffectCases DEF e
  <2>2. req.name \in db.roles
    BY <1>4 DEF Sound
  <2>3. db.granted \cup {req.name} \in SUBSET Range(Roles)
    BY <1>1, <2>2 DEF Tables
  <2>4. e \in Tables
    BY <1>1, <2>1, <2>3 DEF Tables
  <2>5. /\ e.divisions = db.divisions /\ e.positions = db.positions
        /\ e.users = db.users /\ e.members = db.members /\ e.roles = db.roles
        /\ e.granted = db.granted \cup {req.name}
    BY <1>1, <2>1 DEF Tables
  <2> QED
    BY <1>1, <2>2, <2>4, <2>5, AddsNames DEF e
<1>5. CASE req.op = "create_division"
  <2> DEFINE r == [name |-> req.name, parent |-> req.in,
                   texts |-> "script", archived |-> FALSE]
  <2>1. r \in Row /\ r.parent \in DOMAIN db.divisions /\ ~r.archived
    BY <1>2, <1>5 DEF Sound, Row
  <2>2. Effect(req) = [db EXCEPT !.divisions = Append(@, r)]
    BY <1>5, EffectCases
  <2> HIDE DEF r
  <2> QED
    BY <2>1, <2>2, AddsDivision
<1>6. CASE req.op \in {"edit_division", "archive_division"}
  BY <1>6, EffectCases, ChangesDivision DEF Sound
<1>7. CASE req.op = "register"
  <2>1. e = [db EXCEPT !.users = @ \cup {req.name}]
    BY <1>7, EffectCases DEF e
  <2>2. req.name \in Range(People)
    BY <1>7 DEF Sound
  <2>3. db.users \cup {req.name} \in SUBSET Person
    BY <1>1, <2>2 DEF Tables, Person
  <2>4. e \in Tables
    BY <1>1, <2>1, <2>3 DEF Tables
  <2>5. /\ e.divisions = db.divisions /\ e.positions = db.positions
        /\ e.users = db.users \cup {req.name} /\ e.members = db.members
        /\ e.roles = db.roles /\ e.granted = db.granted
    BY <1>1, <2>1 DEF Tables
  <2> QED
    BY <1>1, <2>4, <2>5, AddsNames DEF e
<1>8. CASE req.op = "create_position"
  <2> DEFINE r == [title |-> req.name, division |-> req.in, archived |-> FALSE]
  <2>1. r \in Seat /\ r.division \in DOMAIN db.divisions /\ ~r.archived
    BY <1>2, <1>8 DEF Sound, Seat
  <2>2. Effect(req) = [db EXCEPT !.positions = Append(@, r)]
    BY <1>8, EffectCases
  <2> HIDE DEF r
  <2> QED
    BY <2>1, <2>2, AddsPosition
<1>9. CASE req.op = "assign" /\ Vacant(req.in)
  <2>1. /\ req.name \in db.users /\ req.in \in DOMAIN db.positions
        /\ Meant(db, req.name, req.in)
    BY <1>9 DEF Sound
  <2>2. e = [db EXCEPT !.members = @ \cup {<<req.name, req.in>>}]
    BY <1>9, EffectCases DEF e
  <2>3. <<req.name, req.in>> \in Person \X Nat
    BY <1>1, <1>2, <2>1 DEF Tables
  <2>4. db.members \cup {<<req.name, req.in>>} \in SUBSET (Person \X Nat)
    BY <1>1, <2>3 DEF Tables
  <2>5. e \in Tables
    BY <1>1, <2>2, <2>4 DEF Tables
  <2>6. /\ e.divisions = db.divisions /\ e.positions = db.positions
        /\ e.users = db.users /\ e.members = db.members \cup {<<req.name, req.in>>}
        /\ e.roles = db.roles /\ e.granted = db.granted
    BY <1>1, <2>2 DEF Tables
  <2> QED
    BY <1>1, <2>1, <2>5, <2>6, AddsToSets DEF e
<1>10. CASE req.op = "archive_position"
  BY <1>10, EffectCases, EmptiesPosition DEF Sound
<1>11. CASE \/ req.op \in {"roles", "tree", "search", "positions"}
            \/ req.op = "assign" /\ ~Vacant(req.in)
  BY <1>1, <1>11, EffectCases, AddsNames
<1> QED
  BY <1>3, <1>4, <1>5, <1>6, <1>7, <1>8, <1>9, <1>10, <1>11 DEF Sound, Ops

-----------------------------------------------------------------------------
(* The call a run waits for makes sense.                                   *)

\* A division that comes in its turn has a parent that is known.
LEMMA ParentKnown ==
  ASSUME NEW t, NEW n \in DOMAIN Divisions, DivisionsKnown(t, n), t.ids[Root] # 0
  PROVE  t.ids[Divisions[n].parent] # 0
<1>1. CASE Divisions[n].parent = Root
  BY <1>1
<1>2. ASSUME NEW j \in 1..(n - 1), Divisions[j].name = Divisions[n].parent
      PROVE  t.ids[Divisions[n].parent] # 0
  <2>1. j \in DOMAIN Divisions /\ j < n
    BY Lists
  <2> QED
    BY <1>2, <2>1 DEF DivisionsKnown
<1> QED
  BY <1>1, <1>2, ScriptAssumption

\* When all divisions are known, so is that of an assignment, and the first.
LEMMA AllKnown ==
  ASSUME NEW t, DivisionsKnown(t, Len(Divisions) + 1), t.ids[Root] # 0
  PROVE  /\ \A n \in DOMAIN Divisions : t.ids[Divisions[n].name] # 0
         /\ \A n \in DOMAIN Assignments : t.ids[Assignments[n].division] # 0
         /\ t.ids[Divisions[1].name] # 0
<1>1. \A n \in DOMAIN Divisions : t.ids[Divisions[n].name] # 0
  BY Lists DEF DivisionsKnown
<1>2. 1 \in DOMAIN Divisions
  BY Lists
<1> QED
  BY <1>1, <1>2, ScriptAssumption

\* An id that is known is that of a division of the name.
LEMMA KnownIds ==
  ASSUME NEW d, NEW t, Remembers(d, t), NEW k \in Keys, t.ids[k] # 0
  PROVE  t.ids[k] \in DOMAIN d.divisions /\ d.divisions[t.ids[k]].name = k
BY DEF Remembers

\* Every request of the script makes sense when it is sent, and as long as it
\* is waited for.
LEMMA AsksSound ==
  ASSUME NEW d, TablesInv(d), NEW t, NEW c,
         Remembers(d, t), Reached(d, t), Asks(d, t, c), c.state # "idle"
  PROVE  Sound(d, c.req)
<1>1. t.pc \in Pcs \ (Halted \cup {"bootstrap"})
  BY DEF Asks, Remembers
<1>2. t.ids[Root] # 0 /\ Admin \in d.users /\ t.ids[Root] \in DOMAIN d.divisions
  BY <1>1, KnownIds, KeysOfScript DEF Reached
<1>3. CASE t.pc = "patch_root"
  BY <1>2, <1>3, RowDomains DEF Asks, Sound, Request, Ops
<1>4. CASE t.pc \in {"roles", "role"}
  <2>1. Roles[t.n] \in Range(Roles)
    BY <1>4, Lists DEF Reached
  <2> QED
    BY <1>4, <2>1 DEF Asks, Sound, Request, Ops, ListRoles
<1>5. CASE t.pc \in {"tree", "division"}
  <2>1. /\ Divisions[t.n].name \in Keys \ {Temp} /\ Divisions[t.n].parent \in Keys
        /\ t.ids[Divisions[t.n].parent] # 0
    BY <1>2, <1>5, ParentKnown, KeysOfScript DEF Reached
  <2>2. t.ids[Divisions[t.n].parent] \in DOMAIN d.divisions
    BY <2>1, KnownIds
  <2>3. t.ids[Divisions[t.n].name] # 0 => t.ids[Divisions[t.n].name] \in DOMAIN d.divisions
    BY <2>1, KnownIds
  <2> QED
    BY <1>5, <2>1, <2>2, <2>3 DEF Asks, Sound, Request, Ops, ReadTree
<1>6. CASE t.pc \in {"register", "find_user"}
  <2>1. People[t.n] \in Range(People)
    BY <1>6, Lists DEF Reached
  <2> QED
    BY <1>6, <2>1 DEF Asks, Sound, Request, Ops, Register
<1>7. CASE t.pc \in {"positions", "position", "member"}
  <2>1. /\ t.n \in DOMAIN Assignments /\ Assignments[t.n].title \in Titles \ {Temp}
        /\ t.ids[Assignments[t.n].division] # 0
        /\ Assignments[t.n].division \in Keys
        /\ Assignments[t.n].person \in Range(People)
    BY <1>2, <1>7, AllKnown, KeysOfScript DEF Reached
  <2>2. t.ids[Assignments[t.n].division] \in DOMAIN d.divisions
    BY <2>1, KnownIds
  <2>3. CASE t.pc \in {"positions", "position"}
    BY <2>1, <2>2, <2>3 DEF Asks, Sound, Request, Ops, ListPositions
  <2>4. CASE t.pc = "member"
    <3>1. PICK j \in DOMAIN People : People[j] = Assignments[t.n].person
      BY <2>1 DEF Range
    <3>2. Assignments[t.n].person \in d.users
      BY <2>4, <3>1, Lists DEF Reached, Registered
    <3>3. Fits(d, t.pos, t.n) /\ t.pos \in DOMAIN d.positions
      BY <2>4 DEF Reached, Fits
    <3>4. Meant(d, Assignments[t.n].person, t.pos)
      BY <2>1, <3>3 DEF Meant
    <3> QED
      BY <2>4, <3>2, <3>3, <3>4 DEF Asks, Sound, Request, Ops, Assign
  <2> QED
    BY <1>7, <2>3, <2>4
<1>8. CASE t.pc \in TempPcs
  <2>1. t.ids[Divisions[1].name] \in DOMAIN d.divisions
    BY <1>2, <1>8, AllKnown, KnownIds, KeysOfScript, Lists DEF Reached
  <2>2. t.pc # "temp_division" =>
          t.ids[Temp] \in DOMAIN d.divisions /\ d.divisions[t.ids[Temp]].name = Temp
    BY <1>8, KnownIds, KeysOfScript DEF Reached
  <2>3. t.pc \in {"temp_member", "temp_archive_position"} =>
          t.pos \in DOMAIN d.positions /\ d.positions[t.pos].title = Temp
    BY RowDomains DEF Reached, Remembers
  <2>4. t.pc = "temp_member" => Meant(d, Admin, t.pos)
    BY <2>3 DEF Meant
  <2> QED
    BY <1>2, <1>8, <2>1, <2>2, <2>3, <2>4, KeysOfScript
       DEF Asks, Sound, Request, Ops, TempPcs
<1> QED
  BY <1>1, <1>3, <1>4, <1>5, <1>6, <1>7, <1>8 DEF Pcs

\* A position is meant for one person.
LEMMA MeantForOne ==
  ASSUME NEW d, NEW p, NEW u, NEW v, Meant(d, u, p), Meant(d, v, p)
  PROVE  u = v
BY NamesAreApart DEF Meant, Fits

\* A position that the script finds taken is taken by whom it is meant for: no
\* assignment is unprocessable.
LEMMA NeverFull ==
  ASSUME TablesInv(db), NEW req, Sound(db, req)
  PROVE  /\ AnswerTo(req) \in {"done", "conflict"}
         /\ AnswerTo(req) = "conflict" <=> Taken(req)
         /\ req.op = "assign" => Vacant(req.in) \/ Taken(req)
         /\ Taken(req) => req.op \in {"create_role", "register", "assign"}
<1>1. req.op = "assign" /\ ~Vacant(req.in) => Taken(req)
  <2> SUFFICES ASSUME req.op = "assign", NEW u \in db.users, <<u, req.in>> \in db.members
               PROVE  Taken(req)
    BY DEF Vacant
  <2>1. u \in Person /\ req.in \in Nat
    BY RowDomains DEF TablesInv, Tables, Sound
  <2>2. Meant(db, u, req.in) /\ Meant(db, req.name, req.in)
    BY <2>1 DEF TablesInv, Sound
  <2> QED
    BY <2>2, MeantForOne DEF Taken
<1>2. Taken(req) => req.op \in {"create_role", "register", "assign"}
  BY DEF Taken
<1>3. Taken(req) \in BOOLEAN
  <2>1. CASE req.op = "create_role"
    BY <2>1 DEF Taken
  <2>2. CASE req.op = "register"
    BY <2>2 DEF Taken
  <2>3. CASE req.op = "assign"
    BY <2>3 DEF Taken
  <2>4. CASE req.op \notin {"create_role", "register", "assign"}
    BY <2>4 DEF Taken
  <2> QED
    BY <2>1, <2>2, <2>3, <2>4
<1>4. /\ Taken(req) => AnswerTo(req) = "conflict"
      /\ ~Taken(req) => AnswerTo(req) = "done"
  <2>1. ASSUME Taken(req) PROVE AnswerTo(req) = "conflict"
    BY <2>1 DEF AnswerTo
  <2>2. ASSUME ~Taken(req) PROVE AnswerTo(req) = "done"
    <3>1. ~(req.op = "assign" /\ ~Vacant(req.in))
      BY <1>1, <2>2
    <3> QED
      BY <2>2, <3>1 DEF AnswerTo
  <2> QED
    BY <1>3, <2>1, <2>2
<1> QED
  BY <1>1, <1>2, <1>3, <1>4

-----------------------------------------------------------------------------
(* The server.                                                             *)

\* A request changes only the tables it is about.
LEMMA OnlyItsTable ==
  ASSUME db \in Tables, NEW req, Sound(db, req)
  PROVE  /\ req.op # "create_role" => Effect(req).roles = db.roles
         /\ req.op \notin {"create_division", "edit_division", "archive_division"} =>
              Effect(req).divisions = db.divisions
         /\ req.op \notin {"create_position", "archive_position"} =>
              Effect(req).positions = db.positions
<1> DEFINE e == Effect(req)
<1> HIDE DEF e
<1>1. CASE req.op = "create_role"
  <2>1. e = [db EXCEPT !.roles = @ \cup {req.name},
                       !.granted = @ \cup ({req.name} \ db.roles)]
    BY <1>1, EffectCases DEF e
  <2> QED
    BY <1>1, <2>1 DEF Tables, e
<1>2. CASE req.op = "edit_role"
  <2>1. e = [db EXCEPT !.granted = @ \cup {req.name}]
    BY <1>2, EffectCases DEF e
  <2> QED
    BY <1>2, <2>1 DEF Tables, e
<1>3. CASE req.op \in {"create_division", "edit_division", "archive_division"}
  <2>1. CASE req.op = "create_division"
    <3>1. e = [db EXCEPT !.divisions = Append(@, [name |-> req.name, parent |-> req.in,
                                          texts |-> "script", archived |-> FALSE])]
      BY <2>1, EffectCases DEF e
    <3> QED
      BY <2>1, <3>1 DEF Tables, e
  <2>2. CASE req.op = "edit_division"
    <3>1. e = [db EXCEPT !.divisions[req.in].texts = "script"]
      BY <2>2, EffectCases DEF e
    <3> QED
      BY <2>2, <3>1 DEF Tables, e
  <2>3. CASE req.op = "archive_division"
    <3>1. e = [db EXCEPT !.divisions[req.in].archived = TRUE]
      BY <2>3, EffectCases DEF e
    <3> QED
      BY <2>3, <3>1 DEF Tables, e
  <2> QED
    BY <1>3, <2>1, <2>2, <2>3
<1>4. CASE req.op = "register"
  <2>1. e = [db EXCEPT !.users = @ \cup {req.name}]
    BY <1>4, EffectCases DEF e
  <2> QED
    BY <1>4, <2>1 DEF Tables, e
<1>5. CASE req.op = "create_position"
  <2>1. e = [db EXCEPT !.positions = Append(@, [title |-> req.name, division |-> req.in,
                                        archived |-> FALSE])]
    BY <1>5, EffectCases DEF e
  <2> QED
    BY <1>5, <2>1 DEF Tables, e
<1>6. CASE req.op = "assign" /\ Vacant(req.in)
  <2>1. e = [db EXCEPT !.members = @ \cup {<<req.name, req.in>>}]
    BY <1>6, EffectCases DEF e
  <2> QED
    BY <1>6, <2>1 DEF Tables, e
<1>7. CASE req.op = "archive_position"
  BY <1>7, ArchivesSeat
<1>8. CASE \/ req.op \in {"roles", "tree", "search", "positions"}
           \/ req.op = "assign" /\ ~Vacant(req.in)
  BY <1>8, EffectCases
<1> QED
  BY <1>1, <1>2, <1>3, <1>4, <1>5, <1>6, <1>7, <1>8 DEF Sound, Ops

\* What a request has done to the tables when it is served.
LEMMA Served ==
  ASSUME TablesInv(db), NEW req, Sound(db, req)
  PROVE  /\ req.op = "register" => req.name \in Effect(req).users
         /\ req.op = "assign" => <<req.name, req.in>> \in Effect(req).members
         /\ req.op = "create_division" =>
              /\ Len(db.divisions) + 1 \in DOMAIN Effect(req).divisions
              /\ Effect(req).divisions[Len(db.divisions) + 1].name = req.name
         /\ req.op = "create_position" =>
              /\ Len(db.positions) + 1 \in DOMAIN Effect(req).positions
              /\ Effect(req).positions[Len(db.positions) + 1].title = req.name
              /\ Effect(req).positions[Len(db.positions) + 1].division = req.in
         /\ req.op # "create_role" => Effect(req).roles = db.roles
<1>1. db \in Tables /\ db.divisions \in Seq(Row) /\ db.positions \in Seq(Seat)
      /\ DOMAIN db.divisions \subseteq Nat
  BY RowDomains DEF TablesInv, Tables
<1>2. req.op = "register" => req.name \in Effect(req).users
  <2>1. req.op = "register" => Effect(req) = [db EXCEPT !.users = @ \cup {req.name}]
    BY EffectCases
  <2> QED
    BY <1>1, <2>1 DEF Tables
<1>3. req.op = "assign" => <<req.name, req.in>> \in Effect(req).members
  <2>1. CASE req.op = "assign" /\ Vacant(req.in)
    <3>1. Effect(req) = [db EXCEPT !.members = @ \cup {<<req.name, req.in>>}]
      BY <2>1, EffectCases
    <3> QED
      BY <1>1, <3>1 DEF Tables
  <2>2. CASE req.op = "assign" /\ ~Vacant(req.in)
    BY <2>2, EffectCases, NeverFull DEF Taken
  <2> QED
    BY <2>1, <2>2
<1>4. req.op = "create_division" =>
        /\ Len(db.divisions) + 1 \in DOMAIN Effect(req).divisions
        /\ Effect(req).divisions[Len(db.divisions) + 1].name = req.name
  <2> SUFFICES ASSUME req.op = "create_division"
               PROVE  /\ Len(db.divisions) + 1 \in DOMAIN Effect(req).divisions
                      /\ Effect(req).divisions[Len(db.divisions) + 1].name = req.name
    OBVIOUS
  <2> DEFINE r == [name |-> req.name, parent |-> req.in,
                   texts |-> "script", archived |-> FALSE]
  <2>1. r \in Row /\ r.name = req.name
    BY <1>1 DEF Row, Sound
  <2>2. Effect(req) = [db EXCEPT !.divisions = Append(@, r)]
    BY EffectCases
  <2>3. Effect(req).divisions = Append(db.divisions, r)
    BY <1>1, <2>2 DEF Tables
  <2> HIDE DEF r
  <2> QED
    BY <1>1, <2>1, <2>3, Appended
<1>5. req.op = "create_position" =>
        /\ Len(db.positions) + 1 \in DOMAIN Effect(req).positions
        /\ Effect(req).positions[Len(db.positions) + 1].title = req.name
        /\ Effect(req).positions[Len(db.positions) + 1].division = req.in
  <2> SUFFICES ASSUME req.op = "create_position"
               PROVE  /\ Len(db.positions) + 1 \in DOMAIN Effect(req).positions
                      /\ Effect(req).positions[Len(db.positions) + 1].title = req.name
                      /\ Effect(req).positions[Len(db.positions) + 1].division = req.in
    OBVIOUS
  <2> DEFINE r == [title |-> req.name, division |-> req.in, archived |-> FALSE]
  <2>1. r \in Seat /\ r.title = req.name /\ r.division = req.in
    BY <1>1 DEF Seat, Sound
  <2>2. Effect(req) = [db EXCEPT !.positions = Append(@, r)]
    BY EffectCases
  <2>3. Effect(req).positions = Append(db.positions, r)
    BY <1>1, <2>2 DEF Tables
  <2> HIDE DEF r
  <2> QED
    BY <1>1, <2>1, <2>3, Appended
<1>6. req.op # "create_role" => Effect(req).roles = db.roles
  BY <1>1, OnlyItsTable
<1> QED
  BY <1>2, <1>3, <1>4, <1>5, <1>6

\* What a read finds, and which row a create is answered with.
LEMMA Found ==
  ASSUME TablesInv(db), NEW req, Sound(db, req), NEW id \in Ids(req)
  PROVE  /\ id \in Nat
         /\ req.op = "tree" /\ id # 0 =>
              id \in DOMAIN db.divisions /\ db.divisions[id].name = req.name
         /\ req.op = "positions" /\ id # 0 =>
              /\ id \in DOMAIN db.positions /\ db.positions[id].title = req.name
              /\ db.positions[id].division = req.in
         /\ req.op = "roles" => (id # 0 <=> req.name \in db.roles)
         /\ req.op = "create_division" => id = Len(db.divisions) + 1
         /\ req.op = "create_position" => id = Len(db.positions) + 1
         /\ req.op = "edit_division" => id = 0
<1>1. /\ DOMAIN db.divisions = 1..Len(db.divisions) /\ Len(db.divisions) \in Nat
      /\ DOMAIN db.positions = 1..Len(db.positions) /\ Len(db.positions) \in Nat
  BY RowDomains
<1>2. CASE req.op = "tree"
  BY <1>1, <1>2 DEF Ids, DivisionsNamed
<1>3. CASE req.op = "positions"
  BY <1>1, <1>3 DEF Ids
<1>4. CASE req.op = "roles"
  <2>1. {1 : r \in db.roles \cap {req.name}} = IF req.name \in db.roles THEN {1} ELSE {}
    OBVIOUS
  <2>2. CASE req.name \in db.roles
    <3>1. Ids(req) = {1}
      BY <1>4, <2>1, <2>2 DEF Ids
    <3> QED
      BY <1>4, <2>2, <3>1
  <2>3. CASE req.name \notin db.roles
    <3>1. Ids(req) = {0}
      BY <1>4, <2>1, <2>3 DEF Ids
    <3> QED
      BY <1>4, <2>3, <3>1
  <2> QED
    BY <2>2, <2>3
<1>5. CASE req.op \in {"create_division", "create_position"}
  <2>1. CASE req.op = "create_division"
    <3>1. Ids(req) = {Len(db.divisions) + 1}
      BY <2>1 DEF Ids
    <3> QED
      BY <1>1, <2>1, <3>1
  <2>2. CASE req.op = "create_position"
    <3>1. Ids(req) = {Len(db.positions) + 1}
      BY <2>2 DEF Ids
    <3> QED
      BY <1>1, <2>2, <3>1
  <2> QED
    BY <1>5, <2>1, <2>2
<1>6. CASE req.op \notin {"tree", "positions", "roles", "create_division", "create_position"}
  BY <1>6 DEF Ids
<1> QED
  BY <1>2, <1>3, <1>4, <1>5, <1>6

\* An answer of the server is true.
LEMMA ServeAnswers ==
  ASSUME SeedInv, Serve
  PROVE  Answered(db', call')
<1>1. /\ call.state = "sent" /\ db' = Effect(call.req)
      /\ UNCHANGED <<script, abandoned, late, disturbed>>
  BY DEF Serve
<1>2. PICK id \in Ids(call.req) :
        call' = [state |-> "answered", req |-> call.req, id |-> id,
                 answer |-> AnswerTo(call.req), same |-> AsInScript(call.req, id)]
  BY DEF Serve
<1>3. TablesInv(db) /\ Sound(db, call.req)
  BY <1>1, AsksSound DEF SeedInv
<1>4. TablesInv(db') /\ Grows(db, db')
  BY <1>1, <1>3, EffectKeeps
<1>5. /\ call'.state = "answered" /\ call'.req = call.req /\ call'.id = id
      /\ call'.answer = AnswerTo(call.req) /\ call'.same = AsInScript(call.req, id)
  BY <1>2
<1>6. call'.same \in BOOLEAN
  <2>1. CASE call.req.op = "roles"
    BY <1>5, <2>1 DEF AsInScript
  <2>2. CASE call.req.op = "tree"
    BY <1>5, <2>2 DEF AsInScript
  <2>3. CASE call.req.op \notin {"roles", "tree"}
    BY <1>5, <2>3 DEF AsInScript
  <2> QED
    BY <2>1, <2>2, <2>3
<1>7. DOMAIN db.divisions \subseteq DOMAIN db'.divisions
      /\ DOMAIN db.positions \subseteq DOMAIN db'.positions
      /\ Len(db.divisions) \in Nat /\ Len(db.positions) \in Nat
  BY <1>3, <1>4, GrownDomains, RowDomains
<1>8. /\ call.req.op \in {"tree", "create_division"} /\ id # 0 =>
           id \in DOMAIN db'.divisions /\ db'.divisions[id].name = call.req.name
      /\ call.req.op \in {"positions", "create_position"} /\ id # 0 =>
           /\ id \in DOMAIN db'.positions
           /\ db'.positions[id].title = call.req.name
           /\ db'.positions[id].division = call.req.in
  <2>1. CASE call.req.op = "tree"
    <3>1. id # 0 => id \in DOMAIN db.divisions /\ db.divisions[id].name = call.req.name
      BY <1>3, <2>1, Found
    <3> QED
      BY <1>4, <1>7, <2>1, <3>1 DEF Grows
  <2>2. CASE call.req.op = "positions"
    <3>1. id # 0 => /\ id \in DOMAIN db.positions
                    /\ db.positions[id].title = call.req.name
                    /\ db.positions[id].division = call.req.in
      BY <1>3, <2>2, Found
    <3> QED
      BY <1>4, <1>7, <2>2, <3>1 DEF Grows
  <2>3. CASE call.req.op \in {"create_division", "create_position"}
    BY <1>1, <1>3, <2>3, Found, Served
  <2> QED
    BY <2>1, <2>2, <2>3
<1>9. /\ call.req.op = "roles" /\ id # 0 => call.req.name \in db'.roles
      /\ call.req.op = "register" => call.req.name \in db'.users
      /\ call.req.op = "assign" => <<call.req.name, call.req.in>> \in db'.members
  BY <1>1, <1>3, <1>4, Found, Served DEF Grows
<1>10. /\ id \in Nat
       /\ call.req.op \in {"create_division", "create_position"} => id # 0
       /\ call.req.op = "edit_division" => id = 0
  BY <1>3, <1>7, Found
<1>11. /\ AnswerTo(call.req) \in {"done", "conflict"}
       /\ AnswerTo(call.req) = "conflict" =>
            call.req.op \in {"create_role", "register", "assign"}
  BY <1>3, NeverFull
<1> QED
  BY <1>5, <1>6, <1>8, <1>9, <1>10, <1>11 DEF Answered

\* Serving the call of the run keeps the invariant.
LEMMA ServeStep ==
  ASSUME SeedInv, Serve
  PROVE  SeedInv'
<1>1. /\ call.state = "sent" /\ db' = Effect(call.req)
      /\ UNCHANGED <<script, abandoned, late, disturbed>>
  BY DEF Serve
<1>2. PICK id \in Ids(call.req) :
        call' = [state |-> "answered", req |-> call.req, id |-> id,
                 answer |-> AnswerTo(call.req), same |-> AsInScript(call.req, id)]
  BY DEF Serve
<1>3. TablesInv(db) /\ Sound(db, call.req)
  BY <1>1, AsksSound DEF SeedInv
<1>4. TablesInv(db') /\ Grows(db, db')
  BY <1>1, <1>3, EffectKeeps
<1>5. Remembers(db', script) /\ Reached(db', script) /\ Asks(db', script, call)
  BY <1>3, <1>4, RunGrows DEF SeedInv
<1>6. Asks(db', script', call')
  BY <1>1, <1>2, <1>5 DEF Asks
<1>7. Answered(db', call')
  BY ServeAnswers
<1>8. ~disturbed' => RoleIsNew(db', call')
  <2> SUFFICES ASSUME ~disturbed PROVE RoleIsNew(db', call')
    BY <1>1
  <2>1. RoleIsNew(db, call)
    BY DEF SeedInv
  <2>2. call.req.op = "roles" /\ id = 0 => call.req.name \notin db'.roles
    BY <1>1, <1>3, Found, Served
  <2>3. call.req.op = "create_role" => AnswerTo(call.req) = "done"
    <3> SUFFICES ASSUME call.req.op = "create_role" PROVE ~Taken(call.req)
      BY <1>3, NeverFull
    <3> QED
      BY <1>1, <2>1 DEF RoleIsNew, Taken
  <2> QED
    BY <1>2, <2>2, <2>3 DEF RoleIsNew
<1>9. \A i \in DOMAIN abandoned : Sound(db', abandoned[i])
  BY <1>3, <1>4, SoundGrows DEF SeedInv
<1> QED
  BY <1>1, <1>4, <1>5, <1>6, <1>7, <1>8, <1>9 DEF SeedInv

\* Serving a late call keeps it.
LEMMA ServeLateStep ==
  ASSUME SeedInv, ServeLate
  PROVE  SeedInv'
<1>1. PICK i \in late :
        /\ db' = Effect(abandoned[i])
        /\ late' = late \ {i}
        /\ disturbed' = (disturbed \/ script.pc \notin {"stopped", "refused", "done"})
        /\ UNCHANGED <<script, call, abandoned>>
  BY DEF ServeLate
<1>2. TablesInv(db) /\ Sound(db, abandoned[i])
  BY DEF SeedInv
<1>3. TablesInv(db') /\ Grows(db, db')
  BY <1>1, <1>2, EffectKeeps
<1>4. Remembers(db', script) /\ Reached(db', script) /\ Asks(db', script, call)
  BY <1>2, <1>3, RunGrows DEF SeedInv
<1>5. Answered(db', call)
  BY <1>2, <1>3, AsksSound, AnsweredGrows DEF SeedInv
<1>6. ~disturbed' => RoleIsNew(db', call)
  BY <1>1 DEF SeedInv, Asks, RoleIsNew, Halted
<1>7. \A j \in DOMAIN abandoned : Sound(db', abandoned[j])
  BY <1>2, <1>3, SoundGrows DEF SeedInv
<1> QED
  BY <1>1, <1>3, <1>4, <1>5, <1>6, <1>7 DEF SeedInv

-----------------------------------------------------------------------------
(* The script.                                                             *)

\* A call that has just been sent.
LEMMA SentCall ==
  ASSUME NEW req
  PROVE  /\ Sent(req).state = "sent" /\ Sent(req).req = req /\ Sent(req).answer = "done"
         /\ Sent(req).id = 0 /\ Sent(req).same = TRUE
BY DEF Sent, Idle

\* A run that asks for something in its turn, with nothing else changed, keeps
\* the invariant.
LEMMA Continues ==
  ASSUME SeedInv, NEW req, call' = Sent(req),
         UNCHANGED <<db, abandoned, late, disturbed>>,
         script'.pc # "refused",
         Remembers(db, script'), Reached(db, script'), Asks(db, script', Sent(req)),
         req.op = "create_role" /\ ~disturbed => req.name \notin db.roles
  PROVE  SeedInv'
<1>1. Answered(db, call')
  <2>1. /\ call'.state = "sent" /\ call'.answer = "done"
        /\ call'.id = 0 /\ call'.same = TRUE
    BY SentCall
  <2> QED
    BY <2>1, 0 \in Nat, TRUE \in BOOLEAN DEF Answered
<1>2. ~disturbed => RoleIsNew(db, call')
  BY SentCall DEF RoleIsNew
<1> QED
  BY <1>1, <1>2 DEF SeedInv

\* What GoOn does to the script.
LEMMA GoesOn ==
  ASSUME SeedInv, NEW from, NEW pc, NEW n, NEW ids, NEW pos, NEW req,
         GoOn(from, pc, n, ids, pos, req)
  PROVE  /\ script.pc = from /\ call.state = "answered" /\ call.answer = "done"
         /\ script'.pc = pc /\ script'.n = n /\ script'.ids = ids /\ script'.pos = pos
         /\ call' = Sent(req) /\ UNCHANGED <<db, abandoned, late, disturbed>>
BY DEF GoOn, SeedInv, Remembers

\* Ids that are kept or set to what is there.
LEMMA RemembersMore ==
  ASSUME NEW d, TablesInv(d), NEW t, Remembers(d, t), NEW pc \in Pcs, NEW n \in Nat,
         NEW ids \in [Keys -> Nat], NEW pos \in Nat, pos <= Len(d.positions),
         \A k \in Keys : \/ ids[k] = t.ids[k]
                         \/ ids[k] \in DOMAIN d.divisions /\ d.divisions[ids[k]].name = k
  PROVE  Remembers(d, [t EXCEPT !.pc = pc, !.n = n, !.ids = ids, !.pos = pos])
<1> DEFINE u == [t EXCEPT !.pc = pc, !.n = n, !.ids = ids, !.pos = pos]
<1>1. /\ u \in [pc : Pcs, n : Nat, ids : [Keys -> Nat], pos : Nat, runs : 0..MaxRuns,
                complete : Nat]
      /\ u.ids = ids /\ u.pos = pos
  BY DEF Remembers
<1>2. \A k \in Keys : ids[k] # 0 =>
        ids[k] \in DOMAIN d.divisions /\ d.divisions[ids[k]].name = k
  BY DEF Remembers
<1> HIDE DEF u
<1>3. Remembers(d, u)
  BY <1>1, <1>2 DEF Remembers
<1> QED
  BY <1>3 DEF u

\* Strings that are states of a run.
LEMMA PcTypes ==
  {"patch_root", "roles", "role", "tree", "division", "register", "find_user",
   "positions", "position", "member", "temp_division", "temp_position", "temp_member",
   "temp_archive_position", "temp_archive"} = Pcs \ (Halted \cup {"bootstrap"})
BY DEF Pcs, Halted, TempPcs

\* A run that goes on keeps the invariant if it has what it needs there.
LEMMA NextCall ==
  ASSUME SeedInv, NEW from, NEW pc \in Pcs \ {"refused"}, NEW n \in Nat,
         NEW ids \in [Keys -> Nat], NEW pos \in Nat, NEW req,
         GoOn(from, pc, n, ids, pos, req),
         pos <= Len(db.positions),
         \A k \in Keys : \/ ids[k] = script.ids[k]
                         \/ ids[k] \in DOMAIN db.divisions /\ db.divisions[ids[k]].name = k,
         Reached(db, script'), Asks(db, script', Sent(req)),
         req.op = "create_role" /\ ~disturbed => req.name \notin db.roles
  PROVE  SeedInv'
<1>1. /\ script' = [script EXCEPT !.pc = pc, !.n = n, !.ids = ids, !.pos = pos]
      /\ call' = Sent(req) /\ UNCHANGED <<db, abandoned, late, disturbed>>
  BY DEF GoOn
<1>2. TablesInv(db) /\ Remembers(db, script)
  BY DEF SeedInv
<1>3. Remembers(db, script')
  BY <1>1, <1>2, RemembersMore
<1>4. script'.pc # "refused"
  BY GoesOn
<1> QED
  BY <1>1, <1>3, <1>4, Continues

\* The calls of the last part, in full.
LEMMA AsksLater ==
  ASSUME NEW d, NEW t, NEW c, c.state = "sent",
         \/ t.pc = "position" /\ c.req = Request("create_position", Assignments[t.n].title,
                                                t.ids[Assignments[t.n].division])
         \/ t.pc = "member" /\ c.req = Assign(t.n, t.pos)
         \/ t.pc = "temp_division" /\
              c.req = Request("create_division", Temp, t.ids[Divisions[1].name])
         \/ t.pc = "temp_position" /\ c.req = Request("create_position", Temp, t.ids[Temp])
         \/ t.pc = "temp_member" /\ c.req = Request("assign", Admin, t.pos)
         \/ t.pc = "temp_archive_position" /\
              c.req = Request("archive_position", Temp, t.pos)
         \/ t.pc = "temp_archive" /\ c.req = Request("archive_division", Temp, t.ids[Temp])
  PROVE  Asks(d, t, c)
<1>1. CASE t.pc = "position" /\ c.req = Request("create_position", Assignments[t.n].title,
                                              t.ids[Assignments[t.n].division])
  BY <1>1 DEF Asks, Halted
<1>2. CASE t.pc = "member" /\ c.req = Assign(t.n, t.pos)
  BY <1>2 DEF Asks, Halted
<1>3. CASE t.pc = "temp_division" /\
             c.req = Request("create_division", Temp, t.ids[Divisions[1].name])
  BY <1>3 DEF Asks, Halted
<1>4. CASE t.pc = "temp_position" /\ c.req = Request("create_position", Temp, t.ids[Temp])
  BY <1>4 DEF Asks, Halted
<1>5. CASE t.pc = "temp_member" /\ c.req = Request("assign", Admin, t.pos)
  BY <1>5 DEF Asks, Halted
<1>6. CASE t.pc = "temp_archive_position" /\ c.req = Request("archive_position", Temp, t.pos)
  BY <1>6 DEF Asks, Halted
<1>7. CASE t.pc = "temp_archive" /\ c.req = Request("archive_division", Temp, t.ids[Temp])
  BY <1>7 DEF Asks, Halted
<1> QED
  BY <1>1, <1>2, <1>3, <1>4, <1>5, <1>6, <1>7

\* What is known of ids and positions at any time.
LEMMA KnownNow ==
  ASSUME SeedInv
  PROVE  /\ TablesInv(db) /\ Remembers(db, script) /\ Reached(db, script)
         /\ Asks(db, script, call) /\ Answered(db, call)
         /\ script.ids \in [Keys -> Nat] /\ script.n \in Nat /\ script.pos \in Nat
         /\ 0 <= Len(db.positions) /\ script.pos <= Len(db.positions)
         /\ DOMAIN db.positions = 1..Len(db.positions) /\ Len(db.positions) \in Nat
         /\ DOMAIN db.divisions = 1..Len(db.divisions) /\ Len(db.divisions) \in Nat
BY RowDomains DEF SeedInv, Remembers

\* After the root has been edited, roles come first.
LEMMA PatchRootStep ==
  ASSUME SeedInv, PatchRoot
  PROVE  SeedInv'
<1>1. GoOn("patch_root", "roles", 1, script.ids, 0, ListRoles(1))
  BY DEF PatchRoot
<1>2. /\ script.pc = "patch_root"
      /\ script'.pc = "roles" /\ script'.n = 1 /\ script'.ids = script.ids
  BY <1>1, GoesOn
<1>3. Reached(db, script')
  BY <1>2, Lists DEF SeedInv, Reached, Halted, TempPcs
<1>4. Asks(db, script', Sent(ListRoles(1)))
  BY <1>2, SentCall DEF Asks, Halted
<1>5. ListRoles(1).op = "roles"
  BY DEF ListRoles, Request
<1> QED
  BY <1>1, <1>3, <1>4, <1>5, NextCall, KnownNow, PcTypes

\* A role is created or edited.
LEMMA EnsureRoleStep ==
  ASSUME SeedInv, EnsureRole
  PROVE  SeedInv'
<1> DEFINE op == IF call.id = 0 THEN "create_role" ELSE "edit_role"
           req == Request(op, Roles[script.n], 0)
<1>1. GoOn("roles", "role", script.n, script.ids, 0, req)
  BY DEF EnsureRole
<1>2. req.op = op /\ req.name = Roles[script.n]
  BY DEF Request
<1>3. call.id # 0 => req = Request("edit_role", Roles[script.n], 0)
  OBVIOUS
<1>4. call.id = 0 => req = Request("create_role", Roles[script.n], 0)
  OBVIOUS
<1>5. req.op = "create_role" => call.id = 0
  BY <1>2
<1> HIDE DEF op, req
<1>6. /\ script.pc = "roles" /\ call.state = "answered" /\ call.answer = "done"
      /\ script'.pc = "role" /\ script'.n = script.n /\ script'.ids = script.ids
  BY <1>1, GoesOn
<1>7. call.req = Request("roles", Roles[script.n], 0)
      /\ call.req.op = "roles" /\ call.req.name = Roles[script.n]
  BY <1>6, KnownNow DEF Asks, ListRoles, Request
<1>8. call.id # 0 => Roles[script.n] \in db.roles
  BY <1>6, <1>7 DEF SeedInv, Answered
<1>9. req.op = "create_role" /\ ~disturbed => req.name \notin db.roles
  BY <1>2, <1>5, <1>6, <1>7 DEF SeedInv, RoleIsNew
<1>10. Reached(db, script')
  BY <1>6 DEF SeedInv, Reached, Halted, TempPcs
<1>11. Asks(db, script', Sent(req))
  BY <1>3, <1>4, <1>6, <1>8, SentCall DEF Asks, Halted
<1> QED
  BY <1>1, <1>9, <1>10, <1>11, NextCall, KnownNow, PcTypes

\* The next role, or the first division.
LEMMA RoleEnsuredStep ==
  ASSUME SeedInv, RoleEnsured
  PROVE  SeedInv'
<1>1. PICK from \in {"roles", "role"} :
        IF script.n < Len(Roles)
        THEN GoOn(from, "roles", script.n + 1, script.ids, 0, ListRoles(script.n + 1))
        ELSE GoOn(from, "tree", 1, script.ids, 0, ReadTree(1, script.ids))
  BY DEF RoleEnsured
<1>2. ListRoles(script.n + 1).op = "roles" /\ ReadTree(1, script.ids).op = "tree"
  BY DEF ListRoles, ReadTree, Request
<1>3. CASE GoOn(from, "roles", script.n + 1, script.ids, 0, ListRoles(script.n + 1))
           /\ script.n < Len(Roles)
  <2>1. /\ script.pc = from
        /\ script'.pc = "roles" /\ script'.n = script.n + 1 /\ script'.ids = script.ids
    BY <1>3, GoesOn
  <2>2. script.n + 1 \in DOMAIN Roles
    BY <1>3, <2>1, KnownNow, Lists
  <2>3. Reached(db, script')
    BY <2>1, <2>2 DEF SeedInv, Reached, Halted, TempPcs
  <2>4. Asks(db, script', Sent(ListRoles(script.n + 1)))
    BY <2>1, SentCall DEF Asks, Halted
  <2>5. script.n + 1 \in Nat
    BY KnownNow
  <2> QED
    BY <1>2, <1>3, <2>3, <2>4, <2>5, NextCall, KnownNow, PcTypes
<1>4. CASE GoOn(from, "tree", 1, script.ids, 0, ReadTree(1, script.ids))
  <2>1. /\ script.pc = from
        /\ script'.pc = "tree" /\ script'.n = 1 /\ script'.ids = script.ids
    BY <1>4, GoesOn
  <2>2. 1 \in DOMAIN Divisions /\ DivisionsKnown(script', 1)
    BY Lists DEF DivisionsKnown
  <2>3. Reached(db, script')
    BY <2>1, <2>2 DEF SeedInv, Reached, Halted, TempPcs
  <2>4. Asks(db, script', Sent(ReadTree(1, script.ids)))
    BY <2>1, SentCall DEF Asks, Halted
  <2> QED
    BY <1>2, <1>4, <2>3, <2>4, NextCall, KnownNow, PcTypes
<1> QED
  BY <1>1, <1>3, <1>4

\* A division is created or edited.
LEMMA EnsureDivisionStep ==
  ASSUME SeedInv, EnsureDivision
  PROVE  SeedInv'
<1> DEFINE name == Divisions[script.n].name
           create == Request("create_division", name,
                             script.ids[Divisions[script.n].parent])
           edit == Request("edit_division", name, call.id)
           ids == [script.ids EXCEPT ![name] = call.id]
<1>1. CASE call.id = 0 /\ GoOn("tree", "division", script.n, script.ids, 0, create)
  <2>1. create.op = "create_division"
    BY DEF Request
  <2>2. create = Request("create_division", Divisions[script.n].name,
                         script.ids[Divisions[script.n].parent])
    OBVIOUS
  <2> HIDE DEF create
  <2>3. /\ script.pc = "tree"
        /\ script'.pc = "division" /\ script'.n = script.n /\ script'.ids = script.ids
    BY <1>1, GoesOn
  <2>4. Reached(db, script')
    BY <2>3 DEF SeedInv, Reached, Halted, TempPcs, DivisionsKnown
  <2>5. Asks(db, script', Sent(create))
    BY <2>2, <2>3, SentCall DEF Asks, Halted
  <2> QED
    BY <1>1, <2>1, <2>4, <2>5, NextCall, KnownNow, PcTypes
<1>2. CASE call.id # 0 /\ GoOn("tree", "division", script.n, ids, 0, edit)
  <2>1. edit.op = "edit_division"
    BY DEF Request
  <2>2. script.pc = "tree" /\ call.state = "answered"
        /\ script'.pc = "division" /\ script'.n = script.n /\ script'.ids = ids
    BY <1>2, GoesOn
  <2>3. call.req.op = "tree" /\ call.req.name = name
    BY <2>2, KnownNow DEF Asks, ReadTree, Request
  <2>4. call.id \in DOMAIN db.divisions /\ db.divisions[call.id].name = name
        /\ call.id \in Nat
    BY <1>2, <2>2, <2>3 DEF SeedInv, Answered
  <2>5. script.n \in DOMAIN Divisions /\ name \in Keys /\ DivisionsKnown(script, script.n)
    BY <2>2, KeysOfScript DEF SeedInv, Reached
  <2>6. /\ ids \in [Keys -> Nat] /\ ids[name] = call.id
        /\ \A k \in Keys : k # name => ids[k] = script.ids[k]
    BY <2>4, <2>5, KnownNow
  <2>7. edit = Request("edit_division", Divisions[script.n].name, ids[name])
    BY <2>6
  <2> HIDE DEF ids, edit
  <2>8. DivisionsKnown(script', script'.n) /\ script'.ids[Root] # 0
    BY <1>2, <2>2, <2>5, <2>6, KeysOfScript
       DEF SeedInv, Reached, DivisionsKnown, Halted
  <2>9. Reached(db, script')
    BY <2>2, <2>5, <2>8 DEF SeedInv, Reached, Halted, TempPcs
  <2>10. Asks(db, script', Sent(edit))
    <3>1. /\ edit = Request("edit_division", Divisions[script'.n].name,
                            script'.ids[Divisions[script'.n].name])
          /\ script'.ids[Divisions[script'.n].name] # 0
      BY <1>2, <2>2, <2>6, <2>7
    <3> HIDE DEF name
    <3> QED
      BY <2>2, <3>1, SentCall DEF Asks, Halted
  <2>11. \A k \in Keys : \/ ids[k] = script.ids[k]
                         \/ ids[k] \in DOMAIN db.divisions /\ db.divisions[ids[k]].name = k
    BY <2>4, <2>6
  <2> QED
    BY <1>2, <2>1, <2>6, <2>9, <2>10, <2>11, NextCall, KnownNow, PcTypes
<1> QED
  BY <1>1, <1>2 DEF EnsureDivision

\* The next division, or the first person.
LEMMA DivisionEnsuredStep ==
  ASSUME SeedInv, DivisionEnsured
  PROVE  SeedInv'
<1> DEFINE name == Divisions[script.n].name
           ids == [script.ids EXCEPT ![name] = IF call.id = 0 THEN @ ELSE call.id]
<1>1. PICK from \in {"tree", "division"} :
        IF script.n < Len(Divisions)
        THEN GoOn(from, "tree", script.n + 1, ids, 0, ReadTree(script.n + 1, ids))
        ELSE GoOn(from, "register", 1, ids, 0, Register(1))
  BY DEF DivisionEnsured
<1>2. script.pc = "division" \/ call.id # 0
  BY DEF DivisionEnsured
<1>3. /\ script.pc = from /\ call.state = "answered" /\ script'.ids = ids
      /\ IF script.n < Len(Divisions)
         THEN script'.pc = "tree" /\ script'.n = script.n + 1
         ELSE script'.pc = "register" /\ script'.n = 1
  BY <1>1, GoesOn
<1>4. script.n \in DOMAIN Divisions /\ name \in Keys /\ DivisionsKnown(script, script.n)
      /\ script.ids[Root] # 0 /\ Admin \in db.users
  BY <1>3, KeysOfScript DEF SeedInv, Reached, Halted
<1>5. /\ call.id # 0 =>
           call.id \in DOMAIN db.divisions /\ db.divisions[call.id].name = name
      /\ call.id = 0 => script.ids[name] # 0
      /\ call.id \in Nat
  <2>1. CASE script.pc = "tree"
    <3>1. call.req.op = "tree" /\ call.req.name = name /\ call.id # 0
      BY <1>2, <2>1, KnownNow DEF Asks, ReadTree, Request
    <3> QED
      BY <1>3, <3>1, KnownNow DEF Answered
  <2>2. CASE script.pc = "division"
    <3>1. \/ call.req.op = "create_division" /\ call.req.name = name
          \/ call.req.op = "edit_division" /\ script.ids[name] # 0
      BY <2>2, KnownNow DEF Asks, Request
    <3>2. Answered(db, call) /\ call.state = "answered"
      BY <1>3, KnownNow
    <3>3. CASE call.req.op = "create_division" /\ call.req.name = name
      BY <3>2, <3>3 DEF Answered
    <3>4. CASE call.req.op = "edit_division" /\ script.ids[name] # 0
      <4>1. call.id = 0
        BY <3>2, <3>4 DEF Answered
      <4> QED
        BY <3>4, <4>1
    <3> QED
      BY <3>1, <3>3, <3>4
  <2> QED
    BY <1>1, <1>3, <2>1, <2>2
<1>6. /\ ids \in [Keys -> Nat]
      /\ ids[name] = IF call.id = 0 THEN script.ids[name] ELSE call.id
      /\ \A k \in Keys : k # name => ids[k] = script.ids[k]
  BY <1>4, <1>5, KnownNow
<1> HIDE DEF ids
<1>7. \A k \in Keys : \/ ids[k] = script.ids[k]
                      \/ ids[k] \in DOMAIN db.divisions /\ db.divisions[ids[k]].name = k
  BY <1>5, <1>6
<1>8. ids[Root] # 0 /\ ids[name] # 0
  BY <1>4, <1>5, <1>6, KeysOfScript
<1>9. \A j \in DOMAIN Divisions : j < script.n \/ j = script.n => ids[Divisions[j].name] # 0
  BY <1>4, <1>6, <1>8, KeysOfScript DEF DivisionsKnown
<1>10. ReadTree(script.n + 1, ids).op = "tree" /\ Register(1).op = "register"
       /\ script.n + 1 \in Nat
  BY KnownNow DEF ReadTree, Register, Request
<1>11. CASE script.n < Len(Divisions)
  <2>1. script.n + 1 \in DOMAIN Divisions
    BY <1>4, <1>11, Lists
  <2>2. DivisionsKnown(script', script.n + 1)
    BY <1>3, <1>4, <1>9, Lists DEF DivisionsKnown
  <2>3. script'.pc = "tree" /\ script'.n = script.n + 1 /\ script'.ids = ids
    BY <1>3, <1>11
  <2>4. Reached(db, script')
    BY <1>4, <1>8, <2>1, <2>2, <2>3 DEF Reached, Halted, TempPcs
  <2>5. /\ Sent(ReadTree(script.n + 1, ids)).state = "sent"
        /\ Sent(ReadTree(script.n + 1, ids)).req = ReadTree(script.n + 1, ids)
    BY SentCall
  <2>6. Asks(db, script', Sent(ReadTree(script.n + 1, ids)))
    BY <2>3, <2>5 DEF Asks, Halted
  <2> QED
    BY <1>1, <1>6, <1>7, <1>10, <1>11, <2>4, <2>6, NextCall, KnownNow, PcTypes
<1>12. CASE ~(script.n < Len(Divisions))
  <2>1. DivisionsKnown(script', Len(Divisions) + 1)
    BY <1>3, <1>4, <1>9, <1>12, Lists DEF DivisionsKnown
  <2>2. 1 \in DOMAIN People /\ Registered(db, 1)
    BY Lists DEF Registered
  <2>3. script'.pc = "register" /\ script'.n = 1 /\ script'.ids = ids
    BY <1>3, <1>12
  <2>4. Reached(db, script')
    BY <1>4, <1>8, <2>1, <2>2, <2>3 DEF Reached, Halted, TempPcs
  <2>5. Sent(Register(1)).state = "sent" /\ Sent(Register(1)).req = Register(1)
    BY SentCall
  <2>6. Asks(db, script', Sent(Register(1)))
    BY <2>3, <2>5 DEF Asks, Halted
  <2> QED
    BY <1>1, <1>6, <1>7, <1>10, <1>12, <2>4, <2>6, NextCall, KnownNow, PcTypes
<1> QED
  BY <1>11, <1>12

\* A person who is registered already is searched for.
LEMMA EnsureUserStep ==
  ASSUME SeedInv, EnsureUser
  PROVE  SeedInv'
<1> DEFINE req == Request("search", People[script.n], 0)
<1>1. /\ script.pc = "register" /\ call.answer = "conflict"
      /\ script' = [script EXCEPT !.pc = "find_user"]
      /\ call' = Sent(req) /\ UNCHANGED <<db, abandoned, late, disturbed>>
  BY DEF EnsureUser
<1>2. req.op = "search" /\ req = Request("search", People[script.n], 0)
  BY DEF Request
<1> HIDE DEF req
<1>3. /\ script'.pc = "find_user" /\ script'.n = script.n /\ script'.ids = script.ids
      /\ script'.pos = script.pos
  BY <1>1, KnownNow DEF Remembers
<1>4. call.state = "answered" /\ call.req.op = "register" /\ call.req.name = People[script.n]
  BY <1>1, KnownNow DEF Asks, Answered, Register, Request
<1>5. People[script.n] \in db.users
  BY <1>4, KnownNow DEF Answered
<1>6. Remembers(db, script')
  <2>1. script' = [script EXCEPT !.pc = "find_user", !.n = script.n,
                                 !.ids = script.ids, !.pos = script.pos]
    BY <1>1, KnownNow DEF Remembers
  <2> QED
    BY <2>1, RemembersMore, KnownNow, PcTypes
<1>7. Reached(db, script')
  BY <1>1, <1>3, <1>5, KnownNow DEF Reached, Halted, TempPcs, DivisionsKnown
<1>8. Asks(db, script', Sent(req))
  <2>1. Sent(req).state = "sent" /\ Sent(req).req = req
    BY SentCall
  <2> QED
    BY <1>2, <1>3, <2>1 DEF Asks, Halted
<1> QED
  BY <1>1, <1>2, <1>3, <1>6, <1>7, <1>8, Continues

\* The next person, or the first assignment.
LEMMA UserEnsuredStep ==
  ASSUME SeedInv, UserEnsured
  PROVE  SeedInv'
<1>1. PICK from \in {"register", "find_user"} :
        IF script.n < Len(People)
        THEN GoOn(from, "register", script.n + 1, script.ids, 0, Register(script.n + 1))
        ELSE GoOn(from, "positions", 1, script.ids, 0, ListPositions(1, script.ids))
  BY DEF UserEnsured
<1>2. /\ script.pc = from /\ call.state = "answered" /\ script'.ids = script.ids
      /\ IF script.n < Len(People)
         THEN script'.pc = "register" /\ script'.n = script.n + 1
         ELSE script'.pc = "positions" /\ script'.n = 1
  BY <1>1, GoesOn
<1>3. script.n \in DOMAIN People /\ Registered(db, script.n)
      /\ DivisionsKnown(script', Len(Divisions) + 1)
      /\ script.ids[Root] # 0 /\ Admin \in db.users
  BY <1>2, KnownNow DEF Reached, Halted, DivisionsKnown
<1>4. People[script.n] \in db.users
  <2>1. CASE script.pc = "register"
    <3>1. call.req.op = "register" /\ call.req.name = People[script.n]
      BY <2>1, KnownNow DEF Asks, Register, Request
    <3> QED
      BY <1>2, <3>1, KnownNow DEF Answered
  <2>2. CASE script.pc = "find_user"
    BY <2>2, KnownNow DEF Reached
  <2> QED
    BY <1>1, <1>2, <2>1, <2>2
<1>5. \A j \in DOMAIN People : j < script.n \/ j = script.n => People[j] \in db.users
  BY <1>3, <1>4 DEF Registered
<1>6. Register(script.n + 1).op = "register" /\ ListPositions(1, script.ids).op = "positions"
      /\ script.n + 1 \in Nat
  BY KnownNow DEF Register, ListPositions, Request
<1>7. CASE script.n < Len(People)
  <2>1. script.n + 1 \in DOMAIN People /\ Registered(db, script.n + 1)
    BY <1>3, <1>5, <1>7, Lists DEF Registered
  <2>2. Reached(db, script')
    BY <1>2, <1>3, <1>7, <2>1 DEF Reached, Halted, TempPcs
  <2>3. Asks(db, script', Sent(Register(script.n + 1)))
    <3>1. script'.pc = "register" /\ script'.n = script.n + 1
      BY <1>2, <1>7
    <3> QED
      BY <3>1, SentCall DEF Asks, Halted
  <2> QED
    BY <1>1, <1>6, <1>7, <2>2, <2>3, NextCall, KnownNow, PcTypes
<1>8. CASE ~(script.n < Len(People))
  <2>1. Registered(db, Len(People) + 1)
    BY <1>3, <1>5, <1>8, Lists DEF Registered
  <2>2. 1 \in DOMAIN Assignments /\ Placed(db, 1)
    BY Lists DEF Placed
  <2>3. Reached(db, script')
    BY <1>2, <1>3, <1>8, <2>1, <2>2 DEF Reached, Halted, TempPcs
  <2>4. Asks(db, script', Sent(ListPositions(1, script.ids)))
    <3>1. script'.pc = "positions" /\ script'.n = 1 /\ script'.ids = script.ids
      BY <1>2, <1>8
    <3> QED
      BY <3>1, SentCall DEF Asks, Halted
  <2> QED
    BY <1>1, <1>6, <1>8, <2>3, <2>4, NextCall, KnownNow, PcTypes
<1> QED
  BY <1>7, <1>8

\* A position is created.
LEMMA EnsurePositionStep ==
  ASSUME SeedInv, EnsurePosition
  PROVE  SeedInv'
<1> DEFINE req == Request("create_position", Assignments[script.n].title,
                          script.ids[Assignments[script.n].division])
<1>1. GoOn("positions", "position", script.n, script.ids, 0, req)
  BY DEF EnsurePosition
<1>2. req.op = "create_position"
      /\ req = Request("create_position", Assignments[script.n].title,
                       script.ids[Assignments[script.n].division])
  BY DEF Request
<1> HIDE DEF req
<1>3. /\ script.pc = "positions"
      /\ script'.pc = "position" /\ script'.n = script.n /\ script'.ids = script.ids
  BY <1>1, GoesOn
<1>4. Reached(db, script')
  BY <1>3, KnownNow DEF Reached, Halted, TempPcs, DivisionsKnown
<1>5. Asks(db, script', Sent(req))
  <2>1. Sent(req).state = "sent" /\ Sent(req).req = req
    BY SentCall
  <2>2. req = Request("create_position", Assignments[script'.n].title,
                      script'.ids[Assignments[script'.n].division])
    BY <1>2, <1>3
  <2> QED
    BY <1>3, <2>1, <2>2, AsksLater
<1> QED
  BY <1>1, <1>2, <1>4, <1>5, NextCall, KnownNow, PcTypes

\* The position that was found or created fits the assignment.
LEMMA EnsureMembershipStep ==
  ASSUME SeedInv, EnsureMembership
  PROVE  SeedInv'
<1> DEFINE req == Assign(script.n, call.id)
<1>1. PICK from \in {"positions", "position"} :
        GoOn(from, "member", script.n, script.ids, call.id, req)
  BY DEF EnsureMembership
<1>2. req.op = "assign" /\ req = Assign(script.n, call.id) /\ call.id # 0
  BY DEF Assign, Request, EnsureMembership
<1> HIDE DEF req
<1>3. /\ script.pc = from /\ call.state = "answered"
      /\ script'.pc = "member" /\ script'.n = script.n /\ script'.ids = script.ids
      /\ script'.pos = call.id
  BY <1>1, GoesOn
<1>4. /\ script.n \in DOMAIN Assignments /\ script.ids[Root] # 0
      /\ DivisionsKnown(script, Len(Divisions) + 1)
  BY <1>3, KnownNow DEF Reached, Halted
<1> DEFINE key == Assignments[script.n].division
<1>5. /\ key \in Keys /\ script.ids[key] # 0 /\ db.divisions[script.ids[key]].name = key
  <2>1. key \in Keys
    BY <1>4, KeysOfScript
  <2>2. script.ids[key] # 0
    BY <1>4, <2>1, AllKnown
  <2> QED
    BY <2>1, <2>2, KnownNow, KnownIds
<1>6. /\ call.req.op \in {"positions", "create_position"}
      /\ call.req.name = Assignments[script.n].title /\ call.req.in = script.ids[key]
  <2>1. CASE script.pc = "positions"
    BY <2>1, KnownNow DEF Asks, ListPositions, Request
  <2>2. CASE script.pc = "position"
    BY <2>2, KnownNow DEF Asks, Request
  <2> QED
    BY <1>1, <1>3, <2>1, <2>2
<1>7. /\ call.id \in DOMAIN db.positions
      /\ db.positions[call.id].title = Assignments[script.n].title
      /\ db.positions[call.id].division = script.ids[key]
  BY <1>2, <1>3, <1>6, KnownNow DEF Answered
<1>8. Fits(db, call.id, script.n) /\ call.id \in Nat /\ call.id <= Len(db.positions)
  BY <1>5, <1>7, KnownNow DEF Fits
<1> HIDE DEF key
<1>9. Reached(db, script')
  BY <1>1, <1>3, <1>8, KnownNow DEF Reached, Halted, TempPcs, DivisionsKnown
<1>10. Asks(db, script', Sent(req))
  <2>1. Sent(req).state = "sent" /\ Sent(req).req = req
    BY SentCall
  <2>2. req = Assign(script'.n, script'.pos)
    BY <1>2, <1>3
  <2> QED
    BY <1>3, <2>1, <2>2, AsksLater
<1> QED
  BY <1>1, <1>2, <1>8, <1>9, <1>10, NextCall, KnownNow, PcTypes

\* An assignment that is answered is in place.
LEMMA MembershipEnsuredStep ==
  ASSUME SeedInv, MembershipEnsured
  PROVE  SeedInv'
<1> DEFINE more == ListPositions(script.n + 1, script.ids)
           temp == Request("create_division", Temp, script.ids[Divisions[1].name])
<1>1. /\ script.pc = "member" /\ call.state = "answered"
      /\ UNCHANGED <<db, abandoned, late, disturbed>>
  BY DEF MembershipEnsured, Held
<1>2. \/ /\ script.n < Len(Assignments)
         /\ script' = [script EXCEPT !.pc = "positions", !.n = @ + 1, !.pos = 0]
         /\ call' = Sent(more)
      \/ /\ ~(script.n < Len(Assignments))
         /\ script' = [script EXCEPT !.pc = "temp_division", !.pos = 0]
         /\ call' = Sent(temp)
  BY DEF MembershipEnsured
<1>3. more.op = "positions" /\ temp.op = "create_division"
      /\ more = ListPositions(script.n + 1, script.ids)
      /\ temp = Request("create_division", Temp, script.ids[Divisions[1].name])
  BY DEF ListPositions, Request
<1> HIDE DEF more, temp
<1>4. /\ script.n \in DOMAIN Assignments /\ script.ids[Root] # 0 /\ Admin \in db.users
      /\ DivisionsKnown(script, Len(Divisions) + 1) /\ Placed(db, script.n)
      /\ Registered(db, Len(People) + 1) /\ Fits(db, script.pos, script.n)
  BY <1>1, KnownNow DEF Reached, Halted
<1>5. call.req.op = "assign" /\ call.req.name = Assignments[script.n].person
      /\ call.req.in = script.pos
  BY <1>1, KnownNow DEF Asks, Assign, Request
<1>6. db.positions[script.pos].title # Temp /\ script.pos \in DOMAIN db.positions
  BY <1>4, KeysOfScript DEF Fits
<1>7. <<Assignments[script.n].person, script.pos>> \in db.members
  BY <1>1, <1>5, <1>6, KnownNow DEF Answered
<1>8. \A j \in DOMAIN Assignments : j < script.n \/ j = script.n =>
        \E p \in DOMAIN db.positions :
            Fits(db, p, j) /\ <<Assignments[j].person, p>> \in db.members
  BY <1>4, <1>6, <1>7 DEF Placed
<1>9. CASE script.n < Len(Assignments)
  <2>1. /\ script' = [script EXCEPT !.pc = "positions", !.n = script.n + 1, !.pos = 0]
        /\ call' = Sent(more)
    BY <1>2, <1>9
  <2>2. /\ script'.pc = "positions" /\ script'.n = script.n + 1
        /\ script'.ids = script.ids /\ script'.pos = 0
    BY <2>1, KnownNow DEF Remembers
  <2>3. script.n + 1 \in DOMAIN Assignments /\ Placed(db, script.n + 1)
    <3>1. script.n + 1 \in DOMAIN Assignments /\ script.n \in Nat
      BY <1>4, <1>9, Lists
    <3>2. \A j \in DOMAIN Assignments : j < script.n + 1 => j < script.n \/ j = script.n
      BY <3>1, Lists
    <3> QED
      BY <1>8, <3>1, <3>2 DEF Placed
  <2>4. Remembers(db, script')
    <3>1. script.n + 1 \in Nat
      BY KnownNow
    <3>2. script' = [script EXCEPT !.pc = "positions", !.n = script.n + 1,
                                   !.ids = script.ids, !.pos = 0]
      BY <2>1, KnownNow DEF Remembers
    <3> QED
      BY <3>1, <3>2, RemembersMore, KnownNow, PcTypes
  <2>5. DivisionsKnown(script', Len(Divisions) + 1) /\ script'.ids[Root] # 0
    BY <1>4, <2>2 DEF DivisionsKnown
  <2>6. Reached(db, script')
    BY <1>4, <2>2, <2>3, <2>5 DEF Reached, Halted, TempPcs
  <2>7. Asks(db, script', Sent(more))
    <3>1. Sent(more).state = "sent" /\ Sent(more).req = more
      BY SentCall
    <3> QED
      BY <1>3, <2>2, <3>1 DEF Asks, Halted
  <2> QED
    BY <1>1, <1>3, <2>1, <2>2, <2>4, <2>6, <2>7, Continues
<1>10. CASE ~(script.n < Len(Assignments))
  <2>1. /\ script' = [script EXCEPT !.pc = "temp_division", !.pos = 0]
        /\ call' = Sent(temp)
    BY <1>2, <1>10
  <2>2. /\ script'.pc = "temp_division" /\ script'.n = script.n
        /\ script'.ids = script.ids /\ script'.pos = 0
    BY <2>1, KnownNow DEF Remembers
  <2>3. Placed(db, Len(Assignments) + 1)
    <3>1. script.n \in Nat /\ script.n = Len(Assignments)
      BY <1>4, <1>10, Lists
    <3>2. \A j \in DOMAIN Assignments : j < script.n \/ j = script.n
      BY <3>1, Lists
    <3> QED
      BY <1>8, <3>2 DEF Placed
  <2>4. Remembers(db, script')
    <3>1. script' = [script EXCEPT !.pc = "temp_division", !.n = script.n,
                                   !.ids = script.ids, !.pos = 0]
      BY <2>1, KnownNow DEF Remembers
    <3> QED
      BY <3>1, RemembersMore, KnownNow, PcTypes
  <2>5. Reached(db, script')
    BY <1>4, <2>2, <2>3 DEF Reached, Halted, TempPcs, DivisionsKnown
  <2>6. Asks(db, script', Sent(temp))
    <3>1. Sent(temp).state = "sent" /\ Sent(temp).req = temp
      BY SentCall
    <3>2. temp = Request("create_division", Temp, script'.ids[Divisions[1].name])
      BY <1>3, <2>2
    <3> QED
      BY <2>2, <3>1, <3>2, AsksLater
  <2> QED
    BY <1>1, <1>3, <2>1, <2>2, <2>4, <2>5, <2>6, Continues
<1> QED
  BY <1>9, <1>10

\* The temporary group is there.
LEMMA TempDivisionStep ==
  ASSUME SeedInv, TempDivision
  PROVE  SeedInv'
<1> DEFINE req == Request("create_position", Temp, call.id)
           ids == [script.ids EXCEPT ![Temp] = call.id]
<1>1. GoOn("temp_division", "temp_position", 1, ids, 0, req)
  BY DEF TempDivision
<1>2. req.op = "create_position" /\ req = Request("create_position", Temp, call.id)
  BY DEF Request
<1> HIDE DEF req
<1>3. /\ script.pc = "temp_division" /\ call.state = "answered"
      /\ script'.pc = "temp_position" /\ script'.n = 1 /\ script'.ids = ids
  BY <1>1, GoesOn
<1>4. call.req.op = "create_division" /\ call.req.name = Temp
  BY <1>3, KnownNow DEF Asks, Request
<1>5. /\ call.id \in Nat /\ call.id # 0
      /\ call.id \in DOMAIN db.divisions /\ db.divisions[call.id].name = Temp
  BY <1>3, <1>4, KnownNow DEF Answered
<1>6. /\ ids \in [Keys -> Nat] /\ ids[Temp] = call.id
      /\ \A k \in Keys : k # Temp => ids[k] = script.ids[k]
  BY <1>5, KnownNow, KeysOfScript
<1> HIDE DEF ids
<1>7. DivisionsKnown(script', Len(Divisions) + 1)
  BY <1>3, <1>6, KnownNow, KeysOfScript DEF Reached, DivisionsKnown, TempPcs
<1>8. ids[Root] # 0
  BY <1>3, <1>6, KnownNow, KeysOfScript DEF Reached, Halted
<1>9. Reached(db, script')
  BY <1>3, <1>5, <1>6, <1>7, <1>8, KnownNow DEF Reached, Halted, TempPcs
<1>10. Asks(db, script', Sent(req))
  <2>1. Sent(req).state = "sent" /\ Sent(req).req = req
    BY SentCall
  <2>2. req = Request("create_position", Temp, script'.ids[Temp])
    BY <1>2, <1>3, <1>6
  <2> QED
    BY <1>3, <2>1, <2>2, AsksLater
<1>11. \A k \in Keys : \/ ids[k] = script.ids[k]
                       \/ ids[k] \in DOMAIN db.divisions /\ db.divisions[ids[k]].name = k
  BY <1>5, <1>6
<1> QED
  BY <1>1, <1>2, <1>6, <1>9, <1>10, <1>11, NextCall, KnownNow, PcTypes

\* Its position is there.
LEMMA TempPositionStep ==
  ASSUME SeedInv, TempPosition
  PROVE  SeedInv'
<1> DEFINE req == Request("assign", Admin, call.id)
<1>1. GoOn("temp_position", "temp_member", 1, script.ids, call.id, req)
  BY DEF TempPosition
<1>2. req.op = "assign" /\ req = Request("assign", Admin, call.id)
  BY DEF Request
<1> HIDE DEF req
<1>3. /\ script.pc = "temp_position" /\ call.state = "answered"
      /\ script'.pc = "temp_member" /\ script'.n = 1 /\ script'.ids = script.ids
      /\ script'.pos = call.id
  BY <1>1, GoesOn
<1>4. call.req.op = "create_position" /\ call.req.name = Temp
  BY <1>3, KnownNow DEF Asks, Request
<1>5. /\ call.id \in Nat /\ call.id # 0
      /\ call.id \in DOMAIN db.positions /\ db.positions[call.id].title = Temp
  BY <1>3, <1>4, KnownNow DEF Answered
<1>6. Reached(db, script')
  BY <1>3, <1>5, KnownNow DEF Reached, Halted, TempPcs, DivisionsKnown
<1>7. Asks(db, script', Sent(req))
  <2>1. Sent(req).state = "sent" /\ Sent(req).req = req
    BY SentCall
  <2>2. req = Request("assign", Admin, script'.pos)
    BY <1>2, <1>3
  <2> QED
    BY <1>3, <2>1, <2>2, AsksLater
<1>8. call.id <= Len(db.positions)
  BY <1>5, KnownNow
<1> QED
  BY <1>1, <1>2, <1>5, <1>6, <1>7, <1>8, NextCall, KnownNow, PcTypes

\* It has had its member.
LEMMA TempMemberStep ==
  ASSUME SeedInv, TempMember
  PROVE  SeedInv'
<1> DEFINE req == Request("archive_position", Temp, script.pos)
<1>1. /\ script.pc = "temp_member" /\ UNCHANGED <<db, abandoned, late, disturbed>>
      /\ script' = [script EXCEPT !.pc = "temp_archive_position"]
      /\ call' = Sent(req)
  BY DEF TempMember, Held
<1>2. req.op = "archive_position" /\ req = Request("archive_position", Temp, script.pos)
  BY DEF Request
<1> HIDE DEF req
<1>3. /\ script'.pc = "temp_archive_position" /\ script'.n = script.n
      /\ script'.ids = script.ids /\ script'.pos = script.pos
  BY <1>1, KnownNow DEF Remembers
<1>4. Remembers(db, script')
  BY <1>1, <1>3, KnownNow, PcTypes DEF Remembers
<1>5. Reached(db, script')
  BY <1>1, <1>3, KnownNow DEF Reached, Halted, TempPcs, DivisionsKnown
<1>6. Asks(db, script', Sent(req))
  <2>1. Sent(req).state = "sent" /\ Sent(req).req = req
    BY SentCall
  <2>2. req = Request("archive_position", Temp, script'.pos)
    BY <1>2, <1>3
  <2> QED
    BY <1>3, <2>1, <2>2, AsksLater
<1> QED
  BY <1>1, <1>2, <1>3, <1>4, <1>5, <1>6, Continues

\* The position is archived.
LEMMA TempArchivePositionStep ==
  ASSUME SeedInv, TempArchivePosition
  PROVE  SeedInv'
<1> DEFINE req == Request("archive_division", Temp, script.ids[Temp])
<1>1. GoOn("temp_archive_position", "temp_archive", 1, script.ids, 0, req)
  BY DEF TempArchivePosition
<1>2. req.op = "archive_division" /\ req = Request("archive_division", Temp, script.ids[Temp])
  BY DEF Request
<1> HIDE DEF req
<1>3. /\ script.pc = "temp_archive_position"
      /\ script'.pc = "temp_archive" /\ script'.n = 1 /\ script'.ids = script.ids
  BY <1>1, GoesOn
<1>4. Reached(db, script')
  BY <1>3, KnownNow DEF Reached, Halted, TempPcs, DivisionsKnown
<1>5. Asks(db, script', Sent(req))
  <2>1. Sent(req).state = "sent" /\ Sent(req).req = req
    BY SentCall
  <2>2. req = Request("archive_division", Temp, script'.ids[Temp])
    BY <1>2, <1>3
  <2> QED
    BY <1>3, <2>1, <2>2, AsksLater
<1> QED
  BY <1>1, <1>2, <1>4, <1>5, NextCall, KnownNow, PcTypes

-----------------------------------------------------------------------------
(* Where a run ends, and where it begins.                                  *)

\* A run that has halted has nothing to be kept but its tables.
LEMMA AtRest ==
  ASSUME TablesInv(db), NEW t, Remembers(db, t), t.pc \in Halted \cup {"bootstrap"},
         t.pc = "done" => Placed(db, Len(Assignments) + 1)
  PROVE  Reached(db, t) /\ Asks(db, t, Idle) /\ Answered(db, Idle) /\ RoleIsNew(db, Idle)
<1>1. /\ Idle.state = "idle" /\ Idle.answer = "done" /\ Idle.id = 0 /\ Idle.same = TRUE
  BY DEF Idle
<1>2. Reached(db, t)
  BY DEF Reached, Halted, TempPcs
<1>3. Asks(db, t, Idle)
  BY <1>1 DEF Asks, Halted
<1>4. Answered(db, Idle)
  BY <1>1, 0 \in Nat, TRUE \in BOOLEAN DEF Answered
<1>5. RoleIsNew(db, Idle)
  BY <1>1 DEF RoleIsNew
<1> QED
  BY <1>2, <1>3, <1>4, <1>5

\* The last call is answered.
LEMMA TempArchiveStep ==
  ASSUME SeedInv, TempArchive
  PROVE  SeedInv'
<1>1. /\ script.pc = "temp_archive" /\ UNCHANGED <<db, abandoned, late, disturbed>>
      /\ script' = [script EXCEPT !.pc = "done", !.complete = @ + 1]
      /\ call' = Idle
  BY DEF TempArchive
<1>2. script'.pc = "done" /\ script'.ids = script.ids /\ script'.pos = script.pos
  BY <1>1, KnownNow DEF Remembers
<1>3. Remembers(db, script')
  <2>1. "done" \in Pcs
    BY DEF Pcs, Halted
  <2>2. script.complete + 1 \in Nat
    BY KnownNow DEF Remembers
  <2>3. script' = [script EXCEPT !.pc = "done", !.complete = script.complete + 1]
    BY <1>1
  <2> QED
    BY <1>2, <2>1, <2>2, <2>3, KnownNow DEF Remembers
<1>4. Placed(db, Len(Assignments) + 1)
  BY <1>1, KnownNow DEF Reached, TempPcs
<1>5. /\ Reached(db, script') /\ Asks(db, script', Idle) /\ Answered(db, Idle)
      /\ RoleIsNew(db, Idle)
  BY <1>2, <1>3, <1>4, AtRest, KnownNow DEF Halted
<1> QED
  BY <1>1, <1>2, <1>3, <1>5 DEF SeedInv

\* A run stops where it is.
LEMMA Halts ==
  ASSUME SeedInv, NEW pc \in {"stopped", "refused"}, script' = [script EXCEPT !.pc = pc]
  PROVE  /\ script'.pc = pc /\ Remembers(db, script') /\ Reached(db, script')
         /\ Asks(db, script', Idle) /\ Answered(db, Idle) /\ RoleIsNew(db, Idle)
<1>1. script'.pc = pc /\ script'.ids = script.ids /\ script'.pos = script.pos
  BY KnownNow DEF Remembers
<1>2. Remembers(db, script')
  <2>1. pc \in Pcs
    BY DEF Pcs, Halted
  <2> QED
    BY <1>1, <2>1, KnownNow DEF Remembers
<1> QED
  BY <1>1, <1>2, AtRest, KnownNow DEF Halted

\* A call is refused only if a late call has created its role before.
LEMMA RefusedStep ==
  ASSUME SeedInv, Refused
  PROVE  SeedInv'
<1>1. /\ call.state = "answered"
      /\ \/ call.answer = "full"
         \/ call.answer = "conflict" /\ call.req.op \notin {"register", "assign"}
      /\ script' = [script EXCEPT !.pc = "refused"]
      /\ call' = Idle
      /\ UNCHANGED <<db, abandoned, late, disturbed>>
  BY DEF Refused
<1>2. disturbed
  <2>1. call.answer = "conflict" /\ call.req.op = "create_role"
    BY <1>1, KnownNow DEF Answered
  <2>2. ~RoleIsNew(db, call)
    BY <1>1, <2>1 DEF RoleIsNew
  <2> QED
    BY <2>2 DEF SeedInv
<1>3. /\ script'.pc = "refused" /\ Remembers(db, script') /\ Reached(db, script')
      /\ Asks(db, script', Idle) /\ Answered(db, Idle) /\ RoleIsNew(db, Idle)
  BY <1>1, Halts
<1> QED
  BY <1>1, <1>2, <1>3 DEF SeedInv

\* One more call under way when a run was cut off.
LEMMA OneMore ==
  ASSUME NEW q, q \in Seq(Range(q)), NEW r
  PROVE  /\ Append(q, r) \in Seq(Range(Append(q, r)))
         /\ DOMAIN Append(q, r) = DOMAIN q \cup {Len(q) + 1}
         /\ \A i \in DOMAIN q : Append(q, r)[i] = q[i]
         /\ Append(q, r)[Len(q) + 1] = r
         /\ DOMAIN q = 1..Len(q) /\ Len(q) \in Nat
<1> DEFINE S == Range(q) \cup {r}
<1>1. DOMAIN q = 1..Len(q) /\ Len(q) \in Nat /\ \A i \in 1..Len(q) : q[i] \in S
  BY LenProperties DEF Range
<1>2. q \in [1..Len(q) -> S]
  BY <1>1, LenProperties
<1>3. q \in Seq(S)
  BY <1>1, <1>2, SeqDef
<1>4. r \in S
  OBVIOUS
<1> HIDE DEF S
<1>5. /\ Append(q, r) \in Seq(S) /\ Len(Append(q, r)) = Len(q) + 1
      /\ DOMAIN Append(q, r) = DOMAIN q \cup {Len(q) + 1}
      /\ \A i \in DOMAIN q : Append(q, r)[i] = q[i]
      /\ Append(q, r)[Len(q) + 1] = r
  BY <1>3, <1>4, Appended
<1>6. Append(q, r) \in Seq(Range(Append(q, r)))
  <2> DEFINE a == Append(q, r)
  <2>1. DOMAIN a = 1..Len(a) /\ Len(a) \in Nat
        /\ a \in [1..Len(a) -> S]
    BY <1>5, LenProperties
  <2> HIDE DEF a
  <2>2. a \in [1..Len(a) -> Range(a)]
    BY <2>1 DEF Range
  <2>3. a \in Seq(Range(a))
    BY <2>1, <2>2, SeqDef
  <2> QED
    BY <2>3 DEF a
<1> QED
  BY <1>1, <1>5, <1>6

\* A run is cut off; its call may still be on its way.
LEMMA CutOffStep ==
  ASSUME SeedInv, CutOff
  PROVE  SeedInv'
<1>1. /\ script' = [script EXCEPT !.pc = "stopped"] /\ call' = Idle
      /\ UNCHANGED <<db, disturbed>>
  BY DEF CutOff
<1>2. /\ script'.pc = "stopped" /\ Remembers(db, script') /\ Reached(db, script')
      /\ Asks(db, script', Idle) /\ Answered(db, Idle) /\ RoleIsNew(db, Idle)
  BY <1>1, Halts
<1>3. /\ abandoned' \in Seq(Range(abandoned')) /\ late' \subseteq DOMAIN abandoned'
      /\ \A i \in DOMAIN abandoned' : Sound(db, abandoned'[i])
  <2>1. CASE UNCHANGED <<abandoned, late>>
    BY <2>1 DEF SeedInv
  <2>2. CASE /\ call.state = "sent"
             /\ abandoned' = Append(abandoned, call.req)
             /\ late' = late \cup {Len(abandoned) + 1}
    <3>1. Sound(db, call.req)
      BY <2>2, AsksSound, KnownNow
    <3>2. abandoned \in Seq(Range(abandoned))
      BY DEF SeedInv
    <3> QED
      BY <2>2, <3>1, <3>2, OneMore DEF SeedInv
  <2> QED
    BY <2>1, <2>2 DEF CutOff
<1> QED
  BY <1>1, <1>2, <1>3 DEF SeedInv

\* The script is run again.
LEMMA RunStep ==
  ASSUME SeedInv, Run
  PROVE  SeedInv'
<1>1. /\ script.pc \in Halted /\ script.runs < MaxRuns
      /\ script' = [Start0 EXCEPT !.pc = "bootstrap", !.runs = script.runs + 1,
                                  !.complete = script.complete]
      /\ disturbed' = FALSE /\ UNCHANGED <<db, call, abandoned, late>>
  BY DEF Run, Halted
<1>2. script.runs \in 0..MaxRuns /\ script.complete \in Nat
  BY KnownNow DEF Remembers
<1>3. /\ script' = [pc |-> "bootstrap", n |-> 1, ids |-> NoIds, pos |-> 0,
                    runs |-> script.runs + 1, complete |-> script.complete]
      /\ script'.pc = "bootstrap" /\ script'.ids = NoIds /\ script'.pos = 0
  BY <1>1 DEF Start0
<1>4. NoIds \in [Keys -> Nat] /\ \A k \in Keys : NoIds[k] = 0
  BY DEF NoIds
<1>5. script.runs + 1 \in 0..MaxRuns
  BY <1>1, <1>2, ScriptAssumption
<1>6. Remembers(db, script')
  <2>1. "bootstrap" \in Pcs
    BY DEF Pcs
  <2> QED
    BY <1>2, <1>3, <1>4, <1>5, <2>1, KnownNow DEF Remembers
<1>7. Reached(db, script')
  BY <1>3, <1>6, AtRest, KnownNow
<1>8. call.state = "idle"
  BY <1>1, KnownNow DEF Asks
<1>9. Asks(db, script', call) /\ RoleIsNew(db, call)
  BY <1>3, <1>8 DEF Asks, RoleIsNew
<1> QED
  BY <1>1, <1>3, <1>6, <1>7, <1>9 DEF SeedInv

\* The SQL of the bootstrap.
LEMMA BootstrapTables ==
  ASSUME TablesInv(db), Bootstrap
  PROVE  /\ TablesInv(db') /\ Grows(db, db') /\ Admin \in db'.users
         /\ 1 \in DOMAIN db'.divisions /\ db'.divisions[1].name = Root
         /\ db'.positions = db.positions
         /\ db.divisions # << >> => db'.divisions = db.divisions
         /\ db.divisions = << >> =>
              db'.divisions = << [name |-> Root, parent |-> 0,
                                  texts |-> "script", archived |-> FALSE] >>
<1> DEFINE r == [name |-> Root, parent |-> 0, texts |-> "script", archived |-> FALSE]
           ds == IF db.divisions = << >> THEN << r >> ELSE db.divisions
           us == db.users \cup {Admin}
           rs == db.roles \cup {Roles[1]}
           gs == db.granted \cup {Roles[1]}
<1>1. db \in Tables /\ db.granted \subseteq db.roles
  BY DEF TablesInv
<1>2. db' = [db EXCEPT !.users = us, !.roles = rs, !.granted = gs, !.divisions = ds]
  BY <1>1 DEF Bootstrap, Tables
<1>3. Roles[1] \in Range(Roles)
  BY Lists
<1>4. us \in SUBSET Person /\ rs \in SUBSET Range(Roles) /\ gs \in SUBSET Range(Roles)
      /\ gs \subseteq rs
  BY <1>1, <1>3 DEF Tables, Person
<1>5. r \in Row /\ r.name = Root /\ r.parent = 0 /\ r.archived = FALSE
  BY KeysOfScript DEF Row
<1> HIDE DEF r
<1>6. ds \in Seq(Row) /\ (db.divisions = << >> => ds = << r >> /\ Len(ds) = 1 /\ ds[1] = r)
  BY <1>1, <1>5 DEF Tables
<1>7. db.divisions # << >> => ds = db.divisions
  OBVIOUS
<1>8. Admin \in us /\ db.users \subseteq us /\ db.roles \subseteq rs
  OBVIOUS
<1> HIDE DEF ds, us, rs, gs
<1>9. /\ db' \in Tables
      /\ db'.users = us /\ db'.roles = rs /\ db'.granted = gs /\ db'.divisions = ds
      /\ db'.positions = db.positions /\ db'.members = db.members
  BY <1>1, <1>2, <1>4, <1>6 DEF Tables
<1>10. CASE db.divisions # << >>
  <2>1. db'.divisions = db.divisions
    BY <1>7, <1>9, <1>10
  <2>2. TablesInv(db') /\ Grows(db, db')
    BY <1>4, <1>8, <1>9, <2>1, AddsNames
  <2>3. 1 \in DOMAIN db.divisions
    BY <1>1, <1>10, RowDomains DEF Tables
  <2> QED
    BY <1>8, <1>9, <1>10, <2>1, <2>2, <2>3 DEF TablesInv
<1>11. CASE db.divisions = << >>
  <2>1. DOMAIN db.divisions = {} /\ Len(db.divisions) = 0
    BY <1>11
  <2>2. DOMAIN db.positions = {} /\ Len(db.positions) = 0
    <3>1. \A p \in DOMAIN db.positions : FALSE
      BY <2>1 DEF TablesInv
    <3>2. Len(db.positions) # 0 => 1 \in DOMAIN db.positions
      BY RowDomains
    <3> QED
      BY <3>1, <3>2
  <2>3. \A u \in Person, p \in Nat : <<u, p>> \notin db.members
    BY <2>2 DEF TablesInv
  <2>4. DOMAIN db'.divisions = {1} /\ Len(db'.divisions) = 1 /\ db'.divisions[1] = r
    BY <1>6, <1>9, <1>11, LenProperties
  <2>5. Grows(db, db')
    BY <1>8, <1>9, <2>1, <2>2, <2>4 DEF Grows
  <2>6. TablesInv(db')
    <3>1. \A i \in DOMAIN db'.divisions :
            /\ db'.divisions[i].parent \in (IF i = 1 THEN {0} ELSE 1..(i - 1))
            /\ db'.divisions[i].archived => db'.divisions[i].name = Temp
      BY <1>5, <2>4
    <3> QED
      BY <1>4, <1>5, <1>9, <2>2, <2>3, <2>4, <3>1 DEF TablesInv
  <2> QED
    BY <1>5, <1>6, <1>8, <1>9, <1>11, <2>4, <2>5, <2>6 DEF r
<1> QED
  BY <1>10, <1>11

\* The bootstrap keeps the invariant.
LEMMA BootstrapStep ==
  ASSUME SeedInv, Bootstrap
  PROVE  SeedInv'
<1> DEFINE req == Request("edit_division", Root, 1)
           ids == [script.ids EXCEPT ![Root] = 1]
<1>1. /\ script.pc = "bootstrap" /\ UNCHANGED <<abandoned, late, disturbed>>
      /\ script' = [script EXCEPT !.pc = "patch_root", !.ids = ids]
      /\ call' = Sent(req)
  BY KnownNow DEF Bootstrap, Remembers
<1>2. req.op = "edit_division" /\ req = Request("edit_division", Root, 1)
  BY DEF Request
<1> HIDE DEF req
<1>3. /\ TablesInv(db') /\ Grows(db, db') /\ Admin \in db'.users
      /\ 1 \in DOMAIN db'.divisions /\ db'.divisions[1].name = Root
  BY KnownNow, BootstrapTables
<1>4. Remembers(db', script)
  BY <1>3, KnownNow, RunGrows
<1>5. /\ ids \in [Keys -> Nat] /\ ids[Root] = 1
      /\ \A k \in Keys : k # Root => ids[k] = script.ids[k]
  BY KnownNow, KeysOfScript
<1> HIDE DEF ids
<1>6. script'.pc = "patch_root" /\ script'.ids = ids /\ script'.pos = script.pos
  BY <1>1, KnownNow DEF Remembers
<1>7. Remembers(db', script')
  <2>1. /\ script'.pc \in Pcs /\ script'.n = script.n
        /\ script'.pos = script.pos /\ script'.ids = ids
    BY <1>1, <1>4, <1>6, PcTypes DEF Remembers
  <2>2. \A k \in Keys : ids[k] # 0 =>
            ids[k] \in DOMAIN db'.divisions /\ db'.divisions[ids[k]].name = k
    BY <1>3, <1>4, <1>5 DEF Remembers
  <2>3. script' = [script EXCEPT !.pc = "patch_root", !.ids = ids]
    BY <1>1
  <2> QED
    BY <1>4, <1>5, <2>1, <2>2, <2>3 DEF Remembers
<1>8. Reached(db', script')
  BY <1>3, <1>5, <1>6 DEF Reached, Halted, TempPcs
<1>9. /\ call'.state = "sent" /\ call'.req = req /\ call'.answer = "done"
      /\ call'.id = 0 /\ call'.same = TRUE
  BY <1>1, SentCall
<1>10. Asks(db', script', call')
  BY <1>2, <1>6, <1>9 DEF Asks, Halted
<1>11. Answered(db', call') /\ RoleIsNew(db', call')
  BY <1>2, <1>9, 0 \in Nat, TRUE \in BOOLEAN DEF Answered, RoleIsNew
<1>12. \A i \in DOMAIN abandoned : Sound(db', abandoned[i])
  BY <1>3, KnownNow, SoundGrows DEF SeedInv
<1> QED
  BY <1>1, <1>3, <1>6, <1>7, <1>8, <1>10, <1>11, <1>12 DEF SeedInv

-----------------------------------------------------------------------------
(* The invariant holds.                                                    *)

\* At the start there is no database or one of another origin.
LEMMA SeedStart ==
  ASSUME Init
  PROVE  SeedInv
<1> DEFINE root == [name |-> Root, parent |-> 0, texts |-> "other", archived |-> FALSE]
           other == [name |-> Divisions[1].name, parent |-> 1,
                     texts |-> "other", archived |-> FALSE]
<1>1. PICK ds \in {<< >>, <<root, other>>} :
        db = [roles |-> IF ds = << >> THEN {} ELSE {Roles[Len(Roles)]},
              granted |-> {}, users |-> {},
              divisions |-> ds, positions |-> << >>, members |-> {}]
  BY DEF Init
<1>2. /\ root \in Row /\ root.name = Root /\ root.parent = 0 /\ root.archived = FALSE
      /\ other \in Row /\ other.parent = 1 /\ other.archived = FALSE
  <2>1. Divisions[1].name \in Keys
    BY Lists, KeysOfScript
  <2> QED
    BY <2>1, KeysOfScript DEF Row
<1> HIDE DEF root, other
<1>3. /\ ds \in Seq(Row)
      /\ \/ DOMAIN ds = {} /\ ds = << >>
         \/ DOMAIN ds = 1..2 /\ ds[1] = root /\ ds[2] = other
  <2>1. CASE ds = << >>
    BY <2>1
  <2>2. CASE ds = <<root, other>>
    <3>1. Len(ds) = 2 /\ ds[1] = root /\ ds[2] = other /\ ds \in Seq(Row)
      BY <1>2, <2>2
    <3> QED
      BY <3>1, LenProperties
  <2> QED
    BY <2>1, <2>2
<1>4. db.divisions = ds /\ db.positions = << >> /\ db.members = {}
      /\ db.granted = {} /\ db.roles \subseteq Range(Roles) /\ db \in Tables
  <2>1. Len(Roles) \in DOMAIN Roles
    BY Lists
  <2>2. Roles[Len(Roles)] \in Range(Roles)
    BY <2>1, Lists
  <2> QED
    BY <1>1, <1>3, <2>2 DEF Tables
<1>5. TablesInv(db)
  <2>1. ds # << >> => ds[1].name = Root
    BY <1>2, <1>3
  <2>2. \A i \in DOMAIN ds :
          /\ ds[i].parent \in (IF i = 1 THEN {0} ELSE 1..(i - 1))
          /\ ds[i].archived => ds[i].name = Temp
    BY <1>2, <1>3
  <2>3. DOMAIN db.positions = {}
    BY <1>4
  <2> QED
    BY <1>4, <2>1, <2>2, <2>3 DEF TablesInv
<1>6. /\ script = Start0 /\ call = Idle
      /\ abandoned = << >> /\ late = {} /\ disturbed = FALSE
  BY DEF Init
<1>7. /\ script = [pc |-> "stopped", n |-> 1, ids |-> NoIds, pos |-> 0, runs |-> 0,
                   complete |-> 0]
      /\ script.pc = "stopped" /\ script.ids = NoIds /\ script.pos = 0
  BY <1>6 DEF Start0
<1>8. Remembers(db, script)
  <2>1. NoIds \in [Keys -> Nat] /\ \A k \in Keys : NoIds[k] = 0
    BY DEF NoIds
  <2>2. 0 <= Len(db.positions) /\ 0 \in 0..MaxRuns /\ "stopped" \in Pcs
    BY <1>5, RowDomains, ScriptAssumption DEF Pcs, Halted
  <2> QED
    BY <1>7, <2>1, <2>2 DEF Remembers
<1>9. /\ Reached(db, script) /\ Asks(db, script, call) /\ Answered(db, call)
      /\ RoleIsNew(db, call)
  BY <1>5, <1>6, <1>7, <1>8, AtRest DEF Halted
<1>10. DOMAIN abandoned = {} /\ abandoned \in Seq(Range(abandoned))
  BY <1>6
<1> QED
  BY <1>5, <1>6, <1>7, <1>8, <1>9, <1>10 DEF SeedInv

\* Every step keeps it.
LEMMA SeedStep ==
  ASSUME SeedInv, [Next]_vars
  PROVE  SeedInv'
<1>1. CASE UNCHANGED vars
  BY <1>1 DEF vars, SeedInv
<1>2. CASE Run
  BY <1>2, RunStep
<1>3. CASE CutOff
  BY <1>3, CutOffStep
<1>4. CASE Refused
  BY <1>4, RefusedStep
<1>5. CASE Serve
  BY <1>5, ServeStep
<1>6. CASE ServeLate
  BY <1>6, ServeLateStep
<1>7. CASE Bootstrap
  BY <1>7, BootstrapStep
<1>8. CASE PatchRoot
  BY <1>8, PatchRootStep
<1>9. CASE EnsureRole
  BY <1>9, EnsureRoleStep
<1>10. CASE RoleEnsured
  BY <1>10, RoleEnsuredStep
<1>11. CASE EnsureDivision
  BY <1>11, EnsureDivisionStep
<1>12. CASE DivisionEnsured
  BY <1>12, DivisionEnsuredStep
<1>13. CASE EnsureUser
  BY <1>13, EnsureUserStep
<1>14. CASE UserEnsured
  BY <1>14, UserEnsuredStep
<1>15. CASE EnsurePosition
  BY <1>15, EnsurePositionStep
<1>16. CASE EnsureMembership
  BY <1>16, EnsureMembershipStep
<1>17. CASE MembershipEnsured
  BY <1>17, MembershipEnsuredStep
<1>18. CASE TempDivision
  BY <1>18, TempDivisionStep
<1>19. CASE TempPosition
  BY <1>19, TempPositionStep
<1>20. CASE TempMember
  BY <1>20, TempMemberStep
<1>21. CASE TempArchivePosition
  BY <1>21, TempArchivePositionStep
<1>22. CASE TempArchive
  BY <1>22, TempArchiveStep
<1> QED
  BY <1>1, <1>2, <1>3, <1>4, <1>5, <1>6, <1>7, <1>8, <1>9, <1>10, <1>11, <1>12,
     <1>13, <1>14, <1>15, <1>16, <1>17, <1>18, <1>19, <1>20, <1>21, <1>22 DEF Next

\* Whatever is lost, late or cut off, the tables refer to rows that are there,
\* what a run remembers is so, and every call it sends makes sense.
THEOREM SeedInvariant == Spec => []SeedInv
<1>1. Init => SeedInv
  BY SeedStart
<1>2. SeedInv /\ [Next]_vars => SeedInv'
  BY SeedStep
<1> QED
  BY <1>1, <1>2, PTL DEF Spec

\* The tables refer to rows that are there, and a run never works with an id it
\* has not been given.
THEOREM SeedTypes == Spec => []TypeOK
<1>1. SeedInv => TypeOK
  <2> SUFFICES ASSUME SeedInv PROVE TypeOK
    OBVIOUS
  <2>1. TablesInv(db) /\ db \in Tables
    BY DEF SeedInv, TablesInv
  <2>2. /\ db.granted \subseteq db.roles /\ db.roles \subseteq Range(Roles)
        /\ db.users \subseteq Range(People) \cup {Admin}
    BY <2>1 DEF TablesInv, Tables, Person
  <2>3. \A i \in DOMAIN db.divisions :
          /\ db.divisions[i].name \in Keys
          /\ db.divisions[i].parent \in (IF i = 1 THEN {0} ELSE 1..(i - 1))
    <3>1. db.divisions \in Seq(Row)
      BY <2>1 DEF Tables
    <3>2. \A i \in DOMAIN db.divisions : db.divisions[i] \in Row
      BY <3>1, KnownNow, ElementOfSeq
    <3> QED
      BY <2>1, <3>2 DEF TablesInv, Row
  <2>4. \A i \in DOMAIN db.positions :
          /\ db.positions[i].title \in Titles
          /\ db.positions[i].division \in DOMAIN db.divisions
    <3>1. db.positions \in Seq(Seat)
      BY <2>1 DEF Tables
    <3>2. \A i \in DOMAIN db.positions : db.positions[i] \in Seat
      BY <3>1, KnownNow, ElementOfSeq
    <3> QED
      BY <2>1, <3>2 DEF TablesInv, Seat
  <2>5. db.members \subseteq db.users \X DOMAIN db.positions
    <3> SUFFICES ASSUME NEW m \in db.members
                 PROVE  m \in db.users \X DOMAIN db.positions
      OBVIOUS
    <3>1. PICK u \in Person, p \in Nat : m = <<u, p>>
      BY <2>1 DEF Tables
    <3> QED
      BY <2>1, <3>1 DEF TablesInv
  <2>6. script.runs \in 0..MaxRuns /\ script.pos \in 0..Len(db.positions)
    BY KnownNow DEF Remembers
  <2>7. \A k \in Keys : script.ids[k] \in 0..Len(db.divisions)
    BY KnownNow DEF Remembers
  <2>8. call.answer \in Answers /\ late \subseteq DOMAIN abandoned /\ disturbed \in BOOLEAN
    BY KnownNow DEF Answers, Answered, SeedInv
  <2> QED
    BY <2>2, <2>3, <2>4, <2>5, <2>6, <2>7, <2>8 DEF TypeOK
<1> QED
  BY <1>1, SeedInvariant, PTL

\* When a run is complete every assignment of the demonstration is in place,
\* whatever earlier runs had left half done (main, demo-seed.ts:662).
THEOREM DemoHolds == Spec => []DemoIsInPlace
<1>1. SeedInv => DemoIsInPlace
  <2> SUFFICES ASSUME SeedInv, script.pc = "done", NEW i \in DOMAIN Assignments
               PROVE  \E p \in DOMAIN db.positions :
                        /\ db.positions[p].title = Assignments[i].title
                        /\ ~db.positions[p].archived
                        /\ db.divisions[db.positions[p].division].name
                             = Assignments[i].division
                        /\ ~db.divisions[db.positions[p].division].archived
                        /\ <<Assignments[i].person, p>> \in db.members
    BY DEF DemoIsInPlace
  <2>1. i < Len(Assignments) + 1 /\ Placed(db, Len(Assignments) + 1)
    BY KnownNow, Lists DEF Reached
  <2>2. PICK p \in DOMAIN db.positions :
          Fits(db, p, i) /\ <<Assignments[i].person, p>> \in db.members
    BY <2>1 DEF Placed
  <2>3. db.positions[p].title # Temp /\ Assignments[i].division # Temp
    BY <2>2, KeysOfScript, NamesAreApart, ScriptAssumption DEF Fits
  <2>4. ~db.positions[p].archived /\ db.positions[p].division \in DOMAIN db.divisions
    BY <2>3, KnownNow DEF TablesInv
  <2>5. ~db.divisions[db.positions[p].division].archived
    BY <2>2, <2>3, <2>4, KnownNow DEF TablesInv, Fits
  <2> QED
    BY <2>2, <2>4, <2>5 DEF Fits
<1> QED
  BY <1>1, SeedInvariant, PTL

\* The API refuses a call of a run only when a late call of an earlier one was
\* served during it (requestAllowing, demo-seed.ts:455).
THEOREM RefusalHolds == Spec => []RefusedOnlyByLateCalls
<1>1. SeedInv => RefusedOnlyByLateCalls
  BY DEF SeedInv, RefusedOnlyByLateCalls
<1> QED
  BY <1>1, SeedInvariant, PTL

-----------------------------------------------------------------------------
(* Counting: what a request does to the rows that are counted.             *)

\* The divisions after a request.
LEMMA DivisionsAfter ==
  ASSUME TablesInv(db), NEW req, Sound(db, req)
  PROVE  /\ Len(db.divisions) + 1 \notin DOMAIN db.divisions
         /\ req.op = "create_division" =>
              /\ DOMAIN Effect(req).divisions = DOMAIN db.divisions \cup {Len(db.divisions) + 1}
              /\ Effect(req).divisions[Len(db.divisions) + 1].name = req.name
              /\ Effect(req).divisions[Len(db.divisions) + 1].parent = req.in
              /\ ~Effect(req).divisions[Len(db.divisions) + 1].archived
         /\ req.op # "create_division" =>
              DOMAIN Effect(req).divisions = DOMAIN db.divisions
         /\ \A i \in DOMAIN db.divisions :
              /\ Effect(req).divisions[i].name = db.divisions[i].name
              /\ Effect(req).divisions[i].parent = db.divisions[i].parent
              /\ req.op # "archive_division" \/ i # req.in =>
                   (Effect(req).divisions[i].archived <=> db.divisions[i].archived)
         /\ req.op = "archive_division" => Effect(req).divisions[req.in].archived
<1> DEFINE e == Effect(req)
<1>1. db \in Tables /\ db.divisions \in Seq(Row)
  BY DEF TablesInv, Tables
<1>2. DOMAIN db.divisions = 1..Len(db.divisions) /\ Len(db.divisions) \in Nat
  BY RowDomains
<1>3. Len(db.divisions) + 1 \notin DOMAIN db.divisions
  BY <1>2
<1>4. \A i \in DOMAIN db.divisions : db.divisions[i] \in Row
  BY <1>1, <1>2, ElementOfSeq
<1>5. Grows(db, e)
  BY EffectKeeps
<1> HIDE DEF e
<1>6. \A i \in DOMAIN db.divisions :
        e.divisions[i].name = db.divisions[i].name
        /\ e.divisions[i].parent = db.divisions[i].parent
  BY <1>5 DEF Grows
<1>7. CASE req.op = "create_division"
  <2> DEFINE r == [name |-> req.name, parent |-> req.in,
                   texts |-> "script", archived |-> FALSE]
  <2>1. r \in Row /\ r.name = req.name /\ r.parent = req.in /\ ~r.archived
    BY <1>2, <1>7 DEF Row, Sound
  <2>2. e = [db EXCEPT !.divisions = Append(@, r)]
    BY <1>7, EffectCases DEF e
  <2>3. e.divisions = Append(db.divisions, r)
    BY <1>1, <2>2 DEF Tables
  <2> HIDE DEF r
  <2>4. /\ DOMAIN e.divisions = DOMAIN db.divisions \cup {Len(db.divisions) + 1}
        /\ \A i \in DOMAIN db.divisions : e.divisions[i] = db.divisions[i]
        /\ e.divisions[Len(db.divisions) + 1] = r
    BY <1>1, <2>1, <2>3, Appended
  <2> QED
    BY <1>3, <1>6, <1>7, <2>1, <2>4 DEF e
<1>8. CASE req.op = "edit_division"
  <2>1. e = [db EXCEPT !.divisions[req.in].texts = "script"]
    BY <1>8, EffectCases DEF e
  <2>2. e.divisions = [db.divisions EXCEPT ![req.in].texts = "script"]
    BY <1>1, <2>1 DEF Tables
  <2>3. /\ DOMAIN e.divisions = DOMAIN db.divisions
        /\ \A i \in DOMAIN db.divisions :
             e.divisions[i].archived = db.divisions[i].archived
    BY <1>4, <2>2 DEF Row
  <2> QED
    BY <1>3, <1>6, <1>8, <2>3 DEF e
<1>9. CASE req.op = "archive_division"
  <2>1. e = [db EXCEPT !.divisions[req.in].archived = TRUE]
    BY <1>9, EffectCases DEF e
  <2>2. e.divisions = [db.divisions EXCEPT ![req.in].archived = TRUE]
        /\ req.in \in DOMAIN db.divisions
    BY <1>1, <1>9, <2>1 DEF Tables, Sound
  <2>3. /\ DOMAIN e.divisions = DOMAIN db.divisions
        /\ e.divisions[req.in].archived = TRUE
        /\ \A i \in DOMAIN db.divisions :
             i # req.in => e.divisions[i].archived = db.divisions[i].archived
    BY <1>4, <2>2 DEF Row
  <2> QED
    BY <1>3, <1>6, <1>9, <2>3 DEF e
<1>10. CASE req.op \notin {"create_division", "edit_division", "archive_division"}
  <2>1. e.divisions = db.divisions
    BY <1>1, <1>10, OnlyItsTable DEF e
  <2> QED
    BY <1>3, <1>10, <2>1 DEF e
<1> QED
  BY <1>7, <1>8, <1>9, <1>10

\* The positions after a request.
LEMMA PositionsAfter ==
  ASSUME TablesInv(db), NEW req, Sound(db, req)
  PROVE  /\ Len(db.positions) + 1 \notin DOMAIN db.positions
         /\ req.op = "create_position" =>
              /\ DOMAIN Effect(req).positions = DOMAIN db.positions \cup {Len(db.positions) + 1}
              /\ Effect(req).positions[Len(db.positions) + 1].title = req.name
              /\ Effect(req).positions[Len(db.positions) + 1].division = req.in
         /\ req.op # "create_position" =>
              DOMAIN Effect(req).positions = DOMAIN db.positions
         /\ \A p \in DOMAIN db.positions :
              /\ Effect(req).positions[p].title = db.positions[p].title
              /\ Effect(req).positions[p].division = db.positions[p].division
<1> DEFINE e == Effect(req)
<1>1. db \in Tables /\ db.positions \in Seq(Seat)
  BY DEF TablesInv, Tables
<1>2. DOMAIN db.positions = 1..Len(db.positions) /\ Len(db.positions) \in Nat
      /\ DOMAIN db.divisions \subseteq Nat
  BY RowDomains
<1>3. Len(db.positions) + 1 \notin DOMAIN db.positions
  BY <1>2
<1>4. Grows(db, e)
  BY EffectKeeps
<1> HIDE DEF e
<1>5. \A p \in DOMAIN db.positions :
        e.positions[p].title = db.positions[p].title
        /\ e.positions[p].division = db.positions[p].division
  BY <1>4 DEF Grows
<1>6. CASE req.op = "create_position"
  <2> DEFINE r == [title |-> req.name, division |-> req.in, archived |-> FALSE]
  <2>1. r \in Seat /\ r.title = req.name /\ r.division = req.in
    BY <1>2, <1>6 DEF Seat, Sound
  <2>2. e = [db EXCEPT !.positions = Append(@, r)]
    BY <1>6, EffectCases DEF e
  <2>3. e.positions = Append(db.positions, r)
    BY <1>1, <2>2 DEF Tables
  <2> HIDE DEF r
  <2>4. /\ DOMAIN e.positions = DOMAIN db.positions \cup {Len(db.positions) + 1}
        /\ e.positions[Len(db.positions) + 1] = r
    BY <1>1, <2>1, <2>3, Appended
  <2> QED
    BY <1>3, <1>5, <1>6, <2>1, <2>4 DEF e
<1>7. CASE req.op = "archive_position"
  <2>1. DOMAIN e.positions = DOMAIN db.positions
    <3>1. e.positions = [db.positions EXCEPT ![req.in].archived = TRUE]
      BY <1>1, <1>7, ArchivesSeat DEF e
    <3> QED
      BY <3>1
  <2> QED
    BY <1>3, <1>5, <1>7, <2>1 DEF e
<1>8. CASE req.op \notin {"create_position", "archive_position"}
  <2>1. e.positions = db.positions
    BY <1>1, <1>8, OnlyItsTable DEF e
  <2> QED
    BY <1>3, <1>8, <2>1 DEF e
<1> QED
  BY <1>6, <1>7, <1>8

\* The fields of a request.
LEMMA Requests ==
  ASSUME NEW op, NEW name, NEW in, NEW d, NEW req, Sound(d, req)
  PROVE  /\ Request(op, name, in).op = op /\ Request(op, name, in).name = name
         /\ Request(op, name, in).in = in
         /\ req = Request(op, name, in) <=> req.op = op /\ req.name = name /\ req.in = in
BY DEF Request, Sound

\* The divisions of a name in a place after a request.
LEMMA NamedAfter ==
  ASSUME TablesInv(db), NEW req, Sound(db, req), NEW name, NEW in
  PROVE  /\ Len(db.divisions) + 1 \notin Named(db, name, in)
         /\ req = Request("create_division", name, in) =>
              Named(Effect(req), name, in) = Named(db, name, in) \cup {Len(db.divisions) + 1}
         /\ req # Request("create_division", name, in) =>
              Named(Effect(req), name, in) = Named(db, name, in)
BY DivisionsAfter, Requests DEF Named

\* The positions of a title in a division after a request.
LEMMA TitledAfter ==
  ASSUME TablesInv(db), NEW req, Sound(db, req), NEW title, NEW in
  PROVE  /\ Len(db.positions) + 1 \notin Titled(db, title, in)
         /\ req = Request("create_position", title, in) =>
              Titled(Effect(req), title, in) = Titled(db, title, in) \cup {Len(db.positions) + 1}
         /\ req # Request("create_position", title, in) =>
              Titled(Effect(req), title, in) = Titled(db, title, in)
BY PositionsAfter, Requests DEF Titled

\* The open temporary groups after a request.
LEMMA TempsAfter ==
  ASSUME TablesInv(db), NEW req, Sound(db, req)
  PROVE  /\ Len(db.divisions) + 1 \notin OpenTemps(db)
         /\ req.op = "create_division" /\ req.name = Temp =>
              OpenTemps(Effect(req)) = OpenTemps(db) \cup {Len(db.divisions) + 1}
         /\ req.op = "archive_division" => OpenTemps(Effect(req)) = OpenTemps(db) \ {req.in}
         /\ ~(req.op = "create_division" /\ req.name = Temp) /\ req.op # "archive_division" =>
              OpenTemps(Effect(req)) = OpenTemps(db)
<1>1. req.op = "archive_division" =>
        \A i \in DOMAIN db.divisions :
            Effect(req).divisions[i].archived <=> db.divisions[i].archived \/ i = req.in
  BY DivisionsAfter
<1> QED
  BY <1>1, DivisionsAfter DEF OpenTemps

\* All that is counted is finite.
LEMMA Countable ==
  ASSUME SeedInv
  PROVE  /\ IsFiniteSet(OpenTemps(db)) /\ Cardinality(OpenTemps(db)) \in Nat
         /\ IsFiniteSet(LateTemps) /\ Cardinality(LateTemps) \in Nat
         /\ \A name, in : /\ IsFiniteSet(Named(db, name, in))
                          /\ Cardinality(Named(db, name, in)) \in Nat
                          /\ IsFiniteSet(Titled(db, name, in))
                          /\ Cardinality(Titled(db, name, in)) \in Nat
         /\ \A op, name, in : /\ IsFiniteSet(Creates(op, name, in))
                              /\ IsFiniteSet(Creates(op, name, in) \ late)
                              /\ Cardinality(Creates(op, name, in) \ late) \in Nat
<1>1. IsFiniteSet(DOMAIN db.divisions) /\ IsFiniteSet(DOMAIN db.positions)
  <2>1. /\ DOMAIN db.divisions = 1..Len(db.divisions) /\ Len(db.divisions) \in Int
        /\ DOMAIN db.positions = 1..Len(db.positions) /\ Len(db.positions) \in Int
    BY KnownNow
  <2> QED
    BY <2>1, FS_Interval, 1 \in Int
<1>2. IsFiniteSet(DOMAIN abandoned)
  <2>1. abandoned \in Seq(Range(abandoned))
    BY DEF SeedInv
  <2>2. DOMAIN abandoned = 1..Len(abandoned) /\ Len(abandoned) \in Int
    BY <2>1, LenProperties
  <2> QED
    BY <2>2, FS_Interval, 1 \in Int
<1>3. /\ OpenTemps(db) \in SUBSET DOMAIN db.divisions
      /\ LateTemps \in SUBSET DOMAIN abandoned
      /\ \A name, in : /\ Named(db, name, in) \in SUBSET DOMAIN db.divisions
                       /\ Titled(db, name, in) \in SUBSET DOMAIN db.positions
      /\ \A op, name, in : /\ Creates(op, name, in) \in SUBSET DOMAIN abandoned
                           /\ Creates(op, name, in) \ late \in SUBSET DOMAIN abandoned
  BY DEF OpenTemps, LateTemps, Named, Titled, Creates, SeedInv
<1>4. /\ IsFiniteSet(OpenTemps(db)) /\ IsFiniteSet(LateTemps)
      /\ \A name, in : IsFiniteSet(Named(db, name, in)) /\ IsFiniteSet(Titled(db, name, in))
      /\ \A op, name, in : IsFiniteSet(Creates(op, name, in))
                           /\ IsFiniteSet(Creates(op, name, in) \ late)
  BY <1>1, <1>2, <1>3, FS_Subset
<1> QED
  BY <1>4, FS_CardinalityType

-----------------------------------------------------------------------------
(* Counting: one row of a name in its place.                               *)

\* A division or a position that is looked for and not found is not there: only
\* what is temporary is ever archived.
LEMMA NotFound ==
  ASSUME TablesInv(db), NEW name, NEW in, NEW req, 0 \in Ids(req)
  PROVE  /\ req = Request("tree", name, in) /\ name # Temp => Named(db, name, in) = {}
         /\ req = Request("positions", name, in) /\ name # Temp => Titled(db, name, in) = {}
<1>1. 0 \notin DOMAIN db.divisions /\ 0 \notin DOMAIN db.positions
  BY RowDomains
<1>2. ASSUME req = Request("tree", name, in), name # Temp
      PROVE  Named(db, name, in) = {}
  <2>1. req.op = "tree" /\ req.name = name /\ req.in = in
    BY <1>2 DEF Request
  <2>2. Ids(req) = IF DivisionsNamed(name, in) = {} THEN {0} ELSE DivisionsNamed(name, in)
    BY <2>1 DEF Ids
  <2>3. 0 \notin DivisionsNamed(name, in)
    BY <1>1 DEF DivisionsNamed
  <2>4. DivisionsNamed(name, in) = {}
    BY <2>2, <2>3
  <2> QED
    BY <1>2, <2>4 DEF DivisionsNamed, Named, TablesInv
<1>3. ASSUME req = Request("positions", name, in), name # Temp
      PROVE  Titled(db, name, in) = {}
  <2> DEFINE found == {i \in DOMAIN db.positions :
                         /\ db.positions[i].title = name
                         /\ db.positions[i].division = in
                         /\ ~db.positions[i].archived}
  <2>1. req.op = "positions" /\ req.name = name /\ req.in = in
    BY <1>3 DEF Request
  <2>2. Ids(req) = IF found = {} THEN {0} ELSE found
    BY <2>1 DEF Ids
  <2>3. 0 \notin found
    BY <1>1
  <2>4. found = {}
    BY <2>2, <2>3
  <2> QED
    BY <1>3, <2>4 DEF Titled, TablesInv
<1> QED
  BY <1>2, <1>3

\* Serving the call of the run: a row that is created takes the place that was
\* kept for it, and what is not found is not there.
LEMMA ServeCounts ==
  ASSUME SeedInv, OneOfEach, Serve
  PROVE  OneOfEach'
<1>1. /\ call.state = "sent" /\ db' = Effect(call.req)
      /\ UNCHANGED <<script, abandoned, late, disturbed>>
  BY DEF Serve
<1>2. PICK id \in Ids(call.req) :
        call' = [state |-> "answered", req |-> call.req, id |-> id,
                 answer |-> AnswerTo(call.req), same |-> AsInScript(call.req, id)]
  BY DEF Serve
<1>3. TablesInv(db) /\ Sound(db, call.req)
  BY <1>1, AsksSound DEF SeedInv
<1>4. call'.state = "answered" /\ call'.req = call.req /\ call'.id = id
  BY <1>2
<1>5. \A op, name, in : Creates(op, name, in)' \ late' = Creates(op, name, in) \ late
  BY <1>1 DEF Creates
<1>6. ASSUME NEW name \in Keys \ {Temp}, NEW in \in Nat
      PROVE  DivisionsCounted(name, in)'
  <2> DEFINE N == Named(db, name, in)
             C == Cardinality(Creates("create_division", name, in) \ late)
             before == Creating(call, "tree", "create_division", name, in)
             after == Creating(call', "tree", "create_division", name, in)
  <2>1. Cardinality(N) <= C + (IF before THEN 0 ELSE 1)
    BY DEF OneOfEach, DivisionsCounted
  <2>2. Cardinality(N) \in Nat /\ C \in Nat /\ IsFiniteSet(N)
    BY Countable
  <2>3. DivisionsCounted(name, in)' <=>
          Cardinality(Named(db', name, in)) <= C + (IF after THEN 0 ELSE 1)
    BY <1>5 DEF DivisionsCounted
  <2>4. /\ before <=> call.req = Request("create_division", name, in)
        /\ after <=> call.req = Request("tree", name, in) /\ id = 0
    BY <1>1, <1>4 DEF Creating
  <2>5. CASE call.req = Request("create_division", name, in)
    <3>1. Cardinality(Named(db', name, in)) = Cardinality(N) + 1
      <4>1. /\ Named(db', name, in) = N \cup {Len(db.divisions) + 1}
            /\ Len(db.divisions) + 1 \notin N
        BY <1>1, <1>3, <2>5, NamedAfter
      <4> HIDE DEF N
      <4> QED
        BY <2>2, <4>1, FS_AddElement
    <3>2. before /\ ~after
      BY <1>3, <2>4, <2>5, Requests
    <3> HIDE DEF N, C, before, after
    <3> QED
      BY <2>1, <2>2, <2>3, <3>1, <3>2
  <2>6. CASE call.req = Request("tree", name, in) /\ id = 0
    <3>1. N = {} /\ call.req # Request("create_division", name, in)
      BY <1>2, <1>3, <2>6, NotFound, Requests
    <3>2. Named(db', name, in) = {}
      BY <1>1, <1>3, <3>1, NamedAfter
    <3>3. Cardinality(Named(db', name, in)) = 0
      BY <3>2, FS_EmptySet
    <3> HIDE DEF N, C, before, after
    <3> QED
      BY <2>2, <2>3, <3>3
  <2>7. CASE ~before /\ ~after
    <3>1. Named(db', name, in) = N
      BY <1>1, <1>3, <2>4, <2>7, NamedAfter
    <3> HIDE DEF N, C, before, after
    <3> QED
      BY <2>1, <2>3, <2>7, <3>1
  <2> QED
    BY <2>4, <2>5, <2>6, <2>7
<1>7. ASSUME NEW title \in Titles \ {Temp}, NEW in \in Nat
      PROVE  PositionsCounted(title, in)'
  <2> DEFINE N == Titled(db, title, in)
             C == Cardinality(Creates("create_position", title, in) \ late)
             before == Creating(call, "positions", "create_position", title, in)
             after == Creating(call', "positions", "create_position", title, in)
  <2>1. Cardinality(N) <= C + (IF before THEN 0 ELSE 1)
    BY DEF OneOfEach, PositionsCounted
  <2>2. Cardinality(N) \in Nat /\ C \in Nat /\ IsFiniteSet(N)
    BY Countable
  <2>3. PositionsCounted(title, in)' <=>
          Cardinality(Titled(db', title, in)) <= C + (IF after THEN 0 ELSE 1)
    BY <1>5 DEF PositionsCounted
  <2>4. /\ before <=> call.req = Request("create_position", title, in)
        /\ after <=> call.req = Request("positions", title, in) /\ id = 0
    BY <1>1, <1>4 DEF Creating
  <2>5. CASE call.req = Request("create_position", title, in)
    <3>1. Cardinality(Titled(db', title, in)) = Cardinality(N) + 1
      <4>1. /\ Titled(db', title, in) = N \cup {Len(db.positions) + 1}
            /\ Len(db.positions) + 1 \notin N
        BY <1>1, <1>3, <2>5, TitledAfter
      <4> HIDE DEF N
      <4> QED
        BY <2>2, <4>1, FS_AddElement
    <3>2. before /\ ~after
      BY <1>3, <2>4, <2>5, Requests
    <3> HIDE DEF N, C, before, after
    <3> QED
      BY <2>1, <2>2, <2>3, <3>1, <3>2
  <2>6. CASE call.req = Request("positions", title, in) /\ id = 0
    <3>1. N = {} /\ call.req # Request("create_position", title, in)
      BY <1>2, <1>3, <2>6, NotFound, Requests
    <3>2. Titled(db', title, in) = {}
      BY <1>1, <1>3, <3>1, TitledAfter
    <3>3. Cardinality(Titled(db', title, in)) = 0
      BY <3>2, FS_EmptySet
    <3> HIDE DEF N, C, before, after
    <3> QED
      BY <2>2, <2>3, <3>3
  <2>7. CASE ~before /\ ~after
    <3>1. Titled(db', title, in) = N
      BY <1>1, <1>3, <2>4, <2>7, TitledAfter
    <3> HIDE DEF N, C, before, after
    <3> QED
      BY <2>1, <2>3, <2>7, <3>1
  <2> QED
    BY <2>4, <2>5, <2>6, <2>7
<1> QED
  BY <1>6, <1>7 DEF OneOfEach

\* The calls of a kind that were cut off and are not on their way any more, when
\* a late one is served.
LEMMA LateCall ==
  ASSUME SeedInv, NEW i \in late, late' = late \ {i}, abandoned' = abandoned,
         NEW op, NEW name, NEW in
  PROVE  /\ i \notin Creates(op, name, in) \ late
         /\ abandoned[i] = Request(op, name, in) =>
              Creates(op, name, in)' \ late' = (Creates(op, name, in) \ late) \cup {i}
         /\ abandoned[i] # Request(op, name, in) =>
              Creates(op, name, in)' \ late' = Creates(op, name, in) \ late
BY DEF SeedInv, Creates

\* Serving a late call: a row that it creates is one of a call that was cut off.
LEMMA ServeLateCounts ==
  ASSUME SeedInv, OneOfEach, ServeLate
  PROVE  OneOfEach'
<1>1. PICK i \in late :
        /\ db' = Effect(abandoned[i])
        /\ late' = late \ {i}
        /\ UNCHANGED <<script, call, abandoned>>
  BY DEF ServeLate
<1>2. TablesInv(db) /\ Sound(db, abandoned[i])
  BY DEF SeedInv
<1>3. ASSUME NEW name \in Keys \ {Temp}, NEW in \in Nat
      PROVE  DivisionsCounted(name, in)'
  <2> DEFINE N == Named(db, name, in)
             L == Creates("create_division", name, in) \ late
             K == Creates("create_division", name, in)' \ late'
             b == IF Creating(call, "tree", "create_division", name, in) THEN 0 ELSE 1
  <2>1. Cardinality(N) <= Cardinality(L) + b /\ b \in Nat
    BY DEF OneOfEach, DivisionsCounted
  <2>2. /\ Cardinality(N) \in Nat /\ Cardinality(L) \in Nat
        /\ IsFiniteSet(N) /\ IsFiniteSet(L)
    BY Countable
  <2>3. DivisionsCounted(name, in)' <=> Cardinality(Named(db', name, in)) <= Cardinality(K) + b
    BY <1>1 DEF DivisionsCounted
  <2>4. CASE abandoned[i] = Request("create_division", name, in)
    <3>1. Cardinality(Named(db', name, in)) = Cardinality(N) + 1
      <4>1. /\ Named(db', name, in) = N \cup {Len(db.divisions) + 1}
            /\ Len(db.divisions) + 1 \notin N
        BY <1>1, <1>2, <2>4, NamedAfter
      <4> HIDE DEF N
      <4> QED
        BY <2>2, <4>1, FS_AddElement
    <3>2. K = L \cup {i} /\ i \notin L
      BY <1>1, <2>4, LateCall
    <3> HIDE DEF K, L, N, b
    <3>3. Cardinality(K) = Cardinality(L) + 1
      BY <2>2, <3>2, FS_AddElement
    <3> QED
      BY <2>1, <2>2, <2>3, <3>1, <3>3
  <2>5. CASE abandoned[i] # Request("create_division", name, in)
    <3>1. Named(db', name, in) = N
      BY <1>1, <1>2, <2>5, NamedAfter
    <3>2. K = L
      BY <1>1, <2>5, LateCall
    <3> HIDE DEF K, L, N, b
    <3> QED
      BY <2>1, <2>3, <3>1, <3>2
  <2> QED
    BY <2>4, <2>5
<1>4. ASSUME NEW title \in Titles \ {Temp}, NEW in \in Nat
      PROVE  PositionsCounted(title, in)'
  <2> DEFINE N == Titled(db, title, in)
             L == Creates("create_position", title, in) \ late
             K == Creates("create_position", title, in)' \ late'
             b == IF Creating(call, "positions", "create_position", title, in) THEN 0 ELSE 1
  <2>1. Cardinality(N) <= Cardinality(L) + b /\ b \in Nat
    BY DEF OneOfEach, PositionsCounted
  <2>2. /\ Cardinality(N) \in Nat /\ Cardinality(L) \in Nat
        /\ IsFiniteSet(N) /\ IsFiniteSet(L)
    BY Countable
  <2>3. PositionsCounted(title, in)'
          <=> Cardinality(Titled(db', title, in)) <= Cardinality(K) + b
    BY <1>1 DEF PositionsCounted
  <2>4. CASE abandoned[i] = Request("create_position", title, in)
    <3>1. Cardinality(Titled(db', title, in)) = Cardinality(N) + 1
      <4>1. /\ Titled(db', title, in) = N \cup {Len(db.positions) + 1}
            /\ Len(db.positions) + 1 \notin N
        BY <1>1, <1>2, <2>4, TitledAfter
      <4> HIDE DEF N
      <4> QED
        BY <2>2, <4>1, FS_AddElement
    <3>2. K = L \cup {i} /\ i \notin L
      BY <1>1, <2>4, LateCall
    <3> HIDE DEF K, L, N, b
    <3>3. Cardinality(K) = Cardinality(L) + 1
      BY <2>2, <3>2, FS_AddElement
    <3> QED
      BY <2>1, <2>2, <2>3, <3>1, <3>3
  <2>5. CASE abandoned[i] # Request("create_position", title, in)
    <3>1. Titled(db', title, in) = N
      BY <1>1, <1>2, <2>5, TitledAfter
    <3>2. K = L
      BY <1>1, <2>5, LateCall
    <3> HIDE DEF K, L, N, b
    <3> QED
      BY <2>1, <2>3, <3>1, <3>2
  <2> QED
    BY <2>4, <2>5
<1> QED
  BY <1>3, <1>4 DEF OneOfEach

\* The rows and the calls that were cut off as they were: what remains is the
\* call, which creates nothing that was not looked for.
LEMMA SameCounts ==
  ASSUME SeedInv, OneOfEach, db' = db,
         \A op, name, in : Creates(op, name, in)' \ late' = Creates(op, name, in) \ late,
         \A name \in Keys \ {Temp}, in \in Nat :
             Creating(call', "tree", "create_division", name, in)
               => Creating(call, "tree", "create_division", name, in),
         \A title \in Titles \ {Temp}, in \in Nat :
             Creating(call', "positions", "create_position", title, in)
               => Creating(call, "positions", "create_position", title, in)
  PROVE  OneOfEach'
<1>1. ASSUME NEW name \in Keys \ {Temp}, NEW in \in Nat
      PROVE  DivisionsCounted(name, in)'
  <2> DEFINE n == Cardinality(Named(db, name, in))
             c == Cardinality(Creates("create_division", name, in) \ late)
             before == Creating(call, "tree", "create_division", name, in)
             after == Creating(call', "tree", "create_division", name, in)
  <2>1. n <= c + (IF before THEN 0 ELSE 1) /\ n \in Nat /\ c \in Nat /\ (after => before)
    BY Countable DEF OneOfEach, DivisionsCounted
  <2>2. DivisionsCounted(name, in)' <=> n <= c + (IF after THEN 0 ELSE 1)
    BY DEF DivisionsCounted
  <2> HIDE DEF n, c, before, after
  <2> QED
    BY <2>1, <2>2
<1>2. ASSUME NEW title \in Titles \ {Temp}, NEW in \in Nat
      PROVE  PositionsCounted(title, in)'
  <2> DEFINE n == Cardinality(Titled(db, title, in))
             c == Cardinality(Creates("create_position", title, in) \ late)
             before == Creating(call, "positions", "create_position", title, in)
             after == Creating(call', "positions", "create_position", title, in)
  <2>1. n <= c + (IF before THEN 0 ELSE 1) /\ n \in Nat /\ c \in Nat /\ (after => before)
    BY Countable DEF OneOfEach, PositionsCounted
  <2>2. PositionsCounted(title, in)' <=> n <= c + (IF after THEN 0 ELSE 1)
    BY DEF PositionsCounted
  <2> HIDE DEF n, c, before, after
  <2> QED
    BY <2>1, <2>2
<1> QED
  BY <1>1, <1>2 DEF OneOfEach

\* What a run creates it has looked for, but for the temporary group.
LooksFirst(req) ==
  \/ req.op \notin {"create_division", "create_position"}
  \/ req.name = Temp
  \/ /\ call.state = "answered" /\ call.id = 0
     /\ \E name, in :
          \/ /\ req = Request("create_division", name, in)
             /\ call.req = Request("tree", name, in)
          \/ /\ req = Request("create_position", name, in)
             /\ call.req = Request("positions", name, in)

\* A call that is sent after such a look.
LEMMA SendCounts ==
  ASSUME SeedInv, OneOfEach, UNCHANGED <<db, abandoned, late>>,
         NEW req, call' = Sent(req), LooksFirst(req)
  PROVE  OneOfEach'
<1>1. \A op, name, in : Creates(op, name, in)' \ late' = Creates(op, name, in) \ late
  BY DEF Creates
<1>2. call'.state = "sent" /\ call'.req = req
  BY SentCall
<1>3. ASSUME NEW name \in Keys \ {Temp}, NEW in \in Nat,
             Creating(call', "tree", "create_division", name, in)
      PROVE  Creating(call, "tree", "create_division", name, in)
  <2>1. req = Request("create_division", name, in)
    BY <1>2, <1>3 DEF Creating
  <2>2. req.op = "create_division" /\ req.name = name /\ req.in = in
    BY <2>1 DEF Request
  <2>3. PICK k, j : /\ call.state = "answered" /\ call.id = 0
                    /\ \/ /\ req = Request("create_division", k, j)
                          /\ call.req = Request("tree", k, j)
                       \/ /\ req = Request("create_position", k, j)
                          /\ call.req = Request("positions", k, j)
    BY <2>2 DEF LooksFirst
  <2>4. Request("create_position", k, j).op = "create_position"
        /\ Request("create_division", k, j).name = k
        /\ Request("create_division", k, j).in = j
    BY DEF Request
  <2>5. call.req = Request("tree", name, in)
    BY <2>2, <2>3, <2>4
  <2> QED
    BY <2>3, <2>5 DEF Creating
<1>4. ASSUME NEW title \in Titles \ {Temp}, NEW in \in Nat,
             Creating(call', "positions", "create_position", title, in)
      PROVE  Creating(call, "positions", "create_position", title, in)
  <2>1. req = Request("create_position", title, in)
    BY <1>2, <1>4 DEF Creating
  <2>2. req.op = "create_position" /\ req.name = title /\ req.in = in
    BY <2>1 DEF Request
  <2>3. PICK k, j : /\ call.state = "answered" /\ call.id = 0
                    /\ \/ /\ req = Request("create_division", k, j)
                          /\ call.req = Request("tree", k, j)
                       \/ /\ req = Request("create_position", k, j)
                          /\ call.req = Request("positions", k, j)
    BY <2>2 DEF LooksFirst
  <2>4. Request("create_division", k, j).op = "create_division"
        /\ Request("create_position", k, j).name = k
        /\ Request("create_position", k, j).in = j
    BY DEF Request
  <2>5. call.req = Request("positions", title, in)
    BY <2>2, <2>3, <2>4
  <2> QED
    BY <2>3, <2>5 DEF Creating
<1> QED
  BY <1>1, <1>3, <1>4, SameCounts

\* A call that is waited for no more creates nothing.
LEMMA IdleCounts ==
  ASSUME SeedInv, OneOfEach, db' = db, call' = Idle,
         \A op, name, in : Creates(op, name, in)' \ late' = Creates(op, name, in) \ late
  PROVE  OneOfEach'
<1>1. \A read, create, name, in : ~Creating(call', read, create, name, in)
  BY DEF Creating, Idle
<1> QED
  BY <1>1, SameCounts

\* Being cut off adds to the calls that are on their way.
LEMMA CutOffCounts ==
  ASSUME SeedInv, OneOfEach, CutOff
  PROVE  OneOfEach'
<1>1. db' = db /\ call' = Idle
  BY DEF CutOff
<1>2. ASSUME NEW op, NEW name, NEW in
      PROVE  Creates(op, name, in)' \ late' = Creates(op, name, in) \ late
  <2>1. CASE UNCHANGED <<abandoned, late>>
    BY <2>1 DEF Creates
  <2>2. CASE /\ abandoned' = Append(abandoned, call.req)
             /\ late' = late \cup {Len(abandoned) + 1}
    <3>1. abandoned \in Seq(Range(abandoned))
      BY DEF SeedInv
    <3>2. /\ DOMAIN abandoned' = DOMAIN abandoned \cup {Len(abandoned) + 1}
          /\ \A i \in DOMAIN abandoned : abandoned'[i] = abandoned[i]
          /\ Len(abandoned) + 1 \notin DOMAIN abandoned
      BY <2>2, <3>1, OneMore
    <3> QED
      BY <2>2, <3>2 DEF Creates
  <2> QED
    BY <2>1, <2>2 DEF CutOff
<1> QED
  BY <1>1, <1>2, IdleCounts

\* The bootstrap makes one root of no tables.
LEMMA BootstrapCounts ==
  ASSUME SeedInv, OneOfEach, Bootstrap
  PROVE  OneOfEach'
<1> DEFINE r == [name |-> Root, parent |-> 0, texts |-> "script", archived |-> FALSE]
<1>1. /\ db'.positions = db.positions
      /\ db.divisions # << >> => db'.divisions = db.divisions
      /\ db.divisions = << >> => db'.divisions = << r >>
  BY KnownNow, BootstrapTables
<1>2. call' = Sent(Request("edit_division", Root, 1)) /\ UNCHANGED <<abandoned, late>>
  BY DEF Bootstrap
<1>3. /\ call'.state = "sent" /\ call'.req = Request("edit_division", Root, 1)
      /\ Request("edit_division", Root, 1).op = "edit_division"
  BY <1>2, SentCall DEF Request
<1>4. \A op, name, in : Creates(op, name, in)' \ late' = Creates(op, name, in) \ late
  BY <1>2 DEF Creates
<1>5. \A read, name, in : /\ ~Creating(call', read, "create_division", name, in)
                          /\ ~Creating(call', read, "create_position", name, in)
  BY <1>3 DEF Creating, Request
<1> HIDE DEF r
<1>6. ASSUME NEW name \in Keys \ {Temp}, NEW in \in Nat
      PROVE  DivisionsCounted(name, in)'
  <2> DEFINE n == Cardinality(Named(db, name, in))
             c == Cardinality(Creates("create_division", name, in) \ late)
             b == IF Creating(call, "tree", "create_division", name, in) THEN 0 ELSE 1
  <2>1. n <= c + b /\ b \in {0, 1} /\ n \in Nat /\ c \in Nat
    BY Countable DEF OneOfEach, DivisionsCounted
  <2>2. DivisionsCounted(name, in)' <=> Cardinality(Named(db', name, in)) <= c + 1
    BY <1>4, <1>5 DEF DivisionsCounted
  <2>3. CASE db.divisions # << >>
    <3>1. Cardinality(Named(db', name, in)) = n
      BY <1>1, <2>3 DEF Named
    <3> HIDE DEF n, c, b
    <3> QED
      BY <2>1, <2>2, <3>1
  <2>4. CASE db.divisions = << >>
    <3>1. Named(db', name, in) \in SUBSET {1}
      BY <1>1, <2>4 DEF Named
    <3>2. Cardinality(Named(db', name, in)) <= 1 /\ Cardinality(Named(db', name, in)) \in Nat
      <4>1. IsFiniteSet({1}) /\ Cardinality({1}) = 1
        BY FS_Singleton
      <4>2. IsFiniteSet(Named(db', name, in)) /\ Cardinality(Named(db', name, in)) <= 1
        BY <3>1, <4>1, FS_Subset
      <4> QED
        BY <4>2, FS_CardinalityType
    <3> HIDE DEF n, c, b
    <3> QED
      BY <2>1, <2>2, <3>2
  <2> QED
    BY <2>3, <2>4
<1>7. ASSUME NEW title \in Titles \ {Temp}, NEW in \in Nat
      PROVE  PositionsCounted(title, in)'
  <2> DEFINE n == Cardinality(Titled(db, title, in))
             c == Cardinality(Creates("create_position", title, in) \ late)
             b == IF Creating(call, "positions", "create_position", title, in) THEN 0 ELSE 1
  <2>1. n <= c + b /\ b \in {0, 1} /\ n \in Nat /\ c \in Nat
    BY Countable DEF OneOfEach, PositionsCounted
  <2>2. PositionsCounted(title, in)' <=> Cardinality(Titled(db', title, in)) <= c + 1
    BY <1>4, <1>5 DEF PositionsCounted
  <2>3. Cardinality(Titled(db', title, in)) = n
    BY <1>1 DEF Titled
  <2> HIDE DEF n, c, b
  <2> QED
    BY <2>1, <2>2, <2>3
<1> QED
  BY <1>6, <1>7 DEF OneOfEach

-----------------------------------------------------------------------------
(* Counting: temporary groups.                                             *)

\* The numbers that are counted with.
LEMMA TempNumbers ==
  ASSUME SeedInv
  PROVE  /\ Credit \in {0, 1} /\ script.runs \in Nat /\ script.complete \in Nat
         /\ IsFiniteSet(OpenTemps(db)) /\ Cardinality(OpenTemps(db)) \in Nat
         /\ IsFiniteSet(LateTemps) /\ Cardinality(LateTemps) \in Nat
<1>1. script.runs \in Nat /\ script.complete \in Nat
  BY KnownNow, ScriptAssumption DEF Remembers
<1> QED
  BY <1>1, Countable DEF Credit

\* A run that asks for a group has none yet.
LEMMA AsksForTemp ==
  ASSUME SeedInv, call.state = "sent", call.req.op = "create_division"
  PROVE  Credit = 1 /\ (call.req.name = Temp => script.pc = "temp_division")
<1>1. script.pc \in Pcs \ (Halted \cup {"bootstrap"})
  BY KnownNow DEF Asks, Remembers
<1>2. CASE script.pc \in {"patch_root", "roles", "role", "tree", "register", "find_user",
                          "positions", "position", "member"}
  BY <1>2, KnownNow
     DEF Asks, Request, ListRoles, ReadTree, Register, ListPositions, Assign
<1>3. CASE script.pc = "division"
  <2>1. call.req.name = Divisions[script.n].name /\ script.n \in DOMAIN Divisions
    BY <1>3, KnownNow DEF Asks, Request, Reached
  <2>2. call.req.name # Temp
    BY <2>1, KeysOfScript
  <2> QED
    BY <1>3, <2>2 DEF Credit, OwnTempIsOpen, Halted, TempPcs
<1>4. CASE script.pc = "temp_division"
  BY <1>4 DEF Credit, OwnTempIsOpen, Halted
<1>5. CASE script.pc \in TempPcs \ {"temp_division"}
  BY <1>5, KnownNow DEF Asks, Request, TempPcs
<1> QED
  BY <1>1, <1>2, <1>3, <1>4, <1>5 DEF Pcs

\* A run archives its own group, at the end.
LEMMA ArchivesOwnTemp ==
  ASSUME SeedInv, call.state = "sent"
  PROVE  script.pc = "temp_archive" <=> call.req.op = "archive_division"
<1>1. script.pc \in Pcs \ (Halted \cup {"bootstrap"})
  BY KnownNow DEF Asks, Remembers
<1>2. script.pc = "temp_archive" => call.req.op = "archive_division"
  BY KnownNow DEF Asks, Request
<1>3. CASE script.pc \in {"patch_root", "roles", "role", "tree", "register", "find_user",
                          "positions", "position", "member", "division"}
  BY <1>3, KnownNow
     DEF Asks, Request, ListRoles, ReadTree, Register, ListPositions, Assign
<1>4. CASE script.pc \in TempPcs \ {"temp_archive"}
  BY <1>4, KnownNow DEF Asks, Request, TempPcs
<1> QED
  BY <1>1, <1>2, <1>3, <1>4 DEF Pcs, TempPcs

\* A run counts on no more than before.
LEMMA SameTemps ==
  ASSUME SeedInv, TempsAccounted, db' = db, UNCHANGED <<abandoned, late>>,
         script'.runs = script.runs, script'.complete = script.complete,
         Credit' <= Credit, Credit' \in {0, 1}
  PROVE  TempsAccounted'
<1>1. LateTemps' = LateTemps
  BY DEF LateTemps
<1>2. TempsAccounted' <=>
        Cardinality(OpenTemps(db)) + Cardinality(LateTemps) + Credit'
          <= script.runs - script.complete
  BY <1>1 DEF TempsAccounted
<1> QED
  BY <1>2, TempNumbers DEF TempsAccounted

\* Serving the call of the run.
LEMMA ServeTemps ==
  ASSUME SeedInv, TempsAccounted, Serve
  PROVE  TempsAccounted' /\ ArchivedAtTheEnd'
<1>1. /\ call.state = "sent" /\ db' = Effect(call.req)
      /\ UNCHANGED <<script, abandoned, late, disturbed>>
  BY DEF Serve
<1>2. PICK id \in Ids(call.req) :
        call' = [state |-> "answered", req |-> call.req, id |-> id,
                 answer |-> AnswerTo(call.req), same |-> AsInScript(call.req, id)]
  BY DEF Serve
<1>3. TablesInv(db) /\ Sound(db, call.req)
  BY <1>1, AsksSound DEF SeedInv
<1>4. call'.state = "answered" /\ call'.req = call.req /\ call'.id = id
  BY <1>2
<1>5. script.pc = "temp_archive" <=> call.req.op = "archive_division"
  BY <1>1, ArchivesOwnTemp
<1> DEFINE o == Cardinality(OpenTemps(db))
           l == Cardinality(LateTemps)
           next == Cardinality(OpenTemps(db'))
<1>6. TempsAccounted' <=> next + l + Credit' <= script.runs - script.complete
  <2>1. LateTemps' = LateTemps
    BY <1>1 DEF LateTemps
  <2> QED
    BY <1>1, <2>1 DEF TempsAccounted
<1>7. /\ o + l + Credit <= script.runs - script.complete
      /\ o \in Nat /\ l \in Nat /\ Credit \in {0, 1}
      /\ script.runs \in Nat /\ script.complete \in Nat
  BY TempNumbers DEF TempsAccounted
<1>8. /\ next \in Nat /\ Credit' \in {0, 1}
      /\ IsFiniteSet(OpenTemps(db))
  <2>1. SeedInv'
    BY ServeStep
  <2>2. (SeedInv => Cardinality(OpenTemps(db)) \in Nat)'
    BY TempNumbers, PTL
  <2>3. Credit' \in {0, 1}
    BY DEF Credit
  <2> QED
    BY <2>1, <2>2, <2>3, TempNumbers
<1>9. CASE call.req.op = "create_division" /\ call.req.name = Temp
  <2>1. script.pc = "temp_division" /\ Credit = 1
    BY <1>1, <1>9, AsksForTemp
  <2>2. id = Len(db.divisions) + 1
    BY <1>3, <1>9, Found
  <2>3. /\ OpenTemps(db') = OpenTemps(db) \cup {id}
        /\ id \notin OpenTemps(db)
    BY <1>1, <1>3, <1>9, <2>2, TempsAfter
  <2>4. next = o + 1
    BY <1>8, <2>3, FS_AddElement
  <2>5. OwnTempIsOpen'
    BY <1>1, <1>4, <2>1, <2>3 DEF OwnTempIsOpen, TempPcs
  <2>6. Credit' = 0
    BY <2>5 DEF Credit
  <2>7. ArchivedAtTheEnd'
    BY <1>1, <2>1 DEF ArchivedAtTheEnd
  <2> HIDE DEF o, l, next
  <2> QED
    BY <1>6, <1>7, <2>1, <2>4, <2>6, <2>7
<1>10. CASE call.req.op = "archive_division"
  <2>1. script.pc = "temp_archive" /\ call.req.in = script.ids[Temp]
    BY <1>5, <1>10, KnownNow DEF Asks, Request
  <2>2. OpenTemps(db') = OpenTemps(db) \ {script.ids[Temp]}
    BY <1>1, <1>3, <1>10, <2>1, TempsAfter
  <2>3. ~OwnTempIsOpen'
    BY <1>1, <2>1, <2>2 DEF OwnTempIsOpen
  <2>4. ArchivedAtTheEnd'
    BY <2>3 DEF ArchivedAtTheEnd
  <2>5. next = IF script.ids[Temp] \in OpenTemps(db) THEN o - 1 ELSE o
    BY <1>8, <2>2, FS_RemoveElement
  <2>6. Credit = IF script.ids[Temp] \in OpenTemps(db) THEN 0 ELSE 1
    BY <2>1 DEF Credit, OwnTempIsOpen, Halted, TempPcs
  <2> HIDE DEF o, l, next
  <2> QED
    BY <1>6, <1>7, <1>8, <2>4, <2>5, <2>6
<1>11. CASE /\ ~(call.req.op = "create_division" /\ call.req.name = Temp)
            /\ call.req.op # "archive_division"
  <2>1. OpenTemps(db') = OpenTemps(db)
    BY <1>1, <1>3, <1>11, TempsAfter
  <2>2. script.pc # "temp_division"
    BY <1>11, KnownNow DEF Asks, Request
  <2>3. OwnTempIsOpen' <=> OwnTempIsOpen
    BY <1>1, <2>1, <2>2 DEF OwnTempIsOpen
  <2>4. Credit' = Credit
    BY <1>1, <2>3 DEF Credit
  <2>5. ArchivedAtTheEnd'
    BY <1>1, <1>5, <1>11 DEF ArchivedAtTheEnd
  <2> QED
    BY <1>6, <1>7, <2>1, <2>4, <2>5
<1> QED
  BY <1>9, <1>10, <1>11

\* Serving a late call.
LEMMA ServeLateTemps ==
  ASSUME SeedInv, TempsAccounted, ArchivedAtTheEnd, ServeLate
  PROVE  TempsAccounted' /\ ArchivedAtTheEnd'
<1>1. PICK i \in late :
        /\ db' = Effect(abandoned[i])
        /\ late' = late \ {i}
        /\ UNCHANGED <<script, call, abandoned>>
  BY DEF ServeLate
<1>2. TablesInv(db) /\ Sound(db, abandoned[i])
  BY DEF SeedInv
<1> DEFINE o == Cardinality(OpenTemps(db))
           l == Cardinality(LateTemps)
           m == Cardinality(LateTemps')
           next == Cardinality(OpenTemps(db'))
           temp == abandoned[i].op = "create_division" /\ abandoned[i].name = Temp
<1>3. TempsAccounted' <=> next + m + Credit' <= script.runs - script.complete
  BY <1>1 DEF TempsAccounted
<1>4. /\ o + l + Credit <= script.runs - script.complete
      /\ o \in Nat /\ l \in Nat /\ Credit \in {0, 1} /\ Credit' \in {0, 1}
      /\ script.runs \in Nat /\ script.complete \in Nat
      /\ IsFiniteSet(OpenTemps(db)) /\ IsFiniteSet(LateTemps)
  BY TempNumbers DEF TempsAccounted, Credit
<1>5. /\ temp => i \in LateTemps /\ LateTemps' = LateTemps \ {i}
      /\ ~temp => LateTemps' = LateTemps
  BY <1>1 DEF LateTemps
<1>6. m = IF temp THEN l - 1 ELSE l
  BY <1>4, <1>5, FS_RemoveElement
<1>7. \A k \in DOMAIN db.divisions : k \in OpenTemps(db') => k \in OpenTemps(db)
  BY <1>1, <1>2, TempsAfter, RowDomains DEF OpenTemps
<1>8. ArchivedAtTheEnd'
  <2> SUFFICES ASSUME script.pc = "temp_archive", call.state = "answered"
               PROVE  ~OwnTempIsOpen'
    BY <1>1 DEF ArchivedAtTheEnd
  <2>1. script.ids[Temp] \in DOMAIN db.divisions
    BY KnownNow, KnownIds, KeysOfScript DEF Reached, TempPcs
  <2>2. script.ids[Temp] \notin OpenTemps(db)
    BY DEF ArchivedAtTheEnd, OwnTempIsOpen, TempPcs
  <2> QED
    BY <1>1, <1>7, <2>1, <2>2 DEF OwnTempIsOpen
<1>9. CASE temp
  <2>1. /\ OpenTemps(db') = OpenTemps(db) \cup {Len(db.divisions) + 1}
        /\ Len(db.divisions) + 1 \notin OpenTemps(db)
    BY <1>1, <1>2, <1>9, TempsAfter
  <2>2. next = o + 1
    BY <1>4, <2>1, FS_AddElement
  <2>3. OwnTempIsOpen => OwnTempIsOpen'
    BY <1>1, <2>1 DEF OwnTempIsOpen
  <2>4. Credit' <= Credit
    BY <1>1, <2>3 DEF Credit
  <2> HIDE DEF o, l, m, next, temp
  <2> QED
    BY <1>3, <1>4, <1>6, <1>8, <1>9, <2>2, <2>4
<1>10. CASE abandoned[i].op = "archive_division"
  <2> DEFINE j == abandoned[i].in
  <2>1. OpenTemps(db') = OpenTemps(db) \ {j} /\ ~temp
    BY <1>1, <1>2, <1>10, TempsAfter
  <2> HIDE DEF j
  <2>2. next = IF j \in OpenTemps(db) THEN o - 1 ELSE o
    BY <1>4, <2>1, FS_RemoveElement
  <2>3. j \notin OpenTemps(db) => Credit' = Credit
    <3> SUFFICES ASSUME j \notin OpenTemps(db) PROVE Credit' = Credit
      OBVIOUS
    <3>1. OpenTemps(db') = OpenTemps(db)
      BY <2>1
    <3> QED
      BY <1>1, <3>1 DEF Credit, OwnTempIsOpen
  <2> HIDE DEF o, l, m, next, temp
  <2> QED
    BY <1>3, <1>4, <1>6, <1>8, <2>1, <2>2, <2>3
<1>11. CASE ~temp /\ abandoned[i].op # "archive_division"
  <2>1. OpenTemps(db') = OpenTemps(db)
    BY <1>1, <1>2, <1>11, TempsAfter
  <2>2. Credit' = Credit
    BY <1>1, <2>1 DEF Credit, OwnTempIsOpen
  <2> HIDE DEF l, m, temp
  <2> QED
    BY <1>3, <1>4, <1>6, <1>8, <1>11, <2>1, <2>2
<1> QED
  BY <1>9, <1>10, <1>11

\* A run that is cut off while it asks for a group leaves it to the late calls.
LEMMA CutOffTemps ==
  ASSUME SeedInv, TempsAccounted, CutOff
  PROVE  TempsAccounted' /\ ArchivedAtTheEnd'
<1>1. /\ script' = [script EXCEPT !.pc = "stopped"] /\ call' = Idle
      /\ UNCHANGED <<db, disturbed>>
  BY DEF CutOff
<1>2. /\ script'.pc = "stopped" /\ script'.runs = script.runs
      /\ script'.complete = script.complete
  BY <1>1, KnownNow DEF Remembers
<1>3. Credit' = 0 /\ ArchivedAtTheEnd'
  BY <1>2 DEF Credit, Halted, ArchivedAtTheEnd
<1>4. CASE UNCHANGED <<abandoned, late>>
  <2>1. Credit' <= Credit
    BY <1>3, TempNumbers
  <2> QED
    BY <1>1, <1>2, <1>3, <1>4, <2>1, SameTemps
<1>5. CASE /\ call.state = "sent"
           /\ abandoned' = Append(abandoned, call.req)
           /\ late' = late \cup {Len(abandoned) + 1}
  <2> DEFINE k == Len(abandoned) + 1
             temp == call.req.op = "create_division" /\ call.req.name = Temp
  <2>1. abandoned \in Seq(Range(abandoned)) /\ late \subseteq DOMAIN abandoned
    BY DEF SeedInv
  <2>2. /\ \A i \in DOMAIN abandoned : abandoned'[i] = abandoned[i]
        /\ abandoned'[k] = call.req /\ k \notin DOMAIN abandoned
    BY <1>5, <2>1, OneMore
  <2>3. /\ temp => LateTemps' = LateTemps \cup {k} /\ k \notin LateTemps
        /\ ~temp => LateTemps' = LateTemps
    <3> HIDE DEF k
    <3>1. late' = late \cup {k}
      BY <1>5 DEF k
    <3> QED
      BY <2>1, <2>2, <3>1 DEF LateTemps
  <2>4. Cardinality(LateTemps') =
          IF temp THEN Cardinality(LateTemps) + 1 ELSE Cardinality(LateTemps)
    <3> HIDE DEF k, temp
    <3> QED
      BY <2>3, TempNumbers, FS_AddElement
  <2>5. temp => Credit = 1
    BY <1>5, AsksForTemp
  <2>6. TempsAccounted' <=>
          Cardinality(OpenTemps(db)) + Cardinality(LateTemps') <= script.runs - script.complete
    <3>1. Cardinality(LateTemps') \in Nat
      BY <2>4, TempNumbers
    <3>2. TempsAccounted' <=>
            Cardinality(OpenTemps(db)) + Cardinality(LateTemps') + 0
              <= script.runs - script.complete
      BY <1>1, <1>2, <1>3 DEF TempsAccounted
    <3> QED
      BY <3>1, <3>2, TempNumbers
  <2> HIDE DEF k, temp
  <2>7. TempsAccounted'
    BY <2>4, <2>5, <2>6, TempNumbers DEF TempsAccounted
  <2> QED
    BY <1>3, <2>7
<1> QED
  BY <1>4, <1>5 DEF CutOff

\* A run begins, and may open one group more.
LEMMA RunCounts ==
  ASSUME SeedInv, CountInv, Run
  PROVE  CountInv'
<1>1. /\ script.pc \in Halted /\ UNCHANGED <<db, call, abandoned, late>>
      /\ script' = [Start0 EXCEPT !.pc = "bootstrap", !.runs = script.runs + 1,
                                  !.complete = script.complete]
  BY DEF Run, Halted
<1>2. /\ script'.pc = "bootstrap" /\ script'.runs = script.runs + 1
      /\ script'.complete = script.complete
  BY <1>1 DEF Start0
<1>3. OneOfEach'
  <2>1. \A op, name, in : Creates(op, name, in)' \ late' = Creates(op, name, in) \ late
    BY <1>1 DEF Creates
  <2> QED
    BY <1>1, <2>1, SameCounts DEF CountInv
<1>4. TempsAccounted'
  <2>1. Credit = 0 /\ Credit' = 1
    BY <1>1, <1>2 DEF Credit, OwnTempIsOpen, Halted, TempPcs
  <2>2. LateTemps' = LateTemps
    BY <1>1 DEF LateTemps
  <2>3. TempsAccounted' <=>
          Cardinality(OpenTemps(db)) + Cardinality(LateTemps) + 1
            <= (script.runs + 1) - script.complete
    <3>1. TempsAccounted' <=>
            Cardinality(OpenTemps(db')) + Cardinality(LateTemps') + Credit'
              <= script'.runs - script'.complete
      BY DEF TempsAccounted
    <3>2. db' = db
      BY <1>1
    <3> QED
      BY <1>2, <2>1, <2>2, <3>1, <3>2
  <2>4. Cardinality(OpenTemps(db)) + Cardinality(LateTemps) + 0
          <= script.runs - script.complete
    BY <2>1 DEF CountInv, TempsAccounted
  <2> QED
    BY <2>3, <2>4, TempNumbers
<1>5. ArchivedAtTheEnd'
  BY <1>2 DEF ArchivedAtTheEnd
<1> QED
  BY <1>3, <1>4, <1>5 DEF CountInv

\* The root is no temporary group.
LEMMA BootstrapTemps ==
  ASSUME SeedInv, CountInv, Bootstrap
  PROVE  CountInv'
<1> DEFINE r == [name |-> Root, parent |-> 0, texts |-> "script", archived |-> FALSE]
<1>1. /\ db.divisions # << >> => db'.divisions = db.divisions
      /\ db.divisions = << >> => db'.divisions = << r >>
  BY KnownNow, BootstrapTables
<1>2. /\ script.pc = "bootstrap" /\ UNCHANGED <<abandoned, late>>
      /\ script' = [script EXCEPT !.pc = "patch_root", !.ids[Root] = 1]
  BY DEF Bootstrap
<1>3. /\ script'.pc = "patch_root" /\ script'.runs = script.runs
      /\ script'.complete = script.complete
  BY <1>2, KnownNow DEF Remembers
<1>4. OpenTemps(db') = OpenTemps(db)
  <2>1. CASE db.divisions # << >>
    BY <1>1, <2>1 DEF OpenTemps
  <2>2. CASE db.divisions = << >>
    <3>1. DOMAIN db.divisions = {} /\ DOMAIN db'.divisions = {1} /\ db'.divisions[1] = r
      BY <1>1, <2>2
    <3>2. r.name # Temp
      BY KeysOfScript
    <3> HIDE DEF r
    <3> QED
      BY <3>1, <3>2 DEF OpenTemps
  <2> QED
    BY <2>1, <2>2
<1>5. Credit' = Credit /\ LateTemps' = LateTemps
  BY <1>2, <1>3 DEF Credit, OwnTempIsOpen, Halted, TempPcs, LateTemps
<1>6. TempsAccounted' /\ ArchivedAtTheEnd'
  BY <1>3, <1>4, <1>5 DEF TempsAccounted, ArchivedAtTheEnd, CountInv
<1> QED
  BY <1>6, BootstrapCounts DEF CountInv

\* A call that is refused is the end of the run.
LEMMA RefusedCounts ==
  ASSUME SeedInv, CountInv, Refused
  PROVE  CountInv'
<1>1. /\ script' = [script EXCEPT !.pc = "refused"] /\ call' = Idle
      /\ UNCHANGED <<db, abandoned, late, disturbed>>
  BY DEF Refused
<1>2. /\ script'.pc = "refused" /\ script'.runs = script.runs
      /\ script'.complete = script.complete
  BY <1>1, KnownNow DEF Remembers
<1>3. \A op, name, in : Creates(op, name, in)' \ late' = Creates(op, name, in) \ late
  BY <1>1 DEF Creates
<1>4. Credit' = 0 /\ Credit' <= Credit
  <2>1. Credit' = 0
    BY <1>2 DEF Credit, Halted
  <2> QED
    BY <2>1, TempNumbers
<1>5. TempsAccounted'
  BY <1>1, <1>2, <1>4, SameTemps DEF CountInv
<1>6. ArchivedAtTheEnd'
  BY <1>2 DEF ArchivedAtTheEnd
<1> QED
  BY <1>1, <1>3, <1>5, <1>6, IdleCounts DEF CountInv

\* A run that completes has closed its group.
LEMMA TempArchiveCounts ==
  ASSUME SeedInv, CountInv, TempArchive
  PROVE  CountInv'
<1>1. /\ script.pc = "temp_archive" /\ call.state = "answered"
      /\ UNCHANGED <<db, abandoned, late, disturbed>>
      /\ script' = [script EXCEPT !.pc = "done", !.complete = @ + 1]
      /\ call' = Idle
  BY DEF TempArchive
<1>2. /\ script'.pc = "done" /\ script'.runs = script.runs
      /\ script'.complete = script.complete + 1
  BY <1>1, KnownNow DEF Remembers
<1>3. \A op, name, in : Creates(op, name, in)' \ late' = Creates(op, name, in) \ late
  BY <1>1 DEF Creates
<1>4. TempsAccounted'
  <2>1. ~OwnTempIsOpen
    BY <1>1 DEF CountInv, ArchivedAtTheEnd
  <2>2. Credit = 1 /\ Credit' = 0
    BY <1>1, <1>2, <2>1 DEF Credit, Halted
  <2>3. LateTemps' = LateTemps
    BY <1>1 DEF LateTemps
  <2>4. TempsAccounted' <=>
          Cardinality(OpenTemps(db)) + Cardinality(LateTemps) + 0
            <= script.runs - (script.complete + 1)
    BY <1>1, <1>2, <2>2, <2>3 DEF TempsAccounted
  <2>5. Cardinality(OpenTemps(db)) + Cardinality(LateTemps) + 1
          <= script.runs - script.complete
    BY <2>2 DEF CountInv, TempsAccounted
  <2> QED
    BY <2>4, <2>5, TempNumbers
<1>5. ArchivedAtTheEnd'
  BY <1>2 DEF ArchivedAtTheEnd
<1> QED
  BY <1>1, <1>3, <1>4, <1>5, IdleCounts DEF CountInv

\* A run that goes on with a call, and counts on no more groups than before.
LEMMA SendStep ==
  ASSUME SeedInv, CountInv, UNCHANGED <<db, abandoned, late>>,
         script'.runs = script.runs, script'.complete = script.complete,
         NEW req, call' = Sent(req), LooksFirst(req), Credit' <= Credit
  PROVE  CountInv'
<1>1. OneOfEach'
  BY SendCounts DEF CountInv
<1>2. Credit' \in {0, 1}
  BY DEF Credit
<1>3. TempsAccounted'
  BY <1>2, SameTemps DEF CountInv
<1>4. ArchivedAtTheEnd'
  <2>1. call'.state = "sent"
    BY SentCall
  <2> QED
    BY <2>1 DEF ArchivedAtTheEnd
<1> QED
  BY <1>1, <1>3, <1>4 DEF CountInv

\* Before the temporary group.
LEMMA EarlyStep ==
  ASSUME SeedInv, CountInv, UNCHANGED <<db, abandoned, late>>,
         script.pc \notin TempPcs, call.state = "answered",
         script'.runs = script.runs, script'.complete = script.complete,
         NEW req, call' = Sent(req), LooksFirst(req)
  PROVE  CountInv'
<1>1. script.pc \notin Halted
  BY KnownNow DEF Asks
<1>2. Credit = 1 /\ Credit' \in {0, 1}
  BY <1>1 DEF Credit, OwnTempIsOpen
<1>3. Credit' <= Credit
  BY <1>2
<1> QED
  BY <1>3, SendStep

\* The same, for a step by GoOn.
LEMMA EarlyGoOn ==
  ASSUME SeedInv, CountInv, NEW from, NEW pc, NEW n, NEW ids, NEW pos, NEW req,
         GoOn(from, pc, n, ids, pos, req), from \notin TempPcs, LooksFirst(req)
  PROVE  CountInv'
<1>1. /\ script.pc = from /\ call.state = "answered" /\ call' = Sent(req)
      /\ script' = [script EXCEPT !.pc = pc, !.n = n, !.ids = ids, !.pos = pos]
      /\ UNCHANGED <<db, abandoned, late>>
  BY DEF GoOn
<1>2. script'.runs = script.runs /\ script'.complete = script.complete
  BY <1>1, KnownNow DEF Remembers
<1> QED
  BY <1>1, <1>2, EarlyStep

\* With the temporary group.
LEMMA LaterGoOn ==
  ASSUME SeedInv, CountInv, NEW from, NEW pc, NEW n, NEW ids, NEW pos, NEW req,
         GoOn(from, pc, n, ids, pos, req), LooksFirst(req),
         from \in TempPcs, pc \in TempPcs \ {"temp_division"},
         from = "temp_division" => ids[Temp] = call.id,
         from # "temp_division" => ids[Temp] = script.ids[Temp]
  PROVE  CountInv'
<1>1. /\ script.pc = from /\ call.state = "answered" /\ call' = Sent(req)
      /\ script' = [script EXCEPT !.pc = pc, !.n = n, !.ids = ids, !.pos = pos]
      /\ UNCHANGED <<db, abandoned, late>>
  BY DEF GoOn
<1>2. /\ script'.runs = script.runs /\ script'.complete = script.complete
      /\ script'.pc = pc /\ script'.ids = ids
  BY <1>1, KnownNow DEF Remembers
<1>3. OwnTempIsOpen => OwnTempIsOpen'
  BY <1>1, <1>2 DEF OwnTempIsOpen
<1>4. script.pc \notin Halted
  BY <1>1, KnownNow DEF Asks
<1>5. Credit' <= Credit
  BY <1>3, <1>4 DEF Credit
<1> QED
  BY <1>1, <1>2, <1>5, SendStep

\* Every call of the script is one that has been looked for, or creates nothing.
LEMMA ScriptCounts ==
  ASSUME SeedInv, CountInv,
         \/ PatchRoot \/ EnsureRole \/ RoleEnsured
         \/ EnsureDivision \/ DivisionEnsured \/ EnsureUser \/ UserEnsured
         \/ EnsurePosition \/ EnsureMembership \/ MembershipEnsured
  PROVE  CountInv'
<1>1. \A op, name, in : Request(op, name, in).op = op /\ Request(op, name, in).name = name
  BY DEF Request
<1>2. \A n, ids : /\ LooksFirst(ListRoles(n)) /\ LooksFirst(ReadTree(n, ids))
                  /\ LooksFirst(Register(n)) /\ LooksFirst(ListPositions(n, ids))
                  /\ LooksFirst(Assign(n, ids))
  BY <1>1 DEF LooksFirst, ListRoles, ReadTree, Register, ListPositions, Assign
<1>3. \A op, name, in : op \notin {"create_division", "create_position"} =>
        LooksFirst(Request(op, name, in))
  BY <1>1 DEF LooksFirst
<1>4. {"patch_root", "roles", "role", "tree", "division", "register", "find_user",
       "positions", "position", "member"} \cap TempPcs = {}
  BY DEF TempPcs
<1>5. CASE PatchRoot
  BY <1>2, <1>4, <1>5, EarlyGoOn DEF PatchRoot
<1>6. CASE EnsureRole
  <2> DEFINE op == IF call.id = 0 THEN "create_role" ELSE "edit_role"
  <2>1. GoOn("roles", "role", script.n, script.ids, 0, Request(op, Roles[script.n], 0))
    BY <1>6 DEF EnsureRole
  <2>2. op \notin {"create_division", "create_position"}
    OBVIOUS
  <2> HIDE DEF op
  <2> QED
    BY <1>3, <1>4, <2>1, <2>2, EarlyGoOn
<1>7. CASE RoleEnsured
  BY <1>2, <1>4, <1>7, EarlyGoOn DEF RoleEnsured
<1>8. CASE EnsureDivision
  <2> DEFINE name == Divisions[script.n].name
             in == script.ids[Divisions[script.n].parent]
             ids == [script.ids EXCEPT ![name] = call.id]
  <2>1. \/ /\ call.id = 0
           /\ GoOn("tree", "division", script.n, script.ids, 0,
                   Request("create_division", name, in))
        \/ GoOn("tree", "division", script.n, ids, 0, Request("edit_division", name, call.id))
    BY <1>8 DEF EnsureDivision
  <2>2. call.state = "answered" /\ script.pc = "tree"
    BY <2>1 DEF GoOn
  <2>3. call.req = Request("tree", name, in)
    BY <2>2, KnownNow DEF Asks, ReadTree
  <2> HIDE DEF name, in, ids
  <2>4. call.id = 0 => LooksFirst(Request("create_division", name, in))
    BY <2>2, <2>3 DEF LooksFirst
  <2>5. LooksFirst(Request("edit_division", name, call.id))
    BY <1>3
  <2> QED
    BY <1>4, <2>1, <2>4, <2>5, EarlyGoOn
<1>9. CASE DivisionEnsured
  <2> DEFINE ids == [script.ids EXCEPT ![Divisions[script.n].name] =
                       IF call.id = 0 THEN @ ELSE call.id]
  <2>1. PICK from \in {"tree", "division"} :
          IF script.n < Len(Divisions)
          THEN GoOn(from, "tree", script.n + 1, ids, 0, ReadTree(script.n + 1, ids))
          ELSE GoOn(from, "register", 1, ids, 0, Register(1))
    BY <1>9 DEF DivisionEnsured
  <2> HIDE DEF ids
  <2> QED
    BY <1>2, <1>4, <2>1, EarlyGoOn
<1>10. CASE EnsureUser
  <2> DEFINE req == Request("search", People[script.n], 0)
  <2>1. /\ script.pc = "register" /\ call.answer = "conflict"
        /\ script' = [script EXCEPT !.pc = "find_user"]
        /\ call' = Sent(req) /\ UNCHANGED <<db, abandoned, late, disturbed>>
    BY <1>10 DEF EnsureUser
  <2>2. LooksFirst(req)
    BY <1>3
  <2> HIDE DEF req
  <2>3. script'.runs = script.runs /\ script'.complete = script.complete
    BY <2>1, KnownNow DEF Remembers
  <2>4. call.state = "answered"
    BY <2>1, KnownNow DEF Answered
  <2> QED
    BY <1>4, <2>1, <2>2, <2>3, <2>4, EarlyStep
<1>11. CASE UserEnsured
  BY <1>2, <1>4, <1>11, EarlyGoOn DEF UserEnsured
<1>12. CASE EnsurePosition
  <2> DEFINE title == Assignments[script.n].title
             in == script.ids[Assignments[script.n].division]
  <2>1. /\ call.id = 0
        /\ GoOn("positions", "position", script.n, script.ids, 0,
                Request("create_position", title, in))
    BY <1>12 DEF EnsurePosition
  <2>2. call.state = "answered" /\ script.pc = "positions"
    BY <2>1 DEF GoOn
  <2>3. call.req = Request("positions", title, in)
    BY <2>2, KnownNow DEF Asks, ListPositions
  <2> HIDE DEF title, in
  <2>4. LooksFirst(Request("create_position", title, in))
    BY <2>1, <2>2, <2>3 DEF LooksFirst
  <2> QED
    BY <1>4, <2>1, <2>4, EarlyGoOn
<1>13. CASE EnsureMembership
  BY <1>2, <1>4, <1>13, EarlyGoOn DEF EnsureMembership
<1>14. CASE MembershipEnsured
  <2> DEFINE temp == Request("create_division", Temp, script.ids[Divisions[1].name])
             more == ListPositions(script.n + 1, script.ids)
  <2>1. /\ script.pc = "member" /\ call.state = "answered"
        /\ UNCHANGED <<db, abandoned, late>>
        /\ call' \in {Sent(temp), Sent(more)}
        /\ \/ script' = [script EXCEPT !.pc = "positions", !.n = @ + 1, !.pos = 0]
           \/ script' = [script EXCEPT !.pc = "temp_division", !.pos = 0]
    BY <1>14 DEF MembershipEnsured, Held
  <2>2. LooksFirst(temp) /\ LooksFirst(more)
    BY <1>1, <1>2 DEF LooksFirst
  <2> HIDE DEF temp, more
  <2>3. script'.runs = script.runs /\ script'.complete = script.complete
    BY <2>1, KnownNow DEF Remembers
  <2> QED
    BY <1>4, <2>1, <2>2, <2>3, EarlyStep
<1> QED
  BY <1>5, <1>6, <1>7, <1>8, <1>9, <1>10, <1>11, <1>12, <1>13, <1>14

\* With its group a run goes on until that is archived.
LEMMA TempCounts ==
  ASSUME SeedInv, CountInv,
         TempDivision \/ TempPosition \/ TempMember \/ TempArchivePosition
  PROVE  CountInv'
<1>1. \A op, name, in : name = Temp \/ op \notin {"create_division", "create_position"} =>
        LooksFirst(Request(op, name, in))
  BY DEF LooksFirst, Request
<1>2. {"temp_position", "temp_member", "temp_archive_position", "temp_archive"}
        = TempPcs \ {"temp_division"}
      /\ "temp_division" \in TempPcs
  BY DEF TempPcs
<1>3. CASE TempDivision
  <2> DEFINE ids == [script.ids EXCEPT ![Temp] = call.id]
  <2>1. GoOn("temp_division", "temp_position", 1, ids, 0,
             Request("create_position", Temp, call.id))
    BY <1>3 DEF TempDivision
  <2>2. ids[Temp] = call.id
    BY KnownNow, KeysOfScript
  <2> HIDE DEF ids
  <2> QED
    BY <1>1, <1>2, <2>1, <2>2, LaterGoOn
<1>4. CASE TempPosition
  BY <1>1, <1>2, <1>4, LaterGoOn DEF TempPosition
<1>5. CASE TempArchivePosition
  BY <1>1, <1>2, <1>5, LaterGoOn DEF TempArchivePosition
<1>6. CASE TempMember
  <2> DEFINE req == Request("archive_position", Temp, script.pos)
  <2>1. /\ script.pc = "temp_member" /\ UNCHANGED <<db, abandoned, late, disturbed>>
        /\ script' = [script EXCEPT !.pc = "temp_archive_position"]
        /\ call' = Sent(req)
    BY <1>6 DEF TempMember, Held
  <2>2. LooksFirst(req)
    BY <1>1
  <2> HIDE DEF req
  <2>3. /\ script'.runs = script.runs /\ script'.complete = script.complete
        /\ script'.pc = "temp_archive_position" /\ script'.ids = script.ids
    BY <2>1, KnownNow DEF Remembers
  <2>4. Credit' = Credit
    BY <2>1, <2>3 DEF Credit, OwnTempIsOpen, TempPcs, Halted
  <2>5. Credit' <= Credit
    BY <2>4, TempNumbers
  <2> QED
    BY <2>1, <2>2, <2>3, <2>5, SendStep
<1> QED
  BY <1>3, <1>4, <1>5, <1>6

\* Nothing is counted at the start, but for the divisions of another origin.
LEMMA CountStart ==
  ASSUME Init
  PROVE  CountInv
<1>1. SeedInv
  BY SeedStart
<1>2. /\ script.pc = "stopped" /\ script.runs = 0 /\ script.complete = 0
      /\ call = Idle /\ abandoned = << >> /\ late = {}
  BY DEF Init, Start0
<1> DEFINE root == [name |-> Root, parent |-> 0, texts |-> "other", archived |-> FALSE]
           other == [name |-> Divisions[1].name, parent |-> 1,
                     texts |-> "other", archived |-> FALSE]
<1>3. db.divisions \in {<< >>, <<root, other>>} /\ db.positions = << >>
  BY DEF Init
<1>4. root.parent # other.parent /\ root.name # Temp /\ other.name # Temp
  BY KeysOfScript, Lists
<1> HIDE DEF root, other
<1>5. \/ DOMAIN db.divisions = {}
      \/ DOMAIN db.divisions = {1, 2} /\ db.divisions[1] = root /\ db.divisions[2] = other
  BY <1>3
<1>6. \A read, create, name, in : ~Creating(call, read, create, name, in)
  BY <1>2 DEF Creating, Idle
<1>7. ASSUME NEW name \in Keys \ {Temp}, NEW in \in Nat
      PROVE  DivisionsCounted(name, in)
  <2>1. \E x : Named(db, name, in) \in SUBSET {x}
    <3>1. CASE in = root.parent
      <4>1. Named(db, name, in) \in SUBSET {1}
        BY <1>4, <1>5, <3>1 DEF Named
      <4> QED
        BY <4>1
    <3>2. CASE in # root.parent
      <4>1. Named(db, name, in) \in SUBSET {2}
        BY <1>4, <1>5, <3>2 DEF Named
      <4> QED
        BY <4>1
    <3> QED
      BY <3>1, <3>2
  <2>2. Cardinality(Named(db, name, in)) <= 1
    <3>1. PICK x : Named(db, name, in) \in SUBSET {x}
      BY <2>1
    <3>2. IsFiniteSet({x}) /\ Cardinality({x}) = 1
      BY FS_Singleton
    <3> QED
      BY <3>1, <3>2, FS_Subset
  <2>3. /\ Cardinality(Named(db, name, in)) \in Nat
        /\ Cardinality(Creates("create_division", name, in) \ late) \in Nat
    BY <1>1, Countable
  <2> QED
    BY <1>6, <2>2, <2>3 DEF DivisionsCounted
<1>8. ASSUME NEW title \in Titles \ {Temp}, NEW in \in Nat
      PROVE  PositionsCounted(title, in)
  <2>1. Titled(db, title, in) = {}
    BY <1>3 DEF Titled
  <2>2. Cardinality(Titled(db, title, in)) = 0
    BY <2>1, FS_EmptySet
  <2>3. Cardinality(Creates("create_position", title, in) \ late) \in Nat
    BY <1>1, Countable
  <2> QED
    BY <1>6, <2>2, <2>3 DEF PositionsCounted
<1>9. TempsAccounted
  <2>1. OpenTemps(db) = {} /\ LateTemps = {}
    BY <1>2, <1>4, <1>5 DEF OpenTemps, LateTemps
  <2>2. Cardinality(OpenTemps(db)) = 0 /\ Cardinality(LateTemps) = 0 /\ Credit = 0
    BY <1>2, <2>1, FS_EmptySet DEF Credit, Halted
  <2> QED
    BY <1>2, <2>2 DEF TempsAccounted
<1>10. ArchivedAtTheEnd
  BY <1>2 DEF ArchivedAtTheEnd
<1> QED
  BY <1>7, <1>8, <1>9, <1>10 DEF CountInv, OneOfEach

\* Every step keeps the count.
LEMMA CountStep ==
  ASSUME SeedInv, CountInv, [Next]_vars
  PROVE  CountInv'
<1>1. CASE UNCHANGED vars
  <2>1. UNCHANGED <<db, script, call, abandoned, late>>
    BY <1>1 DEF vars
  <2>2. \A op, name, in : Creates(op, name, in)' \ late' = Creates(op, name, in) \ late
    BY <2>1 DEF Creates
  <2>3. OneOfEach'
    BY <2>1, <2>2, SameCounts DEF CountInv
  <2>4. TempsAccounted' /\ ArchivedAtTheEnd'
    BY <2>1
       DEF CountInv, TempsAccounted, ArchivedAtTheEnd, Credit, OwnTempIsOpen, LateTemps
  <2> QED
    BY <2>3, <2>4 DEF CountInv
<1>2. CASE Run
  BY <1>2, RunCounts
<1>3. CASE CutOff
  BY <1>3, CutOffCounts, CutOffTemps DEF CountInv
<1>4. CASE Refused
  BY <1>4, RefusedCounts
<1>5. CASE Serve
  BY <1>5, ServeCounts, ServeTemps DEF CountInv
<1>6. CASE ServeLate
  BY <1>6, ServeLateCounts, ServeLateTemps DEF CountInv
<1>7. CASE Bootstrap
  BY <1>7, BootstrapTemps
<1>8. CASE \/ PatchRoot \/ EnsureRole \/ RoleEnsured
           \/ EnsureDivision \/ DivisionEnsured \/ EnsureUser \/ UserEnsured
           \/ EnsurePosition \/ EnsureMembership \/ MembershipEnsured
  BY <1>8, ScriptCounts
<1>9. CASE TempDivision \/ TempPosition \/ TempMember \/ TempArchivePosition
  BY <1>9, TempCounts
<1>10. CASE TempArchive
  BY <1>10, TempArchiveCounts
<1> QED
  BY <1>1, <1>2, <1>3, <1>4, <1>5, <1>6, <1>7, <1>8, <1>9, <1>10 DEF Next

\* Between any two steps every row that is counted is accounted for.
THEOREM CountInvariant == Spec => [](SeedInv /\ CountInv)
<1>1. Init => SeedInv /\ CountInv
  BY SeedStart, CountStart
<1>2. SeedInv /\ CountInv /\ [Next]_vars => SeedInv' /\ CountInv'
  BY SeedStep, CountStep
<1> QED
  BY <1>1, <1>2, PTL DEF Spec

\* Running the script again leaves nothing twice: no rows of one name but those
\* of lost calls (ensureDivision, ensurePosition; demo-seed.ts:560 and 615), and
\* no more open temporary groups than runs that did not complete
\* (createArchiveActivity, demo-seed.ts:638).
THEOREM LeftOnceHolds == Spec => []NothingIsLeftTwice
<1>1. SeedInv /\ CountInv => NothingIsLeftTwice
  <2> SUFFICES ASSUME SeedInv, CountInv PROVE NothingIsLeftTwice
    OBVIOUS
  <2>1. \A op, name, in : /\ Cardinality(Creates(op, name, in)) \in Nat
                          /\ Cardinality(Creates(op, name, in) \ late)
                               <= Cardinality(Creates(op, name, in))
    <3> TAKE op, name, in
    <3>1. IsFiniteSet(Creates(op, name, in))
      BY Countable
    <3>2. Creates(op, name, in) \ late \in SUBSET Creates(op, name, in)
      OBVIOUS
    <3> QED
      BY <3>1, <3>2, FS_Subset, FS_CardinalityType
  <2>2. ASSUME NEW i \in DOMAIN db.divisions, db.divisions[i].name # Temp
        PROVE  Cardinality(Named(db, db.divisions[i].name, db.divisions[i].parent))
                 <= 1 + Cardinality(Creates("create_division", db.divisions[i].name,
                                            db.divisions[i].parent))
    <3> DEFINE name == db.divisions[i].name
               in == db.divisions[i].parent
    <3>1. name \in Keys \ {Temp} /\ in \in Nat
      <4>1. db.divisions \in Seq(Row)
        BY KnownNow DEF TablesInv, Tables
      <4>2. db.divisions[i] \in Row
        BY <4>1, KnownNow, ElementOfSeq
      <4> QED
        BY <2>2, <4>2 DEF Row
    <3> HIDE DEF name, in
    <3>2. DivisionsCounted(name, in)
      BY <3>1 DEF CountInv, OneOfEach
    <3>3. Cardinality(Named(db, name, in)) <= 1 + Cardinality(Creates("create_division", name, in))
      BY <2>1, <3>2, Countable DEF DivisionsCounted
    <3> QED
      BY <3>3 DEF name, in
  <2>3. ASSUME NEW i \in DOMAIN db.positions, db.positions[i].title # Temp
        PROVE  Cardinality(Titled(db, db.positions[i].title, db.positions[i].division))
                 <= 1 + Cardinality(Creates("create_position", db.positions[i].title,
                                            db.positions[i].division))
    <3> DEFINE title == db.positions[i].title
               in == db.positions[i].division
    <3>1. title \in Titles \ {Temp} /\ in \in Nat
      <4>1. db.positions \in Seq(Seat)
        BY KnownNow DEF TablesInv, Tables
      <4>2. db.positions[i] \in Seat
        BY <4>1, KnownNow, ElementOfSeq
      <4> QED
        BY <2>3, <4>2 DEF Seat
    <3> HIDE DEF title, in
    <3>2. PositionsCounted(title, in)
      BY <3>1 DEF CountInv, OneOfEach
    <3>3. Cardinality(Titled(db, title, in))
            <= 1 + Cardinality(Creates("create_position", title, in))
      BY <2>1, <3>2, Countable DEF PositionsCounted
    <3> QED
      BY <3>3 DEF title, in
  <2>4. TwiceOnlyByLostCalls
    BY <2>2, <2>3 DEF TwiceOnlyByLostCalls, Named, Titled
  <2>5. TempsAreClosed
    <3>1. Cardinality(OpenTemps(db)) + Cardinality(LateTemps) + Credit
            <= script.runs - script.complete
      BY DEF CountInv, TempsAccounted
    <3>2. Cardinality(OpenTemps(db)) <= script.runs - script.complete
      BY <3>1, TempNumbers
    <3> QED
      BY <3>2 DEF TempsAreClosed, OpenTemps
  <2> QED
    BY <2>4, <2>5 DEF NothingIsLeftTwice
<1> QED
  BY <1>1, CountInvariant, PTL

=============================================================================
