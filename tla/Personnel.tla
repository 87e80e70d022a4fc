------------------------------ MODULE Personnel ------------------------------
(***************************************************************************)
(* Positions, memberships and the archive cascade of the activist backend. *)
(*                                                                         *)
(* Every HTTP request that changes personnel data is a process.  A request *)
(* first reads outside of any transaction (the handler), then runs a       *)
(* READ COMMITTED transaction statement by statement under                 *)
(* CommandService.ExecuteWithEvent, which adds one event_log row and       *)
(* commits.  The tables hold committed rows only; the rows a transaction   *)
(* has written and not yet committed are in its buffer tx[r], and the row  *)
(* locks it holds are in posLock, divLock and, for memberships, in the     *)
(* delete set of its buffer.  The division tree is fixed in this module;   *)
(* DivisionTree models its changes.                                        *)
(***************************************************************************)
EXTENDS Integers, FiniteSets, Sequences, Hierarchy

CONSTANTS
  Request,         \* requests in flight at the same time (goroutines)
  User,            \* users.id
  Position,        \* positions.id, those that exist and those to be created
  Division,        \* divisions.id
  None,            \* NULL, no lock owner, no argument
  Parent,          \* divisions.parent_id, None for the root
  Limit,           \* positions.max_count, 0 stands for NULL (no limit)
  InitialHome,     \* positions.division_id at the start, None if not created
  InitialMembers,  \* memberships rows at the start
  MaxEvents,       \* bound: event_log rows after which no request starts
  MaxTime          \* bound: times of the clock that are told apart

Operation == {"assign", "remove", "create_position", "archive_position",
              "archive_division"}

Membership == User \X Position

Holders(rows, p) == {u \in User : <<u, p>> \in rows}

WithinLimit(rows, p) == Limit[p] = 0 \/ Cardinality(Holders(rows, p)) <= Limit[p]

ASSUME NoneIsFresh ==
  None \notin Request \cup User \cup Position \cup Division \cup Operation
ASSUME FiniteSorts == IsFiniteSet(User) /\ IsFiniteSet(Position)
ASSUME ParentType == Parent \in [Division -> Division \cup {None}]
ASSUME LimitType == Limit \in [Position -> Nat]
ASSUME InitialHomeType == InitialHome \in [Position -> Division \cup {None}]
ASSUME InitialMembersType ==
  /\ InitialMembers \subseteq Membership
  /\ \A m \in InitialMembers : InitialHome[m[2]] # None
  /\ \A p \in Position : WithinLimit(InitialMembers, p)
ASSUME MaxEventsType == MaxEvents \in Nat
ASSUME MaxTimeType == MaxTime \in Nat \ {0}

\* The recursive query of the archive statements.
Subtree(d) == Descendants(Parent, d)

VARIABLES
  home,         \* positions.division_id, None while the row does not exist
  archivedPos,  \* positions with is_archived
  archivedDiv,  \* divisions with is_archived
  members,      \* rows of memberships
  eventLog,     \* rows of event_log in commit order, which no row records
  posLock,      \* row locks on positions
  divLock,      \* row locks on divisions
  pc,           \* next statement of each request
  arg,          \* what each request was asked to do
  seen,         \* what its statements have read and not yet used
  tx            \* its uncommitted writes

tables == <<home, archivedPos, archivedDiv, members, eventLog>>
locks  == <<posLock, divLock>>
vars   == <<tables, locks, pc, arg, seen, tx>>

Label == {"idle", "lock_position", "count_members", "check_assign",
          "insert_membership", "check_remove", "insert_position",
          "list_subtree", "delete_memberships", "deleting",
          "archiving_positions", "archiving_children",
          "read_clock", "insert_event", "commit"}

Argument == [op   : Operation \cup {None},
             user : User \cup {None},
             pos  : Position \cup {None},
             div  : Division \cup {None}]

\* An event_log entry; at is its timestamp, by which it is listed, removed and
\* archived are the rows its transaction deleted and archived, the counts in
\* the payload of the archive entries.
Event == [op : Operation, user : User \cup {None}, pos : Position \cup {None},
          div : Division \cup {None}, at : Nat, removed : Nat, archived : Nat]

\* count of members, memberships to delete, active positions, divisions, and
\* the time for the entry, 0 before it is read.
Reads == [count : Nat, rows : SUBSET Membership, positions : SUBSET Position,
          divisions : SUBSET Division, at : Nat]

Buffer == [insert : SUBSET Membership, delete : SUBSET Membership,
           create : SUBSET Position, archPos : SUBSET Position,
           archDiv : SUBSET Division, events : Seq(Event)]

NoArgument == [op |-> None, user |-> None, pos |-> None, div |-> None]
NoReads    == [count |-> 0, rows |-> {}, positions |-> {}, divisions |-> {}, at |-> 0]
NoWrites   == [insert |-> {}, delete |-> {}, create |-> {}, archPos |-> {},
               archDiv |-> {}, events |-> <<>>]

TypeOK ==
  /\ home \in [Position -> Division \cup {None}]
  /\ archivedPos \in SUBSET Position
  /\ archivedDiv \in SUBSET Division
  /\ members \in SUBSET Membership
  /\ eventLog \in Seq(Event)
  /\ posLock \in [Position -> Request \cup {None}]
  /\ divLock \in [Division -> Request \cup {None}]
  /\ pc \in [Request -> Label]
  /\ arg \in [Request -> Argument]
  /\ seen \in [Request -> Reads]
  /\ tx \in [Request -> Buffer]

Init ==
  /\ home = InitialHome
  /\ archivedPos = {}
  /\ archivedDiv = {}
  /\ members = InitialMembers
  /\ eventLog = <<>>
  /\ posLock = [p \in Position |-> None]
  /\ divLock = [d \in Division |-> None]
  /\ pc = [r \in Request |-> "idle"]
  /\ arg = [r \in Request |-> NoArgument]
  /\ seen = [r \in Request |-> NoReads]
  /\ tx = [r \in Request |-> NoWrites]

-----------------------------------------------------------------------------
(* State functions and the steps every operation shares.                   *)

InFlight == {r \in Request : pc[r] # "idle"}

Goto(r, label) == pc' = [pc EXCEPT ![r] = label]

Unlocked(lock, x, r) == lock[x] \in {None, r}

\* The handler passed its reads and opens the transaction.
Start(r, a, label) ==
  /\ pc[r] = "idle"
  /\ Len(eventLog) + Cardinality(InFlight) < MaxEvents
  /\ arg' = [arg EXCEPT ![r] = a]
  /\ Goto(r, label)
  /\ UNCHANGED <<tables, locks, seen, tx>>

\* The end of a transaction, committed or not: locks and buffer are gone.
Release(r) ==
  /\ posLock' = [p \in Position |-> IF posLock[p] = r THEN None ELSE posLock[p]]
  /\ divLock' = [d \in Division |-> IF divLock[d] = r THEN None ELSE divLock[d]]
  /\ tx' = [tx EXCEPT ![r] = NoWrites]
  /\ arg' = [arg EXCEPT ![r] = NoArgument]
  /\ Goto(r, "idle")

Rollback(r) ==
  /\ Release(r)
  /\ seen' = [seen EXCEPT ![r] = NoReads]
  /\ UNCHANGED tables

\* A statement, the commit or the connection fails, or the client is gone.
Fail(r) == pc[r] # "idle" /\ Rollback(r)

Times == {0} \cup {seen[o].at : o \in Request} \cup {eventLog[i].at : i \in DOMAIN eventLog}

\* time.Now: of the time only the order matters, so that a reading is the
\* newest time that is kept anywhere, or a later one.
Clock == {t \in 1..MaxTime : (\A s \in Times : s <= t) /\ {t - 1, t} \cap Times # {}}

\* The statement that follows the reading of the clock.
AfterClock(op) ==
  CASE op = "assign" -> "insert_membership"
    [] op = "remove" -> "delete_memberships"
    [] op = "create_position" -> "insert_position"
    [] op \in {"archive_position", "archive_division"} -> "insert_event"

\* Mutant: the archives keep the time of the handler's first check, which
\* may be any earlier one.
ReadClockBefore(r) ==
  /\ pc[r] = "read_clock"
  /\ \E t \in 1..MaxTime :
        /\ t \in Clock \/ arg[r].op \in {"archive_position", "archive_division"}
        /\ seen' = [seen EXCEPT ![r].at = t]
  /\ Goto(r, AfterClock(arg[r].op))
  /\ UNCHANGED <<tables, locks, arg, tx>>

\* The time of the entry is read long before the entry is inserted: by assign
\* and remove between their checks and their writes, by create in the handler,
\* by the archives after the last statement of theirs.
ReadClock(r) ==
  /\ pc[r] = "read_clock"
  /\ \E t \in Clock : seen' = [seen EXCEPT ![r].at = t]
  /\ Goto(r, AfterClock(arg[r].op))
  /\ UNCHANGED <<tables, locks, arg, tx>>

\* Mutant: the payload is built from the buffer before the DELETE ran.
InsertEventWithoutCount(r) ==
  /\ pc[r] = "insert_event"
  /\ LET entry == [op |-> arg[r].op, user |-> arg[r].user, pos |-> arg[r].pos,
                   div |-> arg[r].div, at |-> seen[r].at, removed |-> 0,
                   archived |-> Cardinality(tx[r].archPos)]
     IN  tx' = [tx EXCEPT ![r].events = Append(@, entry)]
  /\ Goto(r, "commit")
  /\ UNCHANGED <<tables, locks, arg, seen>>

\* CommandService inserts the entry the mutation returned.
InsertEvent(r) ==
  /\ pc[r] = "insert_event"
  /\ LET entry == [op |-> arg[r].op, user |-> arg[r].user, pos |-> arg[r].pos,
                   div |-> arg[r].div, at |-> seen[r].at,
                   removed |-> Cardinality(tx[r].delete),
                   archived |-> Cardinality(tx[r].archPos)]
     IN  tx' = [tx EXCEPT ![r].events = Append(@, entry)]
  /\ Goto(r, "commit")
  /\ UNCHANGED <<tables, locks, arg, seen>>

\* COMMIT publishes every buffered row at once.  A row deleted here is dead
\* for the statements of other transactions that had read it and wait for it,
\* even if an equal row is inserted later.
Commit(r) ==
  /\ pc[r] = "commit"
  /\ home' = [p \in Position |->
                IF p \in tx[r].create THEN arg[r].div ELSE home[p]]
  /\ members' = (members \ tx[r].delete) \cup tx[r].insert
  /\ archivedPos' = archivedPos \cup tx[r].archPos
  /\ archivedDiv' = archivedDiv \cup tx[r].archDiv
  /\ eventLog' = eventLog \o tx[r].events
  /\ seen' = [o \in Request |->
                IF o = r THEN NoReads
                ELSE [seen[o] EXCEPT !.rows = @ \ tx[r].delete]]
  /\ Release(r)

-----------------------------------------------------------------------------
(* POST /positions/{id}/memberships: AssignWithCountCheck.                  *)

BeginAssign(r, u, p) ==
  /\ home[p] # None
  /\ Start(r, [op |-> "assign", user |-> u, pos |-> p, div |-> None],
           "lock_position")

\* Mutant: GetPositionByID in place of GetPositionByIDForUpdate.
LockPositionWithoutForUpdate(r) ==
  /\ pc[r] = "lock_position"
  /\ seen' = [seen EXCEPT ![r].positions = {arg[r].pos} \ archivedPos]
  /\ Goto(r, "count_members")
  /\ UNCHANGED <<tables, locks, arg, tx>>

\* SELECT ... FOR UPDATE waits for the row lock, then reads the newest
\* committed row.
LockPosition(r) ==
  LET p == arg[r].pos IN
  /\ pc[r] = "lock_position"
  /\ Unlocked(posLock, p, r)
  /\ posLock' = [posLock EXCEPT ![p] = r]
  /\ seen' = [seen EXCEPT ![r].positions = {p} \ archivedPos]
  /\ Goto(r, "count_members")
  /\ UNCHANGED <<tables, divLock, arg, tx>>

\* Mutant: the count leaves out the user to be assigned, who is not there yet.
CountOtherMembers(r) ==
  /\ pc[r] = "count_members"
  /\ seen' = [seen EXCEPT ![r].count =
                Cardinality(Holders(members, arg[r].pos)) - 1]
  /\ Goto(r, "check_assign")
  /\ UNCHANGED <<tables, locks, arg, tx>>

CountMembers(r) ==
  /\ pc[r] = "count_members"
  /\ seen' = [seen EXCEPT ![r].count = Cardinality(Holders(members, arg[r].pos))]
  /\ Goto(r, "check_assign")
  /\ UNCHANGED <<tables, locks, arg, tx>>

\* Mutant: CanAssign without its is_archived test.
MayAssignArchived(r) ==
  LET p == arg[r].pos IN
  /\ <<arg[r].user, p>> \notin members
  /\ Limit[p] = 0 \/ seen[r].count < Limit[p]

\* MembershipExists, then the decision of appmembership.Assign on what the
\* statements of this transaction have returned.
MayAssign(r) ==
  LET p == arg[r].pos IN
  /\ <<arg[r].user, p>> \notin members
  /\ p \in seen[r].positions
  /\ Limit[p] = 0 \/ seen[r].count < Limit[p]

CheckAssign(r) ==
  /\ pc[r] = "check_assign"
  /\ MayAssign(r)
  /\ Goto(r, "read_clock")
  /\ UNCHANGED <<tables, locks, arg, seen, tx>>

RefuseAssign(r) == pc[r] = "check_assign" /\ ~MayAssign(r) /\ Rollback(r)

\* The primary key makes the insert wait for whoever has an uncommitted row
\* with the same key, and fail if that row is there.
KeyIsBusy(r, m) ==
  \E o \in Request \ {r} : m \in tx[o].insert \cup tx[o].delete

InsertMembership(r) ==
  LET m == <<arg[r].user, arg[r].pos>> IN
  /\ pc[r] = "insert_membership"
  /\ ~KeyIsBusy(r, m)
  /\ m \notin members
  /\ tx' = [tx EXCEPT ![r].insert = @ \cup {m}]
  /\ Goto(r, "insert_event")
  /\ UNCHANGED <<tables, locks, arg, seen>>

-----------------------------------------------------------------------------
(* The DELETE statements on memberships, shared by three operations.        *)

DeleteTargets(a) ==
  {m \in members :
     \/ a.op = "remove" /\ m = <<a.user, a.pos>>
     \/ a.op = "archive_position" /\ m[2] = a.pos
     \/ a.op = "archive_division" /\ home[m[2]] \in Subtree(a.div)}

\* The statement's snapshot: rows inserted and not committed are missed.
DeleteMemberships(r) ==
  /\ pc[r] = "delete_memberships"
  /\ seen' = [seen EXCEPT ![r].rows = DeleteTargets(arg[r])]
  /\ Goto(r, "deleting")
  /\ UNCHANGED <<tables, locks, arg, tx>>

\* Mutant: the DELETE runs on the pool and not in the transaction.
DeleteRowOutsideTx(r, m) ==
  /\ pc[r] = "deleting"
  /\ m \in seen[r].rows
  /\ \A o \in Request \ {r} : m \notin tx[o].delete
  /\ members' = members \ {m}
  /\ seen' = [seen EXCEPT ![r].rows = @ \ {m}]
  /\ UNCHANGED <<home, archivedPos, archivedDiv, eventLog, locks, pc, arg, tx>>

\* One row at a time, waiting for a concurrent delete of it to finish.  If
\* that one commits, Commit has taken the row out of seen[r].rows.
DeleteRow(r, m) ==
  /\ pc[r] = "deleting"
  /\ m \in seen[r].rows
  /\ \A o \in Request \ {r} : m \notin tx[o].delete
  /\ tx' = [tx EXCEPT ![r].delete = @ \cup {m}]
  /\ seen' = [seen EXCEPT ![r].rows = @ \ {m}]
  /\ UNCHANGED <<tables, locks, pc, arg>>

Deleted(r, op) == pc[r] = "deleting" /\ seen[r].rows = {} /\ arg[r].op = op

-----------------------------------------------------------------------------
(* DELETE /positions/{id}/memberships/{user}: RemoveWithTx.                 *)

BeginRemove(r, u, p) ==
  /\ home[p] # None
  /\ Start(r, [op |-> "remove", user |-> u, pos |-> p, div |-> None],
           "check_remove")

\* MembershipExists and appmembership.Remove: ErrNotFound if it does not.
CheckRemove(r) ==
  /\ pc[r] = "check_remove"
  /\ <<arg[r].user, arg[r].pos>> \in members
  /\ Goto(r, "read_clock")
  /\ UNCHANGED <<tables, locks, arg, seen, tx>>

RefuseRemove(r) ==
  /\ pc[r] = "check_remove"
  /\ <<arg[r].user, arg[r].pos>> \notin members
  /\ Rollback(r)

\* DeleteMembership is :exec, the number of deleted rows is not looked at.
FinishRemove(r) ==
  /\ Deleted(r, "remove")
  /\ Goto(r, "insert_event")
  /\ UNCHANGED <<tables, locks, arg, seen, tx>>

-----------------------------------------------------------------------------
(* POST /divisions/{id}/positions: Create.  The division is read by the     *)
(* handler, the row is inserted later, in the transaction, with a fresh id. *)

BeginCreatePosition(r, p, d) ==
  /\ home[p] = None
  /\ \A o \in Request : arg[o].pos # p
  /\ d \notin archivedDiv
  /\ Start(r, [op |-> "create_position", user |-> None, pos |-> p, div |-> d],
           "read_clock")

InsertPosition(r) ==
  /\ pc[r] = "insert_position"
  /\ tx' = [tx EXCEPT ![r].create = {arg[r].pos}]
  /\ Goto(r, "insert_event")
  /\ UNCHANGED <<tables, locks, arg, seen>>

-----------------------------------------------------------------------------
(* POST /positions/{id}/archive: ArchiveWithTx.  The handler refuses an     *)
(* archived position; the transaction works with that answer to the end.    *)

BeginArchivePosition(r, p) ==
  /\ home[p] # None
  /\ p \notin archivedPos
  /\ Start(r, [op |-> "archive_position", user |-> None, pos |-> p,
               div |-> None], "delete_memberships")

\* UPDATE ... WHERE id = $1 waits for the row, whatever its is_archived is.
ArchivePosition(r) ==
  LET p == arg[r].pos IN
  /\ Deleted(r, "archive_position")
  /\ Unlocked(posLock, p, r)
  /\ posLock' = [posLock EXCEPT ![p] = r]
  /\ tx' = [tx EXCEPT ![r].archPos = {p}]
  /\ Goto(r, "read_clock")
  /\ UNCHANGED <<tables, divLock, arg, seen>>

-----------------------------------------------------------------------------
(* POST /divisions/{id}/archive: ArchiveCascadeWithTx.                      *)

BeginArchiveDivision(r, d) ==
  /\ d \notin archivedDiv
  /\ Start(r, [op |-> "archive_division", user |-> None, pos |-> None,
               div |-> d], "list_subtree")

ListSubtree(r) ==
  /\ pc[r] = "list_subtree"
  /\ arg[r].div \notin archivedDiv
  /\ Goto(r, "delete_memberships")
  /\ UNCHANGED <<tables, locks, arg, seen, tx>>

\* The division was archived meanwhile: errDivisionArchiveNoop, 200.
ArchiveNoop(r) ==
  /\ \/ pc[r] = "list_subtree"
     \/ pc[r] = "archiving_children" /\ seen[r].divisions = {}
  /\ arg[r].div \in archivedDiv
  /\ Rollback(r)

ScanPositions(r) ==
  /\ Deleted(r, "archive_division")
  /\ seen' = [seen EXCEPT ![r].positions =
                {p \in Position \ archivedPos : home[p] \in Subtree(arg[r].div)}]
  /\ Goto(r, "archiving_positions")
  /\ UNCHANGED <<tables, locks, arg, tx>>

\* Having waited for the row, the UPDATE checks is_archived = false again.
ArchiveScannedPosition(r, p) ==
  /\ pc[r] = "archiving_positions"
  /\ p \in seen[r].positions
  /\ Unlocked(posLock, p, r)
  /\ posLock' = [posLock EXCEPT ![p] = r]
  /\ tx' = [tx EXCEPT ![r].archPos = @ \cup ({p} \ archivedPos)]
  /\ seen' = [seen EXCEPT ![r].positions = @ \ {p}]
  /\ UNCHANGED <<tables, divLock, pc, arg>>

ScanChildren(r) ==
  /\ pc[r] = "archiving_positions"
  /\ seen[r].positions = {}
  /\ seen' = [seen EXCEPT ![r].divisions =
                Subtree(arg[r].div) \ (archivedDiv \cup {arg[r].div})]
  /\ Goto(r, "archiving_children")
  /\ UNCHANGED <<tables, locks, arg, tx>>

ArchiveScannedChild(r, d) ==
  /\ pc[r] = "archiving_children"
  /\ d \in seen[r].divisions
  /\ Unlocked(divLock, d, r)
  /\ divLock' = [divLock EXCEPT ![d] = r]
  /\ tx' = [tx EXCEPT ![r].archDiv = @ \cup ({d} \ archivedDiv)]
  /\ seen' = [seen EXCEPT ![r].divisions = @ \ {d}]
  /\ UNCHANGED <<tables, posLock, pc, arg>>

\* Mutant: ArchiveDivisionByID without "AND is_archived = false".
ArchiveRootAgain(r) ==
  LET d == arg[r].div IN
  /\ pc[r] = "archiving_children"
  /\ seen[r].divisions = {}
  /\ Unlocked(divLock, d, r)
  /\ divLock' = [divLock EXCEPT ![d] = r]
  /\ tx' = [tx EXCEPT ![r].archDiv = @ \cup {d}]
  /\ Goto(r, "read_clock")
  /\ UNCHANGED <<tables, posLock, arg, seen>>

ArchiveRoot(r) ==
  LET d == arg[r].div IN
  /\ pc[r] = "archiving_children"
  /\ seen[r].divisions = {}
  /\ Unlocked(divLock, d, r)
  /\ d \notin archivedDiv
  /\ divLock' = [divLock EXCEPT ![d] = r]
  /\ tx' = [tx EXCEPT ![r].archDiv = @ \cup {d}]
  /\ Goto(r, "read_clock")
  /\ UNCHANGED <<tables, posLock, arg, seen>>

-----------------------------------------------------------------------------

Begin(r) ==
  \/ \E u \in User, p \in Position : BeginAssign(r, u, p) \/ BeginRemove(r, u, p)
  \/ \E p \in Position, d \in Division : BeginCreatePosition(r, p, d)
  \/ \E p \in Position : BeginArchivePosition(r, p)
  \/ \E d \in Division : BeginArchiveDivision(r, d)

AssignStep(r) ==
  LockPosition(r) \/ CountMembers(r) \/ CheckAssign(r) \/ RefuseAssign(r)
    \/ InsertMembership(r)

RemoveStep(r) == CheckRemove(r) \/ RefuseRemove(r) \/ FinishRemove(r)

DeleteStep(r) ==
  DeleteMemberships(r) \/ \E m \in Membership : DeleteRow(r, m)

CascadeStep(r) ==
  \/ ListSubtree(r) \/ ArchiveNoop(r) \/ ScanPositions(r) \/ ScanChildren(r)
  \/ \E p \in Position : ArchiveScannedPosition(r, p)
  \/ \E d \in Division : ArchiveScannedChild(r, d)
  \/ ArchiveRoot(r)

Step(r) ==
  \/ AssignStep(r) \/ RemoveStep(r) \/ DeleteStep(r) \/ InsertPosition(r)
  \/ ArchivePosition(r) \/ CascadeStep(r) \/ ReadClock(r) \/ InsertEvent(r) \/ Commit(r)

\* No request is in flight and none arrives.
Quiet == InFlight = {} /\ UNCHANGED vars

Next == (\E r \in Request : Begin(r) \/ Step(r) \/ Fail(r)) \/ Quiet

Spec == Init /\ [][Next]_vars

-----------------------------------------------------------------------------
(* Properties.                                                              *)

\* Assignments that check max_count under the position's row lock can never
\* together exceed it, whatever other requests do to the same position.
MaxCountRespected == \A p \in Position : WithinLimit(members, p)

\* What an event says of the membership <<u, p>>.
Concerns(e, u, p) ==
  \/ e.op \in {"assign", "remove"} /\ e.user = u /\ e.pos = p
  \/ e.op = "archive_position" /\ e.pos = p
  \/ e.op = "archive_division" /\ home[p] \in Subtree(e.div)

\* The entries of <<u, p>> of one operation, and how often it was given: the
\* rows there at the start have no entry.
Entries(op, u, p) ==
  {i \in DOMAIN eventLog : eventLog[i].op = op /\ Concerns(eventLog[i], u, p)}

Given(u, p) ==
  Cardinality(Entries("assign", u, p)) + (IF <<u, p>> \in InitialMembers THEN 1 ELSE 0)

\* The archives an assignment does not come after.  The timestamp of an archive
\* is never earlier than the assignments it undoes; that of a removal may be,
\* since it is read before a DELETE that may find the row of a later one.
ArchivesSince(i, u, p) ==
  {j \in Entries("archive_position", u, p) \cup Entries("archive_division", u, p) :
     eventLog[j].at >= eventLog[i].at}

\* The log never overstates: a user who was assigned, and given a position
\* more often than it was taken away again, holds it, unless an archive is
\* listed after every assignment.  No removal is committed without its entry.
LoggedHoldersHold ==
  \A u \in User, p \in Position, i \in DOMAIN eventLog :
     /\ i \in Entries("assign", u, p) /\ ArchivesSince(i, u, p) = {}
     /\ Cardinality(Entries("remove", u, p)) < Given(u, p)
     => <<u, p>> \in members

\* Concurrent archive requests for a division leave a single entry: the
\* second one finds the division archived under its row lock and rolls back.
\* (A PATCH of the division at the same time can revive it: DivisionTree.)
DivisionArchivedOnce ==
  \A i, j \in DOMAIN eventLog :
     /\ eventLog[i].op = "archive_division" /\ eventLog[j].op = "archive_division"
     /\ eventLog[i].div = eventLog[j].div
     => i = j

\* Committed personnel changes are those of the sequential seat store: an
\* assignment commits only to an unarchived position with a free seat, nothing
\* else adds a member, and no commit reopens a position.
Seats == INSTANCE PositionSeats WITH archived <- archivedPos
SeatsSpec == Seats!Spec

Removed  == Cardinality(members \ members')
Archived == Cardinality(archivedPos' \ archivedPos)

\* A commit that takes memberships away or archives positions logs exactly one
\* entry, and the counts of its payload (removed_memberships_count, and for a
\* division archived_positions_count) are what the commit really changed,
\* although they were counted statement by statement before it.
CountsAreExact ==
  [][ members' # members \/ archivedPos' # archivedPos =>
        LET e == eventLog'[Len(eventLog')] IN
        /\ Len(eventLog') = Len(eventLog) + 1
        /\ e.removed = Removed
        /\ e.op = "archive_division" => e.archived = Archived
    ]_<<members, archivedPos>>

-----------------------------------------------------------------------------
(* What the documents promise and interleavings break.                      *)

\* docs/RDP.md 7.4: archiving a position takes all its memberships away.  An
\* assignment that holds the row lock while the archive request's DELETE runs
\* commits a row the DELETE did not see.
ArchivedPositionIsVacant == \A p \in archivedPos : Holders(members, p) = {}

=============================================================================
