----------------------------- MODULE DivisionTree -----------------------------
(***************************************************************************)
(* The division tree of the activist backend: creating, editing, moving    *)
(* and archiving divisions.                                                *)
(*                                                                         *)
(* POST and PATCH read the rows they decide on in statements of their own, *)
(* outside of any transaction, and end with one statement that writes a    *)
(* whole row; neither adds an event_log entry.  Archiving runs the cascade *)
(* in a transaction under CommandService.  Its positions and memberships   *)
(* are in Personnel; here are its statements on divisions.                 *)
(***************************************************************************)
EXTENDS Integers, FiniteSets, Sequences, Hierarchy

CONSTANTS
  Request,        \* requests in flight at the same time (goroutines)
  Division,       \* divisions.id, those that exist and those to be created
  None,           \* no lock owner, no argument, a PATCH without parent_id
  Absent,         \* parent of a division whose row does not exist
  Top,            \* parent_id NULL, the root's
  InitialParent,  \* divisions.parent_id at the start
  Operations,     \* the operations the clients use
  OneAtATime,     \* only archives overlap, and only each other
  MaxEvents       \* bound: event_log rows after which no archive starts

ASSUME SpecialValues ==
  /\ Cardinality({None, Absent, Top}) = 3
  /\ {None, Absent, Top} \cap (Division \cup Request) = {}
ASSUME InitialParentType ==
  /\ InitialParent \in [Division -> Division \cup {Absent, Top}]
  /\ \A d \in Division :
        InitialParent[d] # Absent => Rooted(InitialParent, d, Top)
  /\ \A d, e \in Division : InitialParent[d] = Top /\ InitialParent[e] = Top => d = e
ASSUME OperationsType == Operations \subseteq {"create", "patch", "archive"}
ASSUME OneAtATimeType == OneAtATime \in BOOLEAN
ASSUME MaxEventsType == MaxEvents \in Nat

VARIABLES
  parent,    \* divisions.parent_id, Absent while the row does not exist
  archived,  \* divisions with is_archived
  eventLog,  \* the divisions named by division_archived entries, in commit order
  divLock,   \* row locks of open transactions
  pc,        \* next statement of each request
  arg,       \* what each request was asked to do
  seen,      \* what its statements have read and not yet used
  tx         \* divisions its open transaction has archived

tables == <<parent, archived, eventLog>>
vars   == <<tables, divLock, pc, arg, seen, tx>>

Label == {"idle", "insert_division", "read_parent", "read_ancestors",
          "update_division", "list_subtree", "scan_children",
          "archiving_children", "commit"}

\* parent: of the division as read; open: what was read was not archived, the
\* division and then the new parent; children: those yet to be archived.
Reads == [parent : Division \cup {Absent, Top}, open : BOOLEAN,
          children : SUBSET Division]

NoArgument == [div |-> None, to |-> None]
NoReads    == [parent |-> Absent, open |-> FALSE, children |-> {}]

TypeOK ==
  /\ parent \in [Division -> Division \cup {Absent, Top}]
  /\ archived \in SUBSET Division
  /\ eventLog \in Seq(Division)
  /\ divLock \in [Division -> Request \cup {None}]
  /\ pc \in [Request -> Label]
  /\ arg \in [Request -> [div : Division \cup {None},
                          to : Division \cup {Top, None}]]
  /\ seen \in [Request -> Reads]
  /\ tx \in [Request -> SUBSET Division]

Init ==
  /\ parent = InitialParent
  /\ archived = {}
  /\ eventLog = <<>>
  /\ divLock = [d \in Division |-> None]
  /\ pc = [r \in Request |-> "idle"]
  /\ arg = [r \in Request |-> NoArgument]
  /\ seen = [r \in Request |-> NoReads]
  /\ tx = [r \in Request |-> {}]

-----------------------------------------------------------------------------
(* State functions and the steps every operation shares.                   *)

InFlight == {r \in Request : pc[r] # "idle"}
Rows  == {d \in Division : parent[d] # Absent}
Roots == {d \in Division : parent[d] = Top}

Goto(r, label) == pc' = [pc EXCEPT ![r] = label]

Unlocked(d, r) == divLock[d] \in {None, r}

Archiving == {"list_subtree", "scan_children", "archiving_children", "commit"}

Start(r, op, d, to, label) ==
  /\ pc[r] = "idle"
  /\ op \in Operations
  /\ OneAtATime => \A o \in InFlight : op = "archive" /\ pc[o] \in Archiving
  /\ arg' = [arg EXCEPT ![r] = [div |-> d, to |-> to]]
  /\ Goto(r, label)
  /\ UNCHANGED <<tables, divLock, tx>>

\* The answer is sent: locks, reads and an uncommitted buffer are gone.
Finish(r) ==
  /\ divLock' = [d \in Division |-> IF divLock[d] = r THEN None ELSE divLock[d]]
  /\ arg' = [arg EXCEPT ![r] = NoArgument]
  /\ seen' = [seen EXCEPT ![r] = NoReads]
  /\ tx' = [tx EXCEPT ![r] = {}]
  /\ Goto(r, "idle")

Refuse(r) == Finish(r) /\ UNCHANGED tables

\* A statement or the connection fails, or the client is gone.
Fail(r) == pc[r] # "idle" /\ Refuse(r)

-----------------------------------------------------------------------------
(* POST /divisions: Create.                                                 *)

\* The handler reads the parent, which ValidateCreateChild wants unarchived.
BeginCreate(r, d, p) ==
  /\ d \notin Rows
  /\ \A o \in Request : arg[o].div # d
  /\ p \in Rows \ archived
  /\ Start(r, "create", d, p, "insert_division")
  /\ UNCHANGED seen

\* Without parent_id it looks for a root (ValidateCreateRoot).
BeginCreateRoot(r, d) ==
  /\ d \notin Rows
  /\ \A o \in Request : arg[o].div # d
  /\ Roots = {}
  /\ Start(r, "create", d, Top, "insert_division")
  /\ UNCHANGED seen

\* Mutant: the migration without the index.
InsertWithoutIndex(r) ==
  /\ pc[r] = "insert_division"
  /\ parent' = [parent EXCEPT ![arg[r].div] = arg[r].to]
  /\ UNCHANGED <<archived, eventLog>>
  /\ Finish(r)

\* The index divisions_single_root_uq admits one row without a parent.
InsertDivision(r) ==
  /\ pc[r] = "insert_division"
  /\ arg[r].to = Top => Roots = {}
  /\ parent' = [parent EXCEPT ![arg[r].div] = arg[r].to]
  /\ UNCHANGED <<archived, eventLog>>
  /\ Finish(r)

SecondRoot(r) ==
  /\ pc[r] = "insert_division"
  /\ arg[r].to = Top /\ Roots # {}
  /\ Refuse(r)

-----------------------------------------------------------------------------
(* PATCH /divisions/{id}: Edit, one statement per read.                     *)

\* Mutant: Edit does not look at is_archived.
BeginPatchOfArchived(r, d, to) ==
  /\ d \in Rows
  /\ to = None \/ to \in Rows
  /\ Start(r, "patch", d, to,
           IF to = None THEN "update_division" ELSE "read_parent")
  /\ seen' = [seen EXCEPT ![r].parent = parent[d], ![r].open = TRUE]

\* The row as read.  Without parent_id, Edit refuses an archived one at once.
BeginPatch(r, d, to) ==
  /\ d \in Rows
  /\ IF to = None THEN d \notin archived ELSE to \in Rows
  /\ Start(r, "patch", d, to,
           IF to = None THEN "update_division" ELSE "read_parent")
  /\ seen' = [seen EXCEPT ![r].parent = parent[d], ![r].open = d \notin archived]

ReadParent(r) ==
  /\ pc[r] = "read_parent"
  /\ seen' = [seen EXCEPT ![r].open = @ /\ arg[r].to \notin archived]
  /\ Goto(r, "read_ancestors")
  /\ UNCHANGED <<tables, divLock, arg, tx>>

\* Mutant: ValidateMove compares the ids and skips the ancestors.
MayMoveBelowItself(r) == arg[r].div # arg[r].to /\ seen[r].open

\* Edit and ValidateMove, on the rows as read and the ancestors of now.
MayMove(r) ==
  /\ arg[r].div # arg[r].to
  /\ arg[r].div \notin Ancestors(parent, arg[r].to)
  /\ seen[r].open

\* The query for the ancestors returns if their chain ends at the root.
ReadAncestors(r) ==
  /\ pc[r] = "read_ancestors"
  /\ Rooted(parent, arg[r].to, Top)
  /\ MayMove(r)
  /\ Goto(r, "update_division")
  /\ UNCHANGED <<tables, divLock, arg, seen, tx>>

RefuseMove(r) ==
  /\ pc[r] = "read_ancestors"
  /\ Rooted(parent, arg[r].to, Top)
  /\ ~MayMove(r)
  /\ Refuse(r)

\* Mutant: the row is built from the request and not from the row as read.
UpdateFromRequest(r) ==
  /\ pc[r] = "update_division"
  /\ Unlocked(arg[r].div, r)
  /\ parent' = [parent EXCEPT ![arg[r].div] = arg[r].to]
  /\ archived' = archived \ {arg[r].div}
  /\ UNCHANGED eventLog
  /\ Finish(r)

\* UPDATE writes every column: parent_id and is_archived as they were read,
\* unless the request names a new parent.
UpdateDivision(r) ==
  LET d  == arg[r].div
      to == arg[r].to
  IN
  /\ pc[r] = "update_division"
  /\ Unlocked(d, r)
  /\ parent' = [parent EXCEPT ![d] = IF to = None THEN seen[r].parent ELSE to]
  /\ archived' = archived \ {d}
  /\ UNCHANGED eventLog
  /\ Finish(r)

-----------------------------------------------------------------------------
(* POST /divisions/{id}/archive: ArchiveCascadeWithTx.                      *)

BeginArchive(r, d) ==
  /\ d \in Rows \ archived
  /\ Len(eventLog) + Cardinality(InFlight) < MaxEvents
  /\ Start(r, "archive", d, None, "list_subtree")
  /\ UNCHANGED seen

\* The queries for the subtree return if the division is not below itself.
SubtreeEnds(d) == d \notin Ancestors(parent, d)

ListSubtree(r) ==
  /\ pc[r] = "list_subtree"
  /\ SubtreeEnds(arg[r].div)
  /\ arg[r].div \notin archived
  /\ Goto(r, "scan_children")
  /\ UNCHANGED <<tables, divLock, arg, seen, tx>>

\* Mutant: only the children of the division, not what is below them.
ScanDirectChildren(r) ==
  /\ pc[r] = "scan_children"
  /\ seen' = [seen EXCEPT ![r].children =
                {x \in Division : parent[x] = arg[r].div} \ archived]
  /\ Goto(r, "archiving_children")
  /\ UNCHANGED <<tables, divLock, arg, tx>>

\* The snapshot of ArchiveChildDivisionsByRoot.
ScanChildren(r) ==
  /\ pc[r] = "scan_children"
  /\ SubtreeEnds(arg[r].div)
  /\ seen' = [seen EXCEPT ![r].children =
                Descendants(parent, arg[r].div) \ (archived \cup {arg[r].div})]
  /\ Goto(r, "archiving_children")
  /\ UNCHANGED <<tables, divLock, arg, tx>>

\* One row at a time.  Having waited for a row, the UPDATE looks at its
\* is_archived again, not at its place in the tree.
ArchiveChild(r, d) ==
  /\ pc[r] = "archiving_children"
  /\ d \in seen[r].children
  /\ Unlocked(d, r)
  /\ divLock' = [divLock EXCEPT ![d] = r]
  /\ tx' = [tx EXCEPT ![r] = @ \cup ({d} \ archived)]
  /\ seen' = [seen EXCEPT ![r].children = @ \ {d}]
  /\ UNCHANGED <<tables, pc, arg>>

\* Mutant: ArchiveDivisionByID without "AND is_archived = false".
ArchiveRootAgain(r) ==
  /\ pc[r] = "archiving_children"
  /\ seen[r].children = {}
  /\ Unlocked(arg[r].div, r)
  /\ divLock' = [divLock EXCEPT ![arg[r].div] = r]
  /\ tx' = [tx EXCEPT ![r] = (@ \cup {arg[r].div}) \ archived]
  /\ Goto(r, "commit")
  /\ UNCHANGED <<tables, arg, seen>>

ArchiveRoot(r) ==
  LET d == arg[r].div IN
  /\ pc[r] = "archiving_children"
  /\ seen[r].children = {}
  /\ Unlocked(d, r)
  /\ d \notin archived
  /\ divLock' = [divLock EXCEPT ![d] = r]
  /\ tx' = [tx EXCEPT ![r] = @ \cup {d}]
  /\ Goto(r, "commit")
  /\ UNCHANGED <<tables, arg, seen>>

\* Archived by another request meanwhile: errDivisionArchiveNoop, rolled back.
ArchiveNoop(r) ==
  /\ \/ pc[r] = "list_subtree" /\ SubtreeEnds(arg[r].div)
     \/ /\ pc[r] = "archiving_children" /\ seen[r].children = {}
        /\ Unlocked(arg[r].div, r)
  /\ arg[r].div \in archived
  /\ Refuse(r)

Commit(r) ==
  /\ pc[r] = "commit"
  /\ archived' = archived \cup tx[r]
  /\ eventLog' = Append(eventLog, arg[r].div)
  /\ UNCHANGED parent
  /\ Finish(r)

-----------------------------------------------------------------------------
(* PostgreSQL aborts one of the transactions that wait for each other.      *)

\* The row the next statement of r waits for belongs to o.
WaitsFor(r, o) ==
  \/ pc[r] = "update_division" /\ divLock[arg[r].div] = o
  \/ /\ pc[r] = "archiving_children"
     /\ \E d \in IF seen[r].children = {} THEN {arg[r].div} ELSE seen[r].children :
          divLock[d] = o

Deadlocked(r) ==
  \E S \in SUBSET Request :
     r \in S /\ \A q \in S : \E o \in S \ {q} : WaitsFor(q, o)

AbortVictim(r) == Deadlocked(r) /\ Fail(r)

-----------------------------------------------------------------------------

Begin(r) ==
  \/ \E d, p \in Division : BeginCreate(r, d, p)
  \/ \E d \in Division : BeginCreateRoot(r, d) \/ BeginArchive(r, d)
  \/ \E d \in Division, to \in Division \cup {None} : BeginPatch(r, d, to)

Step(r) ==
  \/ InsertDivision(r) \/ SecondRoot(r)
  \/ ReadParent(r) \/ ReadAncestors(r) \/ RefuseMove(r) \/ UpdateDivision(r)
  \/ ListSubtree(r) \/ ScanChildren(r) \/ \E d \in Division : ArchiveChild(r, d)
  \/ ArchiveRoot(r) \/ ArchiveNoop(r) \/ Commit(r)

\* No request is in flight and none arrives.
Quiet == InFlight = {} /\ UNCHANGED vars

Next == (\E r \in Request : Begin(r) \/ Step(r) \/ Fail(r)) \/ Quiet

Spec == Init /\ [][Next]_vars

\* A goroutine keeps running its handler, row locks are granted in the order
\* they were asked for (hence SF), and the deadlock detector does its work.
Fairness == \A r \in Request : SF_vars(Step(r)) /\ WF_vars(AbortVictim(r))

FairSpec == Spec /\ Fairness

-----------------------------------------------------------------------------
(* Properties.                                                              *)

\* Once there are divisions there is exactly one root: two first divisions
\* created at once do not both get in, and no move, however stale its reads,
\* puts the root below another division.
OneRoot == Rows # {} => Cardinality(Roots) = 1

\* Divisions turn archived in commits with exactly one entry, which names a
\* division this commit archived: a cascade that finds its division archived
\* under the row lock leaves no trace.
ArchivalIsLogged ==
  [][ \/ archived' \subseteq archived /\ eventLog' = eventLog
      \/ \E d \in archived' \ archived : eventLog' = Append(eventLog, d)
    ]_<<archived, eventLog>>

\* No division is its own ancestor.
Acyclic == \A d \in Rows : d \notin Ancestors(parent, d)

\* An archived division has no active child.
ArchivedAreClosed ==
  \A d \in Rows \ archived : parent[d] \notin archived

\* Nothing brings an archived division back.
ArchiveIsFinal == [][archived \subseteq archived']_archived

\* Every request is answered.
RequestsEnd == \A r \in Request : pc[r] # "idle" ~> pc[r] = "idle"

=============================================================================
