--------------------------- MODULE Personnel_proofs ---------------------------
(***************************************************************************)
(* Proofs about Personnel for every number of requests, users, positions,  *)
(* divisions and every max_count.                                          *)
(***************************************************************************)
EXTENDS Personnel, FiniteSetTheorems, SequenceTheorems, TLAPS

-----------------------------------------------------------------------------
(* Which operation a request at a given statement is running.              *)

AssignLabel == {"lock_position", "count_members", "check_assign",
                "insert_membership"}

Control(r) ==
  /\ pc[r] \in AssignLabel =>
       /\ arg[r].op = "assign"
       /\ tx[r] = NoWrites
  /\ arg[r].op = "assign" => arg[r].user \in User /\ arg[r].pos \in Position
  /\ pc[r] = "read_clock" =>
       /\ arg[r].op = "assign" => tx[r] = NoWrites
       /\ arg[r].op = "create_position" => arg[r].pos \in Position
  /\ pc[r] = "idle" => tx[r] = NoWrites
  /\ pc[r] # "idle" => arg[r].op \in Operation
  /\ pc[r] = "check_remove" => arg[r].op = "remove"
  /\ pc[r] = "insert_position" =>
       arg[r].op = "create_position" /\ arg[r].pos \in Position
  /\ pc[r] \in {"delete_memberships", "deleting"} =>
       /\ arg[r].op \in {"remove", "archive_position", "archive_division"}
       /\ arg[r].op = "archive_position" => arg[r].pos \in Position
  /\ pc[r] \in {"list_subtree", "archiving_positions", "archiving_children"} =>
       arg[r].op = "archive_division"
  /\ arg[r].op = "archive_division" => arg[r].div \in Division

ControlInv == \A r \in Request : Control(r)

TypeInv == TypeOK /\ ControlInv

\* The initial state is well-typed and no request runs.
LEMMA InitTypeInv == Init => TypeInv
<1> SUFFICES ASSUME Init PROVE TypeInv
  OBVIOUS
<1> USE InitialHomeType, InitialMembersType, NoneIsFresh DEF Init
<1>1. TypeOK
  <2>1. <<>> \in Seq(Event)
    OBVIOUS
  <2>2. NoArgument \in Argument
    BY DEF NoArgument, Argument
  <2>3. NoReads \in Reads
    BY DEF NoReads, Reads
  <2>4. NoWrites \in Buffer
    BY DEF NoWrites, Buffer
  <2>. QED
    BY <2>1, <2>2, <2>3, <2>4 DEF TypeOK, Label
<1>2. ControlInv
  BY DEF ControlInv, Control, AssignLabel, NoArgument, Operation
<1>. QED
  BY <1>1, <1>2 DEF TypeInv


\* What a request starts with.
LEMMA StartTypes ==
  ASSUME TypeInv, NEW r \in Request, NEW a \in Argument, NEW label \in Label,
         Start(r, a, label),
         \/ a.op = "assign" /\ label = "lock_position"
              /\ a.user \in User /\ a.pos \in Position
         \/ a.op = "remove" /\ label = "check_remove"
         \/ a.op = "create_position" /\ label = "read_clock"
              /\ a.pos \in Position
         \/ a.op = "archive_position" /\ label = "delete_memberships"
              /\ a.pos \in Position
         \/ a.op = "archive_division" /\ label = "list_subtree"
              /\ a.div \in Division
  PROVE  TypeInv'
<1>1. TypeOK'
  BY DEF TypeInv, TypeOK, Start, Goto, tables, locks
<1>2. ASSUME NEW o \in Request PROVE Control(o)'
  BY DEF TypeInv, TypeOK, ControlInv, Control, Start, Goto, tables, locks,
         AssignLabel, Operation
<1>. QED
  BY <1>1, <1>2 DEF TypeInv, ControlInv

\* The handlers start a request at the first statement of its operation.
LEMMA BeginTypes ==
  ASSUME TypeInv, NEW r \in Request, Begin(r)
  PROVE  TypeInv'
<1>1. ASSUME NEW u \in User, NEW p \in Position, BeginAssign(r, u, p)
      PROVE  TypeInv'
  <2> DEFINE a == [op |-> "assign", user |-> u, pos |-> p, div |-> None]
  <2>1. a \in Argument
    BY DEF Argument, Operation
  <2>. QED
    BY <1>1, <2>1, StartTypes DEF BeginAssign, Label
<1>2. ASSUME NEW u \in User, NEW p \in Position, BeginRemove(r, u, p)
      PROVE  TypeInv'
  <2> DEFINE a == [op |-> "remove", user |-> u, pos |-> p, div |-> None]
  <2>1. a \in Argument
    BY DEF Argument, Operation
  <2>. QED
    BY <1>2, <2>1, StartTypes DEF BeginRemove, Label
<1>3. ASSUME NEW p \in Position, NEW d \in Division,
             BeginCreatePosition(r, p, d)
      PROVE  TypeInv'
  <2> DEFINE a == [op |-> "create_position", user |-> None, pos |-> p,
                   div |-> d]
  <2>1. a \in Argument
    BY DEF Argument, Operation
  <2>. QED
    BY <1>3, <2>1, StartTypes DEF BeginCreatePosition, Label
<1>4. ASSUME NEW p \in Position, BeginArchivePosition(r, p)
      PROVE  TypeInv'
  <2> DEFINE a == [op |-> "archive_position", user |-> None, pos |-> p,
                   div |-> None]
  <2>1. a \in Argument
    BY DEF Argument, Operation
  <2>. QED
    BY <1>4, <2>1, StartTypes DEF BeginArchivePosition, Label
<1>5. ASSUME NEW d \in Division, BeginArchiveDivision(r, d)
      PROVE  TypeInv'
  <2> DEFINE a == [op |-> "archive_division", user |-> None, pos |-> None,
                   div |-> d]
  <2>1. a \in Argument
    BY DEF Argument, Operation
  <2>. QED
    BY <1>5, <2>1, StartTypes DEF BeginArchiveDivision, Label
<1>. QED
  BY <1>1, <1>2, <1>3, <1>4, <1>5 DEF Begin

\* The end of a transaction leaves no lock, no buffer and no request behind.
LEMMA ReleaseTypes ==
  ASSUME TypeInv, NEW r \in Request, Release(r),
         home' \in [Position -> Division \cup {None}],
         archivedPos' \in SUBSET Position, archivedDiv' \in SUBSET Division,
         members' \in SUBSET Membership, eventLog' \in Seq(Event),
         seen' \in [Request -> Reads]
  PROVE  TypeInv'
<1>1. NoArgument \in Argument /\ NoWrites \in Buffer
  BY DEF NoArgument, Argument, NoWrites, Buffer
<1>2. TypeOK'
  BY <1>1 DEF TypeInv, TypeOK, Release, Goto, Label
<1>3. ASSUME NEW o \in Request PROVE Control(o)'
  BY NoneIsFresh
     DEF TypeInv, TypeOK, ControlInv, Control, Release, Goto, AssignLabel,
         NoArgument, Operation
<1>. QED
  BY <1>2, <1>3 DEF TypeInv, ControlInv

\* A rollback keeps the tables.
LEMMA RollbackTypes ==
  ASSUME TypeInv, NEW r \in Request, Rollback(r)
  PROVE  TypeInv'
<1>1. NoReads \in Reads
  BY DEF NoReads, Reads
<1>. QED
  BY <1>1, ReleaseTypes DEF Rollback, tables, TypeInv, TypeOK

\* The rows a commit publishes are rows.
LEMMA CommitTypes ==
  ASSUME TypeInv, NEW r \in Request, Commit(r)
  PROVE  TypeInv'
<1>1. tx[r] \in Buffer /\ arg[r] \in Argument
  BY DEF TypeInv, TypeOK
<1>2. home' \in [Position -> Division \cup {None}]
  BY <1>1 DEF Commit, TypeInv, TypeOK, Argument
<1>3. archivedPos' \in SUBSET Position /\ archivedDiv' \in SUBSET Division
      /\ members' \in SUBSET Membership
  BY <1>1 DEF Commit, TypeInv, TypeOK, Buffer
<1>4. eventLog' \in Seq(Event)
  <2>1. eventLog \in Seq(Event) /\ tx[r].events \in Seq(Event)
    BY <1>1 DEF TypeInv, TypeOK, Buffer
  <2>. QED
    BY <2>1, ConcatProperties DEF Commit
<1>5. seen' \in [Request -> Reads]
  <2>1. seen \in [Request -> Reads]
    BY DEF TypeInv, TypeOK
  <2>2. seen' = [o \in Request |->
                   IF o = r THEN NoReads ELSE [seen[o] EXCEPT !.rows = @ \ tx[r].delete]]
    BY DEF Commit
  <2>3. ASSUME NEW o \in Request
        PROVE  [seen[o] EXCEPT !.rows = @ \ tx[r].delete] \in Reads
    BY <2>1 DEF Reads
  <2>4. NoReads \in Reads
    BY DEF NoReads, Reads
  <2>. QED
    BY <2>2, <2>3, <2>4
<1>. QED
  BY <1>2, <1>3, <1>4, <1>5, ReleaseTypes DEF Commit

\* The counts the statements return are numbers.
LEMMA CountTypes ==
  /\ \A rows, p : Cardinality(Holders(rows, p)) \in Nat
  /\ \A rows \in SUBSET Membership : Cardinality(rows) \in Nat
  /\ \A S \in SUBSET Position : Cardinality(S) \in Nat
<1>1. \A rows, p : IsFiniteSet(Holders(rows, p))
  BY FiniteSorts, FS_Subset DEF Holders
<1>2. IsFiniteSet(Membership)
  BY FiniteSorts, FS_Product DEF Membership
<1>. QED
  BY <1>1, <1>2, FiniteSorts, FS_Subset, FS_CardinalityType

\* A statement in the middle of a transaction changes locks, the statement
\* counter, the reads and the buffer of one request.
LEMMA LocalTypes ==
  ASSUME TypeInv, NEW r \in Request, UNCHANGED <<tables, arg>>,
         posLock' \in [Position -> Request \cup {None}],
         divLock' \in [Division -> Request \cup {None}],
         NEW l \in Label, pc' = [pc EXCEPT ![r] = l],
         NEW s \in Reads, seen' = [seen EXCEPT ![r] = s],
         NEW b \in Buffer, tx' = [tx EXCEPT ![r] = b],
         Control(r)'
  PROVE  TypeInv'
<1>1. TypeOK'
  BY DEF TypeInv, TypeOK, tables
<1>2. ASSUME NEW o \in Request PROVE Control(o)'
  BY DEF TypeInv, TypeOK, ControlInv, Control, tables
<1>. QED
  BY <1>1, <1>2 DEF TypeInv, ControlInv

\* The statements of an assignment.
LEMMA AssignTypes ==
  ASSUME TypeInv, NEW r \in Request,
         LockPosition(r) \/ CountMembers(r) \/ CheckAssign(r)
           \/ InsertMembership(r)
  PROVE  TypeInv'
<1>1. Control(r) /\ TypeOK /\ seen[r] \in Reads /\ tx[r] \in Buffer
  BY DEF TypeInv, TypeOK, ControlInv
<1>2. CASE LockPosition(r)
  <2> DEFINE s == [seen[r] EXCEPT !.positions = {arg[r].pos} \ archivedPos]
  <2>1. arg[r].pos \in Position
    BY <1>1, <1>2 DEF LockPosition, Control, AssignLabel
  <2>2. s \in Reads
    BY <1>1, <2>1 DEF Reads
  <2>3. Control(r)'
    BY <1>1, <1>2 DEF LockPosition, Control, AssignLabel, Goto, tables, TypeOK
  <2>4. posLock' \in [Position -> Request \cup {None}]
    BY <1>1, <1>2 DEF LockPosition, TypeOK
  <2>5. seen' = [seen EXCEPT ![r] = s] /\ tx' = [tx EXCEPT ![r] = tx[r]]
    BY <1>1, <1>2 DEF LockPosition, TypeOK
  <2>6. "count_members" \in Label
    BY DEF Label
  <2>. QED
    BY <1>1, <1>2, <2>2, <2>3, <2>4, <2>5, <2>6, LocalTypes
       DEF LockPosition, Goto, TypeOK
<1>3. CASE CountMembers(r)
  <2> DEFINE n == Cardinality(Holders(members, arg[r].pos))
             s == [seen[r] EXCEPT !.count = n]
  <2>1. n \in Nat
    BY CountTypes
  <2>2. s \in Reads
    BY <1>1, <2>1 DEF Reads
  <2>3. Control(r)'
    BY <1>1, <1>3 DEF CountMembers, Control, AssignLabel, Goto, tables, TypeOK
  <2>4. seen' = [seen EXCEPT ![r] = s] /\ tx' = [tx EXCEPT ![r] = tx[r]]
    BY <1>1, <1>3 DEF CountMembers, TypeOK
  <2>5. "check_assign" \in Label
    BY DEF Label
  <2>. QED
    BY <1>1, <1>3, <2>2, <2>3, <2>4, <2>5, LocalTypes
       DEF CountMembers, Goto, TypeOK, locks
<1>4. CASE CheckAssign(r)
  <2>1. Control(r)'
    BY <1>1, <1>4 DEF CheckAssign, Control, AssignLabel, Goto, tables, TypeOK
  <2>2. seen' = [seen EXCEPT ![r] = seen[r]] /\ tx' = [tx EXCEPT ![r] = tx[r]]
    BY <1>1, <1>4 DEF CheckAssign, TypeOK
  <2>3. "read_clock" \in Label
    BY DEF Label
  <2>. QED
    BY <1>1, <1>4, <2>1, <2>2, <2>3, LocalTypes
       DEF CheckAssign, Goto, TypeOK, locks
<1>5. CASE InsertMembership(r)
  <2> DEFINE m == <<arg[r].user, arg[r].pos>>
             b == [tx[r] EXCEPT !.insert = @ \cup {m}]
  <2>1. m \in Membership
    BY <1>1, <1>5 DEF InsertMembership, Control, AssignLabel, Membership
  <2>2. b \in Buffer
    BY <1>1, <2>1 DEF Buffer
  <2>3. Control(r)'
    BY <1>1, <1>5
       DEF InsertMembership, Control, AssignLabel, Goto, tables, TypeOK
  <2>4. seen' = [seen EXCEPT ![r] = seen[r]] /\ tx' = [tx EXCEPT ![r] = b]
    BY <1>1, <1>5 DEF InsertMembership, TypeOK
  <2>5. "insert_event" \in Label
    BY DEF Label
  <2>. QED
    BY <1>1, <1>5, <2>2, <2>3, <2>4, <2>5, LocalTypes
       DEF InsertMembership, Goto, TypeOK, locks
<1>. QED
  BY <1>2, <1>3, <1>4, <1>5

\* The statements that check and delete memberships.
LEMMA DeleteTypes ==
  ASSUME TypeInv, NEW r \in Request,
         \/ CheckRemove(r) \/ FinishRemove(r) \/ DeleteMemberships(r)
         \/ \E m \in Membership : DeleteRow(r, m)
  PROVE  TypeInv'
<1>1. Control(r) /\ TypeOK /\ seen[r] \in Reads /\ tx[r] \in Buffer
  BY DEF TypeInv, TypeOK, ControlInv
<1>2. CASE CheckRemove(r)
  <2>1. Control(r)'
    BY <1>1, <1>2 
       DEF CheckRemove, Control, AssignLabel, Goto, tables, TypeOK,
           Deleted
  <2>2. seen' = [seen EXCEPT ![r] = seen[r]] /\ tx' = [tx EXCEPT ![r] = tx[r]]
    BY <1>1, <1>2 DEF CheckRemove, TypeOK
  <2>3. "read_clock" \in Label
    BY DEF Label
  <2>. QED
    BY <1>1, <1>2, <2>1, <2>2, <2>3, LocalTypes
       DEF CheckRemove, Goto, TypeOK, locks
<1>3. CASE FinishRemove(r)
  <2>1. Control(r)'
    BY <1>1, <1>3 
       DEF FinishRemove, Control, AssignLabel, Goto, tables, TypeOK,
           Deleted
  <2>2. seen' = [seen EXCEPT ![r] = seen[r]] /\ tx' = [tx EXCEPT ![r] = tx[r]]
    BY <1>1, <1>3 DEF FinishRemove, TypeOK
  <2>3. "insert_event" \in Label
    BY DEF Label
  <2>. QED
    BY <1>1, <1>3, <2>1, <2>2, <2>3, LocalTypes
       DEF FinishRemove, Goto, TypeOK, locks
<1>4. CASE DeleteMemberships(r)
  <2> DEFINE s == [seen[r] EXCEPT !.rows = DeleteTargets(arg[r])]
  <2>1. s \in Reads
    BY <1>1 DEF Reads, DeleteTargets, TypeOK
  <2>2. Control(r)'
    BY <1>1, <1>4
       DEF DeleteMemberships, Control, AssignLabel, Goto, tables, TypeOK
  <2>3. seen' = [seen EXCEPT ![r] = s] /\ tx' = [tx EXCEPT ![r] = tx[r]]
    BY <1>1, <1>4 DEF DeleteMemberships, TypeOK
  <2>4. "deleting" \in Label
    BY DEF Label
  <2>. QED
    BY <1>1, <1>4, <2>1, <2>2, <2>3, <2>4, LocalTypes
       DEF DeleteMemberships, Goto, TypeOK, locks
<1>5. ASSUME NEW m \in Membership, DeleteRow(r, m) PROVE TypeInv'
  <2> DEFINE s == [seen[r] EXCEPT !.rows = @ \ {m}]
             b == [tx[r] EXCEPT !.delete = @ \cup {m}]
  <2>1. s \in Reads /\ b \in Buffer
    BY <1>1 DEF Reads, Buffer
  <2>2. Control(r)'
    BY <1>1, <1>5 DEF DeleteRow, Control, AssignLabel, tables, TypeOK
  <2>3. seen' = [seen EXCEPT ![r] = s] /\ tx' = [tx EXCEPT ![r] = b]
        /\ pc' = [pc EXCEPT ![r] = "deleting"]
    BY <1>1, <1>5 DEF DeleteRow, TypeOK
  <2>4. "deleting" \in Label
    BY DEF Label
  <2>. QED
    BY <1>1, <1>5, <2>1, <2>2, <2>3, <2>4, LocalTypes
       DEF DeleteRow, TypeOK, locks
<1>. QED
  BY <1>2, <1>3, <1>4, <1>5

\* The statements that create and archive one position.
LEMMA PositionTypes ==
  ASSUME TypeInv, NEW r \in Request,
         InsertPosition(r) \/ ArchivePosition(r)
  PROVE  TypeInv'
<1>1. Control(r) /\ TypeOK /\ seen[r] \in Reads /\ tx[r] \in Buffer
  BY DEF TypeInv, TypeOK, ControlInv
<1>2. "insert_event" \in Label /\ "read_clock" \in Label
  BY DEF Label
<1>3. CASE InsertPosition(r)
  <2> DEFINE b == [tx[r] EXCEPT !.create = {arg[r].pos}]
  <2>1. b \in Buffer
    BY <1>1, <1>3 DEF Buffer, InsertPosition, Control
  <2>2. Control(r)'
    BY <1>1, <1>3
       DEF InsertPosition, Control, AssignLabel, Goto, tables, TypeOK
  <2>3. seen' = [seen EXCEPT ![r] = seen[r]] /\ tx' = [tx EXCEPT ![r] = b]
    BY <1>1, <1>3 DEF InsertPosition, TypeOK
  <2>. QED
    BY <1>1, <1>2, <1>3, <2>1, <2>2, <2>3, LocalTypes
       DEF InsertPosition, Goto, TypeOK, locks
<1>4. CASE ArchivePosition(r)
  <2> DEFINE p == arg[r].pos
             b == [tx[r] EXCEPT !.archPos = {p}]
  <2>1. p \in Position
    BY <1>1, <1>4 DEF ArchivePosition, Deleted, Control
  <2>2. b \in Buffer
    BY <1>1, <2>1 DEF Buffer
  <2>3. Control(r)'
    BY <1>1, <1>4
       DEF ArchivePosition, Deleted, Control, AssignLabel, Goto, tables, TypeOK
  <2>4. posLock' \in [Position -> Request \cup {None}]
    BY <1>1, <1>4 DEF ArchivePosition, TypeOK
  <2>5. seen' = [seen EXCEPT ![r] = seen[r]] /\ tx' = [tx EXCEPT ![r] = b]
    BY <1>1, <1>4 DEF ArchivePosition, TypeOK
  <2>. QED
    BY <1>1, <1>2, <1>4, <2>2, <2>3, <2>4, <2>5, LocalTypes
       DEF ArchivePosition, Goto, TypeOK
<1>. QED
  BY <1>3, <1>4

\* The statements of the archive cascade.
LEMMA CascadeTypes ==
  ASSUME TypeInv, NEW r \in Request,
         \/ ListSubtree(r) \/ ScanPositions(r) \/ ScanChildren(r)
         \/ \E p \in Position : ArchiveScannedPosition(r, p)
         \/ \E d \in Division : ArchiveScannedChild(r, d)
         \/ ArchiveRoot(r)
  PROVE  TypeInv'
<1>1. Control(r) /\ TypeOK /\ seen[r] \in Reads /\ tx[r] \in Buffer
  BY DEF TypeInv, TypeOK, ControlInv
<1>2. CASE ListSubtree(r)
  <2>1. Control(r)'
    BY <1>1, <1>2 
       DEF ListSubtree, Control, AssignLabel, Goto, tables, TypeOK,
           Deleted
  <2>2. seen' = [seen EXCEPT ![r] = seen[r]] /\ tx' = [tx EXCEPT ![r] = tx[r]]
    BY <1>1, <1>2 DEF ListSubtree, TypeOK
  <2>3. "delete_memberships" \in Label
    BY DEF Label
  <2>. QED
    BY <1>1, <1>2, <2>1, <2>2, <2>3, LocalTypes
       DEF ListSubtree, Goto, TypeOK, locks
<1>3. CASE ScanPositions(r)
  <2> DEFINE s == [seen[r] EXCEPT !.positions =
                {p \in Position \ archivedPos : home[p] \in Subtree(arg[r].div)}]
  <2>1. s \in Reads
    BY <1>1 DEF Reads
  <2>2. Control(r)'
    BY <1>1, <1>3
       DEF ScanPositions, Deleted, Control, AssignLabel, Goto, tables, TypeOK
  <2>3. seen' = [seen EXCEPT ![r] = s] /\ tx' = [tx EXCEPT ![r] = tx[r]]
    BY <1>1, <1>3 DEF ScanPositions, TypeOK
  <2>4. "archiving_positions" \in Label
    BY DEF Label
  <2>. QED
    BY <1>1, <1>3, <2>1, <2>2, <2>3, <2>4, LocalTypes
       DEF ScanPositions, Goto, TypeOK, locks
<1>4. CASE ScanChildren(r)
  <2> DEFINE s == [seen[r] EXCEPT !.divisions =
                     Subtree(arg[r].div) \ (archivedDiv \cup {arg[r].div})]
  <2>1. s \in Reads
    BY <1>1, ParentType DEF Reads, Subtree, Descendants
  <2>2. Control(r)'
    BY <1>1, <1>4 DEF ScanChildren, Control, AssignLabel, Goto, tables, TypeOK
  <2>3. seen' = [seen EXCEPT ![r] = s] /\ tx' = [tx EXCEPT ![r] = tx[r]]
    BY <1>1, <1>4 DEF ScanChildren, TypeOK
  <2>4. "archiving_children" \in Label
    BY DEF Label
  <2>. QED
    BY <1>1, <1>4, <2>1, <2>2, <2>3, <2>4, LocalTypes
       DEF ScanChildren, Goto, TypeOK, locks
<1>5. ASSUME NEW p \in Position, ArchiveScannedPosition(r, p) PROVE TypeInv'
  <2> DEFINE s == [seen[r] EXCEPT !.positions = @ \ {p}]
             b == [tx[r] EXCEPT !.archPos = @ \cup ({p} \ archivedPos)]
  <2>1. s \in Reads /\ b \in Buffer
    BY <1>1 DEF Reads, Buffer
  <2>2. Control(r)'
    BY <1>1, <1>5
       DEF ArchiveScannedPosition, Control, AssignLabel, tables, TypeOK
  <2>3. posLock' \in [Position -> Request \cup {None}]
    BY <1>1, <1>5 DEF ArchiveScannedPosition, TypeOK
  <2>4. seen' = [seen EXCEPT ![r] = s] /\ tx' = [tx EXCEPT ![r] = b]
        /\ pc' = [pc EXCEPT ![r] = pc[r]]
    BY <1>1, <1>5 DEF ArchiveScannedPosition, TypeOK
  <2>5. pc[r] \in Label
    BY <1>1 DEF TypeOK
  <2>. QED
    BY <1>1, <1>5, <2>1, <2>2, <2>3, <2>4, <2>5, LocalTypes
       DEF ArchiveScannedPosition, TypeOK
<1>6. ASSUME NEW d \in Division, ArchiveScannedChild(r, d) PROVE TypeInv'
  <2> DEFINE s == [seen[r] EXCEPT !.divisions = @ \ {d}]
             b == [tx[r] EXCEPT !.archDiv = @ \cup ({d} \ archivedDiv)]
  <2>1. s \in Reads /\ b \in Buffer
    BY <1>1 DEF Reads, Buffer
  <2>2. Control(r)'
    BY <1>1, <1>6
       DEF ArchiveScannedChild, Control, AssignLabel, tables, TypeOK
  <2>3. divLock' \in [Division -> Request \cup {None}]
    BY <1>1, <1>6 DEF ArchiveScannedChild, TypeOK
  <2>4. seen' = [seen EXCEPT ![r] = s] /\ tx' = [tx EXCEPT ![r] = b]
        /\ pc' = [pc EXCEPT ![r] = pc[r]]
    BY <1>1, <1>6 DEF ArchiveScannedChild, TypeOK
  <2>5. pc[r] \in Label
    BY <1>1 DEF TypeOK
  <2>. QED
    BY <1>1, <1>6, <2>1, <2>2, <2>3, <2>4, <2>5, LocalTypes
       DEF ArchiveScannedChild, TypeOK
<1>7. CASE ArchiveRoot(r)
  <2> DEFINE d == arg[r].div
             b == [tx[r] EXCEPT !.archDiv = @ \cup {d}]
  <2>1. d \in Division
    BY <1>1, <1>7 DEF ArchiveRoot, Control
  <2>2. b \in Buffer
    BY <1>1, <2>1 DEF Buffer
  <2>3. Control(r)'
    BY <1>1, <1>7 DEF ArchiveRoot, Control, AssignLabel, Goto, tables, TypeOK
  <2>4. divLock' \in [Division -> Request \cup {None}]
    BY <1>1, <1>7 DEF ArchiveRoot, TypeOK
  <2>5. seen' = [seen EXCEPT ![r] = seen[r]] /\ tx' = [tx EXCEPT ![r] = b]
    BY <1>1, <1>7 DEF ArchiveRoot, TypeOK
  <2>6. "read_clock" \in Label
    BY DEF Label
  <2>. QED
    BY <1>1, <1>7, <2>2, <2>3, <2>4, <2>5, <2>6, LocalTypes
       DEF ArchiveRoot, Goto, TypeOK
<1>. QED
  BY <1>2, <1>3, <1>4, <1>5, <1>6, <1>7

\* The entry CommandService inserts is an event.
LEMMA InsertEventTypes ==
  ASSUME TypeInv, NEW r \in Request, InsertEvent(r)
  PROVE  TypeInv'
<1>1. Control(r) /\ TypeOK /\ seen[r] \in Reads /\ tx[r] \in Buffer
      /\ arg[r] \in Argument
  BY DEF TypeInv, TypeOK, ControlInv
<1> DEFINE e == [op |-> arg[r].op, user |-> arg[r].user, pos |-> arg[r].pos,
                 div |-> arg[r].div, at |-> seen[r].at,
                 removed |-> Cardinality(tx[r].delete),
                 archived |-> Cardinality(tx[r].archPos)]
           b == [tx[r] EXCEPT !.events = Append(@, e)]
<1>2. e \in Event
  <2>1. Cardinality(tx[r].delete) \in Nat /\ Cardinality(tx[r].archPos) \in Nat
    BY <1>1, CountTypes DEF Buffer
  <2>2. arg[r].op \in Operation
    BY <1>1 DEF InsertEvent, Control, Argument
  <2>. QED
    BY <1>1, <2>1, <2>2 DEF Event, Argument, Reads
<1>3. b \in Buffer
  <2>1. Append(tx[r].events, e) \in Seq(Event)
    BY <1>1, <1>2, AppendProperties DEF Buffer
  <2>. QED
    BY <1>1, <2>1 DEF Buffer
<1>4. Control(r)'
  BY <1>1 DEF InsertEvent, Control, AssignLabel, Goto, tables, TypeOK
<1>5. seen' = [seen EXCEPT ![r] = seen[r]] /\ tx' = [tx EXCEPT ![r] = b]
  BY <1>1 DEF InsertEvent, TypeOK
<1>6. "commit" \in Label
  BY DEF Label
<1>. QED
  BY <1>1, <1>3, <1>4, <1>5, <1>6, LocalTypes
     DEF InsertEvent, Goto, TypeOK, locks

\* A reading of the clock is a number, no earlier than any other that is kept.
LEMMA ClockIsLate ==
  ASSUME TypeInv, NEW t \in Clock
  PROVE  t \in Nat /\ \A i \in DOMAIN eventLog : eventLog[i].at <= t
<1>1. t \in 1..MaxTime /\ MaxTime \in Nat /\ \A i \in DOMAIN eventLog : eventLog[i].at \in Times
  BY MaxTimeType DEF Clock, Times
<1> QED
  BY <1>1 DEF Clock

\* After the clock each operation goes on with a statement of its own.
LEMMA ReadClockTypes ==
  ASSUME TypeInv, NEW r \in Request, ReadClock(r)
  PROVE  TypeInv'
<1>1. Control(r) /\ TypeOK /\ seen[r] \in Reads /\ tx[r] \in Buffer
      /\ pc[r] = "read_clock" /\ arg[r].op \in Operation
  BY DEF TypeInv, TypeOK, ControlInv, Control, ReadClock
<1>2. PICK t \in Clock : seen' = [seen EXCEPT ![r].at = t]
  BY DEF ReadClock
<1> DEFINE s == [seen[r] EXCEPT !.at = t]
           l == AfterClock(arg[r].op)
<1>3. s \in Reads
  BY <1>1, <1>2, ClockIsLate DEF Reads
<1>4. /\ l \in {"insert_membership", "delete_memberships", "insert_position", "insert_event"}
      /\ arg[r].op = "assign" => l = "insert_membership"
      /\ arg[r].op = "remove" => l = "delete_memberships"
      /\ arg[r].op = "create_position" => l = "insert_position"
      /\ arg[r].op \in {"archive_position", "archive_division"} => l = "insert_event"
  BY <1>1 DEF AfterClock, Operation
<1>5. seen' = [seen EXCEPT ![r] = s] /\ tx' = [tx EXCEPT ![r] = tx[r]]
      /\ pc' = [pc EXCEPT ![r] = l]
  BY <1>1, <1>2 DEF ReadClock, Goto, TypeOK
<1>6. pc'[r] = l /\ arg'[r] = arg[r] /\ tx'[r] = tx[r]
  BY <1>1, <1>5 DEF ReadClock, TypeOK
<1> HIDE DEF s, l
<1>7. Control(r)'
  BY <1>1, <1>4, <1>6 DEF Control, AssignLabel, Operation
<1>8. l \in Label
  BY <1>4 DEF Label
<1>. QED
  BY <1>1, <1>3, <1>5, <1>7, <1>8, LocalTypes DEF ReadClock, TypeOK, locks

\* Every statement of every operation keeps the types.
LEMMA StepTypes ==
  ASSUME TypeInv, NEW r \in Request, Step(r)
  PROVE  TypeInv'
<1>. QED
  BY AssignTypes, DeleteTypes, PositionTypes, CascadeTypes, ReadClockTypes,
     InsertEventTypes, CommitTypes, RollbackTypes
     DEF Step, AssignStep, RemoveStep, DeleteStep, CascadeStep,
         RefuseAssign, RefuseRemove, ArchiveNoop

\* Types and control are inductive.
LEMMA NextTypes == TypeInv /\ [Next]_vars => TypeInv'
<1> SUFFICES ASSUME TypeInv, [Next]_vars PROVE TypeInv'
  OBVIOUS
<1>1. ASSUME NEW r \in Request, Begin(r) \/ Step(r) \/ Fail(r) PROVE TypeInv'
  BY <1>1, BeginTypes, StepTypes, RollbackTypes DEF Fail
<1>2. CASE UNCHANGED vars
  BY <1>2 DEF TypeInv, TypeOK, ControlInv, Control, vars, tables, locks
<1>. QED
  BY <1>1, <1>2 DEF Next, Quiet

\* Every variable keeps its type and every request runs the statements of its
\* own operation, for any number of requests and any organisation.
THEOREM TypeCorrect == Spec => []TypeOK
<1>1. TypeInv => TypeOK
  BY DEF TypeInv
<1>. QED
  BY <1>1, InitTypeInv, NextTypes, PTL DEF Spec

-----------------------------------------------------------------------------
(* An assignment owns its position from the lock to the commit: what it has *)
(* read of it stays true, or becomes true a fortiori, until it commits.     *)

HasSeat(r) == pc[r] \in {"insert_event", "commit"} /\ arg[r].op = "assign"

\* It has passed its checks and has not inserted yet.
Decided(r) ==
  arg[r].op = "assign" /\ pc[r] \in {"read_clock", "insert_membership"}

Decides(r) == pc[r] \in {"count_members", "check_assign"} \/ Decided(r)

FreeSeat(p) == Limit[p] = 0 \/ Cardinality(Holders(members, p)) < Limit[p]

Owner(r) ==
  /\ Decides(r) \/ HasSeat(r) => posLock[arg[r].pos] = r
  /\ \A p \in tx[r].archPos : posLock[p] = r
  /\ tx[r].insert # {} => HasSeat(r)

Reader(r) ==
  LET p == arg[r].pos IN
  /\ Decides(r) => seen[r].positions \subseteq {p} \ archivedPos
  /\ pc[r] = "check_assign" \/ Decided(r) =>
       Cardinality(Holders(members, p)) <= seen[r].count
  /\ Decided(r) =>
       p \in seen[r].positions /\ (Limit[p] = 0 \/ seen[r].count < Limit[p])

Writer(r) ==
  LET u == arg[r].user
      p == arg[r].pos
  IN  HasSeat(r) => /\ tx[r].insert = {<<u, p>>}
                    /\ tx[r].delete = {} /\ tx[r].archPos = {}
                    /\ p \notin archivedPos
                    /\ <<u, p>> \notin members
                    /\ FreeSeat(p)

Seat(r) == Owner(r) /\ Reader(r) /\ Writer(r)

SeatInv == \A r \in Request : Seat(r)

\* A step of r that commits nothing leaves every other request as it was and
\* takes no lock from it.
Apart(r) ==
  /\ UNCHANGED <<archivedPos, members>>
  /\ \A o \in Request \ {r} : /\ pc'[o] = pc[o] /\ arg'[o] = arg[o]
                              /\ seen'[o] = seen[o] /\ tx'[o] = tx[o]
  /\ \A p \in Position : posLock'[p] # posLock[p] => posLock[p] \in {None, r}

\* Nobody holds a lock at the start.
LEMMA InitSeatInv == Init => SeatInv
BY DEF Init, SeatInv, Seat, Owner, Reader, Writer, HasSeat, Decides, Decided, NoWrites

\* A position assigned or decided on is one.
LEMMA OwnedPosition ==
  ASSUME TypeInv, NEW r \in Request, Decides(r) \/ HasSeat(r)
  PROVE  arg[r].pos \in Position /\ arg[r].user \in User /\ arg[r].op = "assign"
BY DEF TypeInv, ControlInv, Control, AssignLabel, Decides, Decided, HasSeat

\* A request keeps what it owns and knows while another one runs.
LEMMA OthersKeepSeat ==
  ASSUME TypeInv, SeatInv, NEW r \in Request, Apart(r),
         NEW o \in Request \ {r}
  PROVE  Seat(o)'
<1>1. Seat(o) /\ o # None /\ tx[o].archPos \subseteq Position
  BY NoneIsFresh DEF SeatInv, TypeInv, TypeOK, Buffer
<1>2. \A p \in Position : posLock[p] = o => posLock'[p] = o
  BY <1>1 DEF Apart
<1>3. pc'[o] = pc[o] /\ arg'[o] = arg[o] /\ seen'[o] = seen[o] /\ tx'[o] = tx[o]
      /\ members' = members /\ archivedPos' = archivedPos
  BY DEF Apart
<1>4. Owner(o)'
  BY <1>1, <1>2, <1>3, OwnedPosition DEF Seat, Owner, Decides, Decided, HasSeat
<1>5. Reader(o)'
  BY <1>1, <1>3 DEF Seat, Reader, Decides, Decided
<1>6. Writer(o)'
  BY <1>1, <1>3 DEF Seat, Writer, HasSeat, FreeSeat
<1>. QED
  BY <1>4, <1>5, <1>6 DEF Seat

\* A request that is not an assignment owns the rows it archives.
LEMMA OtherOperations ==
  ASSUME NEW r \in Request, Owner(r), arg[r].op # "assign",
         arg'[r] = arg[r], ~Decides(r)', tx'[r].insert = tx[r].insert,
         \A p \in tx'[r].archPos : posLock'[p] = r
  PROVE  Seat(r)'
BY DEF Seat, Owner, Reader, Writer, HasSeat, Decides, Decided

\* A request that has ended owns nothing.
LEMMA ReleaseSeat ==
  ASSUME TypeInv, NEW r \in Request, Release(r)
  PROVE  Seat(r)'
BY DEF TypeInv, TypeOK, Release, Goto, NoWrites, Seat, Owner, Reader, Writer,
       HasSeat, Decides, Decided

\* A rollback gives up what the request owned and nothing else.
LEMMA RollbackSeat ==
  ASSUME TypeInv, SeatInv, NEW r \in Request, Rollback(r)
  PROVE  SeatInv'
<1>1. Apart(r)
  BY DEF TypeInv, TypeOK, Rollback, Release, Goto, tables, Apart
<1>. QED
  BY <1>1, OthersKeepSeat, ReleaseSeat DEF SeatInv, Rollback

\* A new request owns nothing.
LEMMA BeginSeat ==
  ASSUME TypeInv, SeatInv, NEW r \in Request, Begin(r)
  PROVE  SeatInv'
<1>1. pc[r] = "idle" /\ tx[r] = NoWrites
  BY DEF Begin, BeginAssign, BeginRemove, BeginCreatePosition,
         BeginArchivePosition, BeginArchiveDivision, Start, TypeInv, ControlInv,
         Control
<1>2. UNCHANGED <<tables, locks, seen, tx>>
  BY DEF Begin, BeginAssign, BeginRemove, BeginCreatePosition,
         BeginArchivePosition, BeginArchiveDivision, Start
<1>3. PICK a, label : /\ arg' = [arg EXCEPT ![r] = a]
                      /\ pc' = [pc EXCEPT ![r] = label]
                      /\ label \in {"lock_position", "check_remove",
                                    "read_clock", "delete_memberships",
                                    "list_subtree"}
                      /\ label = "read_clock" => a.op # "assign"
  <2> DEFINE First(label) == label \in {"lock_position", "check_remove", "read_clock",
                                        "delete_memberships", "list_subtree"}
  <2>1. \E a, label : /\ Start(r, a, label) /\ First(label)
                      /\ label = "read_clock" => a.op # "assign"
    <3>1. CASE \E u \in User, p \in Position : BeginAssign(r, u, p)
      <4>1. \E a : Start(r, a, "lock_position")
        BY <3>1 DEF BeginAssign
      <4> QED  BY <4>1
    <3>2. CASE \E u \in User, p \in Position : BeginRemove(r, u, p)
      <4>1. \E a : Start(r, a, "check_remove")
        BY <3>2 DEF BeginRemove
      <4> QED  BY <4>1
    <3>3. CASE \E p \in Position, d \in Division : BeginCreatePosition(r, p, d)
      <4>1. \E a : Start(r, a, "read_clock") /\ a.op # "assign"
        BY <3>3 DEF BeginCreatePosition
      <4> QED  BY <4>1
    <3>4. CASE \E p \in Position : BeginArchivePosition(r, p)
      <4>1. \E a : Start(r, a, "delete_memberships")
        BY <3>4 DEF BeginArchivePosition
      <4> QED  BY <4>1
    <3>5. CASE \E d \in Division : BeginArchiveDivision(r, d)
      <4>1. \E a : Start(r, a, "list_subtree")
        BY <3>5 DEF BeginArchiveDivision
      <4> QED  BY <4>1
    <3> QED
      BY <3>1, <3>2, <3>3, <3>4, <3>5 DEF Begin
  <2>2. PICK a, label : /\ Start(r, a, label) /\ First(label)
                        /\ label = "read_clock" => a.op # "assign"
    BY <2>1
  <2>3. arg' = [arg EXCEPT ![r] = a] /\ pc' = [pc EXCEPT ![r] = label]
    BY <2>2 DEF Start, Goto
  <2> QED
    BY <2>2, <2>3
<1>4. Apart(r)
  BY <1>2, <1>3 DEF Apart, tables, locks, TypeInv, TypeOK
<1>5. pc'[r] = label /\ tx'[r] = NoWrites
  BY <1>1, <1>2, <1>3 DEF TypeInv, TypeOK
<1>6. Seat(r)'
  <2>1. arg'[r] = a
    BY <1>3 DEF TypeInv, TypeOK
  <2>. QED
    BY <1>3, <1>5, <2>1
       DEF Seat, Owner, Reader, Writer, HasSeat, Decides, Decided, NoWrites
<1>. QED
  BY <1>4, <1>6, OthersKeepSeat DEF SeatInv

\* The row lock makes the assignment the owner of its position.
LEMMA LockPositionSeat ==
  ASSUME TypeInv, SeatInv, NEW r \in Request, LockPosition(r)
  PROVE  SeatInv'
<1>1. Control(r) /\ Seat(r) /\ TypeOK /\ arg[r].pos \in Position
  BY DEF TypeInv, ControlInv, Control, SeatInv, LockPosition, AssignLabel
<1>2. Apart(r)
  BY <1>1 DEF TypeOK, LockPosition, Unlocked, Goto, tables, Apart
<1>3. Seat(r)'
  BY <1>1 DEF TypeOK, LockPosition, Goto, tables, Seat, Owner, Reader, Writer,
              HasSeat, Decides, Decided, Control, AssignLabel, NoWrites, Reads
<1>. QED
  BY <1>2, <1>3, OthersKeepSeat DEF SeatInv

\* The count is exact when it is read.
LEMMA CountMembersSeat ==
  ASSUME TypeInv, SeatInv, NEW r \in Request, CountMembers(r)
  PROVE  SeatInv'
<1>1. Control(r) /\ Seat(r) /\ TypeOK
  BY DEF TypeInv, ControlInv, SeatInv
<1>2. Apart(r)
  BY <1>1 DEF TypeOK, CountMembers, Goto, tables, locks, Apart
<1> DEFINE n == Cardinality(Holders(members, arg[r].pos))
<1>3. /\ pc'[r] = "check_assign" /\ arg' = arg /\ tx' = tx
      /\ posLock' = posLock /\ members' = members /\ archivedPos' = archivedPos
      /\ seen'[r].count = n /\ seen'[r].positions = seen[r].positions
  BY <1>1 DEF TypeOK, Reads, CountMembers, Goto, tables, locks
<1>4. n \in Nat
  BY CountTypes
<1>5. Owner(r)' /\ Writer(r)'
  BY <1>1, <1>3
     DEF CountMembers, Seat, Owner, Writer, HasSeat, Decides, Decided, Control
<1>6. Reader(r)'
  <2>1. n <= n
    BY <1>4
  <2>2. seen[r].positions \subseteq {arg[r].pos} \ archivedPos
    BY <1>1 DEF CountMembers, Seat, Reader, Decides, Decided
  <2>. QED
    BY <1>3, <2>1, <2>2 DEF Reader, Decides, Decided
<1>. QED
  BY <1>2, <1>5, <1>6, OthersKeepSeat DEF SeatInv, Seat

\* The decision is taken on a count that only got too high.
LEMMA CheckAssignSeat ==
  ASSUME TypeInv, SeatInv, NEW r \in Request, CheckAssign(r)
  PROVE  SeatInv'
<1>1. Control(r) /\ Seat(r) /\ TypeOK
  BY DEF TypeInv, ControlInv, SeatInv
<1>2. Apart(r)
  BY <1>1 DEF TypeOK, CheckAssign, Goto, tables, locks, Apart
<1>3. Seat(r)'
  BY <1>1 DEF TypeOK, CheckAssign, MayAssign, Goto, tables, locks, Seat, Owner,
              Reader, Writer, HasSeat, Decides, Decided
<1>. QED
  BY <1>2, <1>3, OthersKeepSeat DEF SeatInv

\* The insert fills a seat that the lock has kept free since it was counted.
LEMMA InsertMembershipSeat ==
  ASSUME TypeInv, SeatInv, NEW r \in Request, InsertMembership(r)
  PROVE  SeatInv'
<1> DEFINE p == arg[r].pos
           m == <<arg[r].user, p>>
<1>1. Control(r) /\ Seat(r) /\ TypeOK /\ Decided(r) /\ p \in Position
  <2>1. Control(r) /\ Seat(r) /\ TypeOK
    BY DEF TypeInv, ControlInv, SeatInv
  <2>2. Decided(r)
    BY <2>1 DEF InsertMembership, Control, AssignLabel, Decided
  <2>. QED
    BY <2>1, <2>2, OwnedPosition DEF Decides
<1>2. Apart(r)
  BY <1>1 DEF TypeOK, InsertMembership, Goto, tables, locks, Apart
<1>3. /\ pc'[r] = "insert_event" /\ arg' = arg /\ tx'[r].insert = {m}
      /\ tx'[r].delete = {} /\ tx'[r].archPos = {}
      /\ posLock' = posLock /\ members' = members /\ archivedPos' = archivedPos
  BY <1>1 DEF TypeOK, InsertMembership, Goto, tables, locks, Control,
              AssignLabel, NoWrites
<1>4. FreeSeat(p)
  <2>1. Cardinality(Holders(members, p)) <= seen[r].count
        /\ (Limit[p] = 0 \/ seen[r].count < Limit[p])
    BY <1>1 DEF Seat, Reader
  <2>2. Cardinality(Holders(members, p)) \in Nat /\ seen[r].count \in Nat
        /\ Limit[p] \in Nat
    BY <1>1, CountTypes, LimitType DEF TypeOK, Reads
  <2>. QED
    BY <2>1, <2>2 DEF FreeSeat
<1>5. Owner(r)'
  BY <1>1, <1>3 DEF InsertMembership, Seat, Owner, HasSeat, Decides, Decided, Control,
                    AssignLabel
<1>6. Reader(r)'
  BY <1>3 DEF Reader, Decides, Decided
<1>7. Writer(r)'
  <2>1. p \notin archivedPos
    BY <1>1 DEF Seat, Reader, Decides
  <2>2. m \notin members
    BY DEF InsertMembership
  <2>. QED
    BY <1>3, <1>4, <2>1, <2>2 DEF Writer, FreeSeat
<1>. QED
  BY <1>2, <1>5, <1>6, <1>7, OthersKeepSeat DEF SeatInv, Seat

\* The statements of the four other operations.
LEMMA OtherStatements ==
  ASSUME TypeInv, SeatInv, NEW r \in Request,
         \/ CheckRemove(r) \/ FinishRemove(r) \/ DeleteStep(r)
         \/ InsertPosition(r) \/ ArchivePosition(r)
         \/ ListSubtree(r) \/ ScanPositions(r) \/ ScanChildren(r)
         \/ \E p \in Position : ArchiveScannedPosition(r, p)
         \/ \E d \in Division : ArchiveScannedChild(r, d)
         \/ ArchiveRoot(r)
  PROVE  SeatInv'
<1>1. Control(r) /\ Seat(r) /\ TypeOK /\ tx[r] \in Buffer
  BY DEF TypeInv, TypeOK, ControlInv, SeatInv
<1>2. CASE \/ CheckRemove(r) \/ FinishRemove(r) \/ DeleteStep(r)
           \/ InsertPosition(r) \/ ListSubtree(r) \/ ScanPositions(r)
           \/ ScanChildren(r) \/ \E d \in Division : ArchiveScannedChild(r, d)
           \/ ArchiveRoot(r)
  <2>1. Apart(r)
    BY <1>1, <1>2
       DEF CheckRemove, FinishRemove, Deleted, DeleteStep, DeleteMemberships,
           DeleteRow, InsertPosition, ListSubtree, ScanPositions, ScanChildren,
           ArchiveScannedChild, ArchiveRoot, Goto, tables, locks, Apart, TypeOK
  <2>2. arg[r].op # "assign"
    BY <1>1, <1>2
       DEF CheckRemove, FinishRemove, Deleted, DeleteStep, DeleteMemberships,
           DeleteRow, InsertPosition, ListSubtree, ScanPositions, ScanChildren,
           ArchiveScannedChild, ArchiveRoot, Control
  <2>3. /\ arg' = arg /\ posLock' = posLock
        /\ tx'[r].insert = tx[r].insert /\ tx'[r].archPos = tx[r].archPos
    BY <1>1, <1>2
       DEF CheckRemove, FinishRemove, Deleted, DeleteStep, DeleteMemberships,
           DeleteRow, InsertPosition, ListSubtree, ScanPositions, ScanChildren,
           ArchiveScannedChild, ArchiveRoot, locks, TypeOK, Buffer
  <2>4. ~Decides(r)'
    BY <1>1, <1>2, <2>2, <2>3
       DEF CheckRemove, FinishRemove, Deleted, DeleteStep, DeleteMemberships,
           DeleteRow, InsertPosition, ListSubtree, ScanPositions, ScanChildren,
           ArchiveScannedChild, ArchiveRoot, Goto, TypeOK, Decides, Decided
  <2>. QED
    BY <1>1, <2>1, <2>2, <2>3, <2>4, OtherOperations, OthersKeepSeat
       DEF SeatInv, Seat, Owner
<1>3. CASE ArchivePosition(r)
  <2> DEFINE p == arg[r].pos
  <2>1. p \in Position /\ arg[r].op # "assign"
    BY <1>1, <1>3 DEF ArchivePosition, Deleted, Control
  <2>2. Apart(r)
    BY <1>1, <1>3, <2>1
       DEF ArchivePosition, Unlocked, Goto, tables, Apart, TypeOK
  <2>3. /\ arg' = arg /\ posLock'[p] = r
        /\ tx'[r].insert = tx[r].insert /\ tx'[r].archPos = {p}
        /\ ~Decides(r)'
    BY <1>1, <1>3, <2>1
       DEF ArchivePosition, Goto, TypeOK, Buffer, Decides, Decided
  <2>. QED
    BY <1>1, <2>1, <2>2, <2>3, OtherOperations, OthersKeepSeat
       DEF SeatInv, Seat
<1>4. ASSUME NEW p \in Position, ArchiveScannedPosition(r, p) PROVE SeatInv'
  <2>1. arg[r].op # "assign"
    BY <1>1, <1>4 DEF ArchiveScannedPosition, Control
  <2>2. Apart(r)
    BY <1>1, <1>4
       DEF ArchiveScannedPosition, Unlocked, tables, Apart, TypeOK
  <2>3. /\ arg' = arg /\ tx'[r].insert = tx[r].insert /\ ~Decides(r)'
        /\ tx'[r].archPos \subseteq tx[r].archPos \cup {p}
    BY <1>1, <1>4
       DEF ArchiveScannedPosition, TypeOK, Buffer, Decides, Decided
  <2>4. \A q \in tx'[r].archPos : posLock'[q] = r
    BY <1>1, <1>4, <2>3
       DEF ArchiveScannedPosition, TypeOK, Buffer, Seat, Owner
  <2>. QED
    BY <1>1, <2>1, <2>2, <2>3, <2>4, OtherOperations, OthersKeepSeat
       DEF SeatInv, Seat
<1>. QED
  BY <1>2, <1>3, <1>4

\* The clock changes nothing of what an assignment has decided.
LEMMA ReadClockSeat ==
  ASSUME TypeInv, SeatInv, NEW r \in Request, ReadClock(r)
  PROVE  SeatInv'
<1>1. Control(r) /\ Seat(r) /\ TypeOK
  BY DEF TypeInv, ControlInv, SeatInv
<1>2. Apart(r)
  BY <1>1 DEF TypeOK, ReadClock, Goto, tables, locks, Apart
<1>3. /\ pc[r] = "read_clock" /\ arg' = arg /\ tx' = tx /\ posLock' = posLock
      /\ members' = members /\ archivedPos' = archivedPos
      /\ seen'[r].count = seen[r].count /\ seen'[r].positions = seen[r].positions
  BY <1>1 DEF TypeOK, Reads, ReadClock, tables, locks
<1>4. arg[r].op = "assign" => pc'[r] = "insert_membership"
  BY <1>1 DEF TypeOK, ReadClock, Goto, AfterClock
<1>5. arg[r].op # "assign" =>
        pc'[r] \in {"delete_memberships", "insert_position", "insert_event"}
  BY <1>1 DEF TypeOK, ReadClock, Goto, AfterClock, Control, Operation
<1>6. Seat(r)'
  BY <1>1, <1>3, <1>4, <1>5 DEF Seat, Owner, Reader, Writer, HasSeat, Decides, Decided
<1>. QED
  BY <1>2, <1>6, OthersKeepSeat DEF SeatInv

\* Logging the assignment changes nothing it relies on.
LEMMA InsertEventSeat ==
  ASSUME TypeInv, SeatInv, NEW r \in Request, InsertEvent(r)
  PROVE  SeatInv'
<1>1. Control(r) /\ Seat(r) /\ TypeOK
  BY DEF TypeInv, ControlInv, SeatInv
<1>2. Apart(r)
  BY <1>1 DEF TypeOK, InsertEvent, Goto, tables, locks, Apart
<1>3. /\ pc[r] = "insert_event" /\ pc'[r] = "commit" /\ arg' = arg
      /\ tx'[r].insert = tx[r].insert /\ tx'[r].delete = tx[r].delete
      /\ tx'[r].archPos = tx[r].archPos /\ posLock' = posLock
      /\ members' = members /\ archivedPos' = archivedPos
  BY <1>1 DEF TypeOK, Buffer, InsertEvent, Goto, tables, locks
<1>4. HasSeat(r)' <=> HasSeat(r)
  BY <1>3 DEF HasSeat
<1>5. Seat(r)'
  BY <1>1, <1>3, <1>4 DEF Seat, Owner, Reader, Writer, Decides, Decided, FreeSeat
<1>. QED
  BY <1>2, <1>5, OthersKeepSeat DEF SeatInv

-----------------------------------------------------------------------------
(* What a commit does to positions, in the terms of PositionSeats.          *)

\* The members of a position are a finite set, fewer when rows go.
LEMMA HoldersFacts ==
  ASSUME NEW p, NEW old, NEW new, Holders(new, p) \subseteq Holders(old, p)
  PROVE  /\ IsFiniteSet(Holders(old, p))
         /\ Cardinality(Holders(new, p)) <= Cardinality(Holders(old, p))
         /\ Cardinality(Holders(new, p)) \in Nat
         /\ Cardinality(Holders(old, p)) \in Nat
<1>1. IsFiniteSet(Holders(old, p))
  BY FiniteSorts, FS_Subset DEF Holders
<1>. QED
  BY <1>1, CountTypes, FS_Subset

\* A commit adds the one membership of an assignment or none.
LEMMA CommitEffect ==
  ASSUME TypeInv, SeatInv, NEW r \in Request, Commit(r)
  PROVE  \/ /\ HasSeat(r)
            /\ members' = members \cup {<<arg[r].user, arg[r].pos>>}
            /\ archivedPos' = archivedPos
         \/ /\ ~HasSeat(r)
            /\ members' \subseteq members
            /\ archivedPos \subseteq archivedPos'
<1>1. Seat(r)
  BY DEF SeatInv
<1>2. CASE HasSeat(r)
  <2>1. tx[r].insert = {<<arg[r].user, arg[r].pos>>} /\ tx[r].delete = {}
        /\ tx[r].archPos = {}
    BY <1>1, <1>2 DEF Seat, Writer
  <2>. QED
    BY <1>2, <2>1 DEF Commit
<1>3. CASE ~HasSeat(r)
  <2>1. tx[r].insert = {}
    BY <1>1, <1>3 DEF Seat, Owner
  <2>. QED
    BY <1>3, <2>1 DEF Commit
<1>. QED
  BY <1>2, <1>3

\* A commit adds nobody to a position another request has locked.
LEMMA CommitSpares ==
  ASSUME TypeInv, SeatInv, NEW r \in Request, Commit(r),
         NEW o \in Request \ {r}, NEW p \in Position, posLock[p] = o
  PROVE  /\ posLock'[p] = o
         /\ p \in archivedPos' => p \in archivedPos
         /\ \A u \in User : <<u, p>> \in members' => <<u, p>> \in members
<1>1. Seat(r) /\ TypeOK /\ o # None
  BY NoneIsFresh DEF SeatInv, TypeInv
<1>2. posLock'[p] = o
  BY <1>1 DEF Commit, Release, TypeOK
<1>3. p \notin tx[r].archPos
  BY <1>1 DEF Seat, Owner
<1>4. ASSUME HasSeat(r) PROVE arg[r].pos # p
  BY <1>1, <1>4 DEF Seat, Owner
<1>5. \A u \in User : <<u, p>> \in members' => <<u, p>> \in members
  BY <1>4, CommitEffect
<1>. QED
  BY <1>2, <1>3, <1>5 DEF Commit

\* A commit leaves every other assignment its seat.
LEMMA CommitSeat ==
  ASSUME TypeInv, SeatInv, NEW r \in Request, Commit(r)
  PROVE  SeatInv'
<1>1. ASSUME NEW o \in Request \ {r} PROVE Seat(o)'
  <2> DEFINE p == arg[o].pos
  <2>1. Seat(o) /\ TypeOK /\ tx[o].archPos \subseteq Position
    BY DEF SeatInv, TypeInv, TypeOK, Buffer
  <2>2. /\ pc'[o] = pc[o] /\ arg'[o] = arg[o] /\ tx'[o] = tx[o]
        /\ seen'[o].count = seen[o].count
        /\ seen'[o].positions = seen[o].positions
    BY <2>1 DEF Commit, Release, Goto, TypeOK, Reads
  <2>3. Owner(o)'
    BY <2>1, <2>2, CommitSpares, OwnedPosition
       DEF Seat, Owner, Decides, Decided, HasSeat
  <2>4. ASSUME Decides(o) \/ HasSeat(o)
        PROVE  /\ p \in Position /\ arg[o].user \in User /\ posLock[p] = o
               /\ p \in archivedPos' => p \in archivedPos
               /\ Holders(members', p) \subseteq Holders(members, p)
               /\ <<arg[o].user, p>> \in members'
                    => <<arg[o].user, p>> \in members
               /\ Cardinality(Holders(members', p))
                    <= Cardinality(Holders(members, p))
               /\ Cardinality(Holders(members', p)) \in Nat
               /\ Cardinality(Holders(members, p)) \in Nat
    <3>1. p \in Position /\ arg[o].user \in User /\ posLock[p] = o
      BY <2>1, <2>4, OwnedPosition DEF Seat, Owner
    <3>2. /\ p \in archivedPos' => p \in archivedPos
          /\ \A u \in User : <<u, p>> \in members' => <<u, p>> \in members
      BY <3>1, CommitSpares
    <3>3. Holders(members', p) \subseteq Holders(members, p)
      BY <3>2 DEF Holders
    <3>. QED
      BY <3>1, <3>2, <3>3, HoldersFacts
  <2>5. Reader(o)'
    <3>1. Decides(o)' => seen'[o].positions \subseteq {p} \ archivedPos'
      BY <2>1, <2>2, <2>4 DEF Seat, Reader, Decides, Decided
    <3>2. seen[o].count \in Nat
      BY <2>1 DEF TypeOK, Reads
    <3>3. pc[o] = "check_assign" \/ Decided(o) =>
            Cardinality(Holders(members', p)) <= seen[o].count
      BY <2>1, <2>4, <3>2 DEF Seat, Reader, Decides, Decided
    <3>. QED
      BY <2>1, <2>2, <3>1, <3>3 DEF Seat, Reader, Decided
  <2>6. Writer(o)'
    <3>1. ASSUME HasSeat(o) PROVE FreeSeat(p)'
      <4>1. FreeSeat(p) /\ Limit[p] \in Nat
        BY <2>1, <2>4, <3>1, LimitType DEF Seat, Writer
      <4>. QED
        BY <2>2, <2>4, <3>1, <4>1 DEF FreeSeat
    <3>. QED
      BY <2>1, <2>2, <2>4, <3>1 DEF Seat, Writer, HasSeat, FreeSeat
  <2>. QED
    BY <2>3, <2>5, <2>6 DEF Seat
<1>. QED
  BY <1>1, ReleaseSeat DEF SeatInv, Commit

\* SeatInv is inductive.
LEMMA NextSeat == TypeInv /\ SeatInv /\ [Next]_vars => SeatInv'
<1> SUFFICES ASSUME TypeInv, SeatInv, [Next]_vars PROVE SeatInv'
  OBVIOUS
<1>1. ASSUME NEW r \in Request, Step(r) PROVE SeatInv'
  BY <1>1, LockPositionSeat, CountMembersSeat, CheckAssignSeat,
     InsertMembershipSeat, OtherStatements, ReadClockSeat, InsertEventSeat, CommitSeat,
     RollbackSeat
     DEF Step, AssignStep, RemoveStep, CascadeStep, RefuseAssign, RefuseRemove,
         ArchiveNoop
<1>2. ASSUME NEW r \in Request, Begin(r) \/ Step(r) \/ Fail(r) PROVE SeatInv'
  BY <1>1, <1>2, BeginSeat, RollbackSeat DEF Fail
<1>3. CASE UNCHANGED vars
  BY <1>3 DEF SeatInv, Seat, Owner, Reader, Writer, HasSeat, Decides, Decided, FreeSeat,
              vars, tables, locks
<1>. QED
  BY <1>2, <1>3 DEF Next, Quiet

-----------------------------------------------------------------------------
(* Only a commit changes a table.                                           *)

\* Statements before the commit are invisible in the tables.
LEMMA OnlyCommits ==
  ASSUME TypeInv, [Next]_vars
  PROVE  UNCHANGED tables \/ \E r \in Request : Commit(r)
<1>1. ASSUME NEW r \in Request, Begin(r) PROVE UNCHANGED tables
  BY <1>1 DEF Begin, BeginAssign, BeginRemove, BeginCreatePosition,
              BeginArchivePosition, BeginArchiveDivision, Start
<1>2. ASSUME NEW r \in Request, Step(r), ~Commit(r) PROVE UNCHANGED tables
  BY <1>2 DEF Step, AssignStep, LockPosition, CountMembers, CheckAssign,
              RefuseAssign, InsertMembership, RemoveStep, CheckRemove,
              RefuseRemove, FinishRemove, DeleteStep, DeleteMemberships,
              DeleteRow, InsertPosition, ArchivePosition, CascadeStep,
              ListSubtree, ArchiveNoop, ScanPositions, ScanChildren,
              ArchiveScannedPosition, ArchiveScannedChild, ArchiveRoot,
              ReadClock, InsertEvent, Rollback
<1>3. ASSUME NEW r \in Request, Fail(r) PROVE UNCHANGED tables
  BY <1>3 DEF Fail, Rollback
<1>4. CASE UNCHANGED vars
  BY <1>4 DEF vars
<1>. QED
  BY <1>1, <1>2, <1>3, <1>4 DEF Next, Quiet

\* A commit that fills a seat finds one free.
LEMMA NextCapacity ==
  TypeInv /\ SeatInv /\ MaxCountRespected /\ [Next]_vars => MaxCountRespected'
<1> SUFFICES ASSUME TypeInv, SeatInv, MaxCountRespected, [Next]_vars,
                    NEW p \in Position
             PROVE  WithinLimit(members', p)
  BY DEF MaxCountRespected
<1>1. WithinLimit(members, p) /\ Limit[p] \in Nat
  BY LimitType DEF MaxCountRespected
<1>2. ASSUME Holders(members', p) \subseteq Holders(members, p)
      PROVE  WithinLimit(members', p)
  BY <1>1, <1>2, HoldersFacts DEF WithinLimit
<1>3. ASSUME NEW r \in Request, Commit(r), HasSeat(r), arg[r].pos = p,
             members' = members \cup {<<arg[r].user, p>>}
      PROVE  WithinLimit(members', p)
  <2>1. FreeSeat(p)
    BY <1>3 DEF SeatInv, Seat, Writer
  <2>2. Holders(members', p) \subseteq Holders(members, p) \cup {arg[r].user}
    BY <1>3 DEF Holders
  <2>3. IsFiniteSet(Holders(members, p))
    BY HoldersFacts
  <2>4. /\ IsFiniteSet(Holders(members, p) \cup {arg[r].user})
        /\ Cardinality(Holders(members, p) \cup {arg[r].user})
             <= Cardinality(Holders(members, p)) + 1
        /\ Cardinality(Holders(members, p)) \in Nat
        /\ Cardinality(Holders(members, p) \cup {arg[r].user}) \in Nat
    <3>1. Cardinality(Holders(members, p)) \in Nat
      BY <2>3, FS_CardinalityType
    <3>. QED
      BY <2>3, <3>1, FS_AddElement
  <2>5. Cardinality(Holders(members', p))
          <= Cardinality(Holders(members, p) \cup {arg[r].user})
        /\ Cardinality(Holders(members', p)) \in Nat
    BY <2>2, <2>4, FS_Subset, CountTypes
  <2>. QED
    BY <1>1, <2>1, <2>4, <2>5 DEF FreeSeat, WithinLimit
<1>4. ASSUME NEW r \in Request, Commit(r) PROVE WithinLimit(members', p)
  <2>1. CASE HasSeat(r) /\ arg[r].pos = p
    BY <1>3, <1>4, <2>1, CommitEffect
  <2>2. CASE ~(HasSeat(r) /\ arg[r].pos = p)
    BY <1>2, <1>4, <2>2, CommitEffect DEF Holders
  <2>. QED
    BY <2>1, <2>2
<1>5. CASE UNCHANGED tables
  BY <1>1, <1>5 DEF tables
<1>. QED
  BY <1>4, <1>5, OnlyCommits

\* The initial memberships respect max_count.
LEMMA InitCapacity == Init => MaxCountRespected
BY InitialMembersType DEF Init, MaxCountRespected

\* No position ever has more members than its max_count, however many requests
\* assign to it, remove from it and archive it at the same time.
THEOREM CapacityHolds == Spec => []MaxCountRespected
<1>. QED
  BY InitTypeInv, InitSeatInv, InitCapacity, NextTypes, NextSeat, NextCapacity,
     PTL DEF Spec

\* The instance counts with the same Cardinality.
LEMMA SameCardinality == \A S : Seats!Cardinality(S) = Cardinality(S)
BY DEF Seats!Cardinality, Cardinality, Seats!IsFiniteSet, IsFiniteSet

\* A commit is one step of the seat store, any other step a stutter.
LEMMA SeatStep ==
  TypeInv /\ TypeInv' /\ SeatInv /\ [Next]_vars
    => [Seats!Next]_Seats!seats
<1> SUFFICES ASSUME TypeInv, TypeInv', SeatInv, [Next]_vars
             PROVE  [Seats!Next]_Seats!seats
  OBVIOUS
<1>1. ASSUME NEW r \in Request, Commit(r), HasSeat(r),
             members' = members \cup {<<arg[r].user, arg[r].pos>>},
             archivedPos' = archivedPos
      PROVE  Seats!Next
  <2>1. arg[r].user \in User /\ arg[r].pos \in Position
    BY <1>1, OwnedPosition
  <2>2. Writer(r)
    BY DEF SeatInv, Seat
  <2>3. Seats!HoldersOf(arg[r].pos) = Holders(members, arg[r].pos)
    BY DEF Seats!HoldersOf, Holders
  <2>4. Seats!CanAssign(arg[r].pos)
    BY <1>1, <2>2, <2>3, SameCardinality DEF Seats!CanAssign, Writer, FreeSeat
  <2>5. Seats!Assign(arg[r].user, arg[r].pos)
    BY <1>1, <2>2, <2>4 DEF Seats!Assign, Writer
  <2>. QED
    BY <2>1, <2>5 DEF Seats!Next
<1>2. ASSUME members' \subseteq members, archivedPos \subseteq archivedPos'
      PROVE  Seats!Next
  BY <1>2 DEF Seats!Next, Seats!Withdraw, TypeInv, TypeOK
<1>3. ASSUME NEW r \in Request, Commit(r) PROVE Seats!Next
  BY <1>1, <1>2, <1>3, CommitEffect
<1>4. CASE UNCHANGED tables
  BY <1>4 DEF tables, Seats!seats
<1>. QED
  BY <1>3, <1>4, OnlyCommits

\* Whatever the interleaving, the committed personnel tables change like the
\* sequential seat store: one assignment at a time, to an open position with a
\* free seat.
THEOREM ImplementsSeats == Spec => SeatsSpec
<1>1. Init => Seats!Init
  BY DEF Init, Seats!Init
<1>. QED
  BY <1>1, InitTypeInv, InitSeatInv, NextTypes, NextSeat, SeatStep, PTL
     DEF Spec, SeatsSpec, Seats!Spec

-----------------------------------------------------------------------------
(* What event_log says of the personnel tables: nothing is removed without  *)
(* its entry, a division is archived once, and the counts of the payloads   *)
(* are what the commits change.                                             *)

\* The entry that InsertEvent builds from the buffer.
Entry(r) == [op |-> arg[r].op, user |-> arg[r].user, pos |-> arg[r].pos,
             div |-> arg[r].div, at |-> seen[r].at,
             removed |-> Cardinality(tx[r].delete),
             archived |-> Cardinality(tx[r].archPos)]

\* A buffer has its entry when it is ready to be committed, and not before.
Logs(r) == tx[r].events = IF pc[r] = "commit" THEN <<Entry(r)>> ELSE <<>>

\* A position is created by one request, and nobody works on it before.
Creates(r) ==
  /\ arg[r].op = "create_position" =>
       /\ arg[r].pos \in Position /\ home[arg[r].pos] = None
       /\ \A o \in Request \ {r} : arg[o].pos # arg[r].pos
  /\ tx[r].create # {} =>
       arg[r].op = "create_position" /\ tx[r].create = {arg[r].pos}

\* Rows deleted, or about to be, are rows the operation is about.
Deletes(r) ==
  /\ tx[r].delete \cup seen[r].rows \subseteq DeleteTargets(arg[r])
  /\ pc[r] # "deleting" => seen[r].rows = {}

\* Row locks: of two transactions one deletes a row.
DeletesAlone(r) == \A o \in Request \ {r} : tx[r].delete \cap tx[o].delete = {}

\* A cascade archives only what it has locked and what was not archived.
Archives(r) ==
  /\ \A d \in tx[r].archDiv : divLock[d] = r /\ d \notin archivedDiv
  /\ arg[r].op = "archive_division" => tx[r].archPos \cap archivedPos = {}
  /\ pc[r] \in {"read_clock", "insert_event", "commit"} /\ arg[r].op = "archive_division" =>
       arg[r].div \in tx[r].archDiv

Ledger(r) == Logs(r) /\ Creates(r) /\ Deletes(r) /\ DeletesAlone(r) /\ Archives(r)

\* A division with an entry is archived.
LoggedAreArchived ==
  \A i \in DOMAIN eventLog :
    eventLog[i].op = "archive_division" => eventLog[i].div \in archivedDiv

LedgerInv == \A r \in Request : Ledger(r)

LogInv == LedgerInv /\ LoggedAreArchived /\ DivisionArchivedOnce

-----------------------------------------------------------------------------
(* The steps that write no table.                                           *)

\* At the start the log is empty and nobody is at work.
LEMMA InitLogInv == Init => LogInv
<1> SUFFICES ASSUME Init PROVE LogInv
  OBVIOUS
<1>1. eventLog = <<>>
  BY DEF Init
<1>2. LoggedAreArchived /\ DivisionArchivedOnce
  BY <1>1 DEF LoggedAreArchived, DivisionArchivedOnce
<1>3. ASSUME NEW r \in Request PROVE Ledger(r)
  BY NoneIsFresh
     DEF Init, Ledger, Logs, Creates, Deletes, DeletesAlone, Archives, NoArgument,
         NoReads, NoWrites, Operation
<1> QED
  BY <1>2, <1>3 DEF LogInv, LedgerInv

\* A step of r that writes no table: it leaves the other requests as they were.
Beside(r) ==
  /\ UNCHANGED tables
  /\ \A o \in Request \ {r} : /\ pc'[o] = pc[o] /\ arg'[o] = arg[o]
                              /\ seen'[o] = seen[o] /\ tx'[o] = tx[o]
                              /\ \A d \in Division : divLock[d] = o => divLock'[d] = o

\* They keep what they have if r deletes none of their rows and does not
\* work on a position they create.
LEMMA OthersKeepLedger ==
  ASSUME TypeInv, LedgerInv, NEW r \in Request, NEW o \in Request \ {r}, Beside(r),
         tx[o].delete \cap tx'[r].delete = {},
         arg[o].op = "create_position" => arg'[r].pos # arg[o].pos
  PROVE  Ledger(o)'
<1>1. Ledger(o) /\ TypeOK /\ tx[o] \in Buffer
  BY DEF LedgerInv, TypeInv, TypeOK
<1>2. /\ pc'[o] = pc[o] /\ arg'[o] = arg[o] /\ seen'[o] = seen[o] /\ tx'[o] = tx[o]
      /\ \A d \in Division : divLock[d] = o => divLock'[d] = o
      /\ home' = home /\ members' = members /\ archivedPos' = archivedPos
      /\ archivedDiv' = archivedDiv
  BY DEF Beside, tables
<1>3. Logs(o)'
  BY <1>1, <1>2 DEF Ledger, Logs, Entry
<1>4. Creates(o)'
  <2>1. ASSUME arg[o].op = "create_position", NEW q \in Request \ {o}
        PROVE  arg'[q].pos # arg[o].pos
    BY <1>1, <2>1 DEF Ledger, Creates, Beside
  <2> QED
    BY <1>1, <1>2, <2>1 DEF Ledger, Creates
<1>5. Deletes(o)'
  BY <1>1, <1>2 DEF Ledger, Deletes, DeleteTargets
<1>6. DeletesAlone(o)'
  BY <1>1, <1>2 DEF Ledger, DeletesAlone, Beside
<1>7. Archives(o)'
  BY <1>1, <1>2 DEF Ledger, Archives, Buffer
<1> QED
  BY <1>3, <1>4, <1>5, <1>6, <1>7 DEF Ledger

\* So it is enough to look at r.
LEMMA LedgerOfOne ==
  ASSUME TypeInv, LogInv, NEW r \in Request, Beside(r), Ledger(r)',
         \A o \in Request \ {r} : arg[o].op = "create_position" => arg'[r].pos # arg[o].pos
  PROVE  LogInv'
<1>1. ASSUME NEW o \in Request \ {r} PROVE Ledger(o)'
  <2>1. tx'[o] = tx[o] /\ tx'[r].delete \cap tx'[o].delete = {}
    BY DEF Beside, Ledger, DeletesAlone
  <2> QED
    BY <2>1, OthersKeepLedger DEF LogInv
<1>2. LoggedAreArchived' /\ DivisionArchivedOnce'
  BY DEF LogInv, Beside, tables, LoggedAreArchived, DivisionArchivedOnce
<1> QED
  BY <1>1, <1>2 DEF LogInv, LedgerInv

\* A position that a request creates is not one that another could find.
LEMMA CreatedIsNew ==
  ASSUME LogInv, NEW r \in Request, NEW o \in Request \ {r},
         arg[o].op = "create_position"
  PROVE  arg[o].pos \in Position /\ home[arg[o].pos] = None /\ arg[r].pos # arg[o].pos
BY DEF LogInv, LedgerInv, Ledger, Creates

\* A request that starts has written and read nothing.
LEMMA StartLog ==
  ASSUME TypeInv, LogInv, NEW r \in Request, NEW a \in Argument,
         NEW label \in Label \ {"deleting", "insert_event", "commit"},
         Start(r, a, label),
         label = "read_clock" => a.op = "create_position",
         a.op = "create_position" =>
           /\ a.pos \in Position /\ home[a.pos] = None
           /\ \A o \in Request : arg[o].pos # a.pos,
         \A o \in Request \ {r} : arg[o].op = "create_position" => a.pos # arg[o].pos
  PROVE  LogInv'
<1>1. TypeOK /\ Control(r) /\ Ledger(r)
  BY DEF TypeInv, ControlInv, LogInv, LedgerInv
<1>2. /\ pc[r] = "idle" /\ pc'[r] = label /\ arg'[r] = a /\ Beside(r)
      /\ UNCHANGED <<tables, divLock>> /\ seen' = seen /\ tx' = tx
  BY <1>1 DEF Start, Goto, Beside, tables, locks, TypeOK
<1>3. tx[r] = NoWrites /\ seen[r].rows = {}
  BY <1>1, <1>2 DEF Control, Ledger, Deletes
<1>4. Ledger(r)'
  BY <1>1, <1>2, <1>3
     DEF Ledger, Logs, Creates, Deletes, DeletesAlone, Archives, NoWrites, Beside, tables
<1> QED
  BY <1>2, <1>4, LedgerOfOne

\* The handlers give a request a position that exists, or a new one.
LEMMA BeginLog ==
  ASSUME TypeInv, LogInv, NEW r \in Request, Begin(r)
  PROVE  LogInv'
<1>1. {"lock_position", "check_remove", "read_clock", "delete_memberships",
       "list_subtree"} \subseteq Label \ {"deleting", "insert_event", "commit"}
  BY DEF Label
<1>2. ASSUME NEW u \in User, NEW p \in Position,
             BeginAssign(r, u, p) \/ BeginRemove(r, u, p)
      PROVE  LogInv'
  <2> DEFINE a(op) == [op |-> op, user |-> u, pos |-> p, div |-> None]
  <2>1. a("assign") \in Argument /\ a("remove") \in Argument
    BY DEF Argument, Operation
  <2>2. home[p] # None
    BY <1>2 DEF BeginAssign, BeginRemove
  <2> QED
    BY <1>1, <1>2, <2>1, <2>2, StartLog, CreatedIsNew DEF BeginAssign, BeginRemove
<1>3. ASSUME NEW p \in Position, NEW d \in Division, BeginCreatePosition(r, p, d)
      PROVE  LogInv'
  <2> DEFINE a == [op |-> "create_position", user |-> None, pos |-> p, div |-> d]
  <2>1. a \in Argument
    BY DEF Argument, Operation
  <2>2. home[p] = None /\ \A o \in Request : arg[o].pos # p
    BY <1>3 DEF BeginCreatePosition
  <2> QED
    BY <1>1, <1>3, <2>1, <2>2, StartLog DEF BeginCreatePosition
<1>4. ASSUME NEW p \in Position, BeginArchivePosition(r, p)
      PROVE  LogInv'
  <2> DEFINE a == [op |-> "archive_position", user |-> None, pos |-> p, div |-> None]
  <2>1. a \in Argument
    BY DEF Argument, Operation
  <2>2. home[p] # None
    BY <1>4 DEF BeginArchivePosition
  <2> QED
    BY <1>1, <1>4, <2>1, <2>2, StartLog, CreatedIsNew DEF BeginArchivePosition
<1>5. ASSUME NEW d \in Division, BeginArchiveDivision(r, d)
      PROVE  LogInv'
  <2> DEFINE a == [op |-> "archive_division", user |-> None, pos |-> None, div |-> d]
  <2>1. a \in Argument
    BY DEF Argument, Operation
  <2>2. \A o \in Request \ {r} : arg[o].op = "create_position" => None # arg[o].pos
    BY CreatedIsNew, NoneIsFresh
  <2> QED
    BY <1>1, <1>5, <2>1, <2>2, StartLog DEF BeginArchiveDivision
<1> QED
  BY <1>2, <1>3, <1>4, <1>5 DEF Begin

\* A request that has ended has nothing left to log.
LEMMA ReleaseLedger ==
  ASSUME TypeInv, NEW r \in Request, Release(r), seen'[r] = NoReads
  PROVE  /\ Ledger(r)' /\ arg'[r].pos = None /\ tx'[r].delete = {} /\ pc'[r] = "idle"
         /\ \A o \in Request \ {r} :
              /\ pc'[o] = pc[o] /\ arg'[o] = arg[o] /\ tx'[o] = tx[o]
              /\ \A d \in Division : divLock[d] = o => divLock'[d] = o
<1>1. TypeOK
  BY DEF TypeInv
<1>2. pc'[r] = "idle" /\ arg'[r] = NoArgument /\ tx'[r] = NoWrites
  BY <1>1 DEF Release, Goto, TypeOK
<1>3. \A o \in Request \ {r} :
        /\ pc'[o] = pc[o] /\ arg'[o] = arg[o] /\ tx'[o] = tx[o]
        /\ \A d \in Division : divLock[d] = o => divLock'[d] = o
  BY <1>1 DEF Release, Goto, TypeOK
<1>4. Ledger(r)'
  BY <1>2, NoneIsFresh
     DEF Ledger, Logs, Creates, Deletes, DeletesAlone, Archives, NoArgument,
         NoReads, NoWrites, Operation
<1> QED
  BY <1>2, <1>3, <1>4 DEF NoArgument, NoWrites

\* A rollback leaves no entry and no change.
LEMMA RollbackLog ==
  ASSUME TypeInv, LogInv, NEW r \in Request, Rollback(r)
  PROVE  LogInv'
<1>1. seen'[r] = NoReads /\ \A o \in Request \ {r} : seen'[o] = seen[o]
  BY DEF Rollback, TypeInv, TypeOK
<1>2. Beside(r) /\ Ledger(r)' /\ arg'[r].pos = None
  BY <1>1, ReleaseLedger DEF Rollback, Beside
<1>3. \A o \in Request \ {r} : arg[o].op = "create_position" => arg'[r].pos # arg[o].pos
  BY <1>2, CreatedIsNew, NoneIsFresh
<1> QED
  BY <1>2, <1>3, LedgerOfOne

-----------------------------------------------------------------------------
(* The statements between the first and the commit.                         *)

\* What a statement of r that keeps its argument has to show.
LEMMA StatementLog ==
  ASSUME TypeInv, LogInv, NEW r \in Request, Beside(r), arg' = arg, Ledger(r)'
  PROVE  LogInv'
BY LedgerOfOne, CreatedIsNew

\* Statements that read, lock, insert and create.
LEMMA QuietLog ==
  ASSUME TypeInv, LogInv, NEW r \in Request,
         \/ LockPosition(r) \/ CountMembers(r) \/ CheckAssign(r) \/ InsertMembership(r)
         \/ CheckRemove(r) \/ FinishRemove(r) \/ InsertPosition(r)
         \/ ListSubtree(r) \/ ScanPositions(r) \/ ScanChildren(r) \/ ReadClock(r)
  PROVE  LogInv'
<1> USE DEF LockPosition, CountMembers, CheckAssign, InsertMembership, CheckRemove,
            FinishRemove, InsertPosition, ListSubtree, ScanPositions, ScanChildren,
            ReadClock, Deleted, Goto
<1>1. TypeOK /\ Control(r) /\ Ledger(r) /\ tx[r] \in Buffer /\ seen[r] \in Reads
  BY DEF TypeInv, TypeOK, ControlInv, LogInv, LedgerInv
<1>2. Beside(r) /\ UNCHANGED <<tables, divLock>> /\ arg' = arg
  <2>1. UNCHANGED <<tables, divLock>> /\ arg' = arg
    BY DEF tables, locks
  <2>2. \A o \in Request \ {r} : pc'[o] = pc[o]
    BY <1>1 DEF TypeOK
  <2>3. \A o \in Request \ {r} : seen'[o] = seen[o]
    BY <1>1 DEF TypeOK
  <2>4. \A o \in Request \ {r} : tx'[o] = tx[o]
    BY <1>1 DEF TypeOK
  <2> HIDE DEF LockPosition, CountMembers, CheckAssign, InsertMembership, CheckRemove,
              FinishRemove, InsertPosition, ListSubtree, ScanPositions, ScanChildren, ReadClock
  <2> QED
    BY <2>1, <2>2, <2>3, <2>4 DEF Beside
<1>3. seen[r].rows = {} /\ seen'[r].rows = {}
  <2>1. seen[r].rows = {}
    <3>1. pc[r] # "deleting" \/ seen[r].rows = {}
      OBVIOUS
    <3> QED
      BY <1>1, <3>1 DEF Ledger, Deletes
  <2>2. seen'[r].rows = seen[r].rows
    BY <1>1 DEF TypeOK, Reads
  <2> QED
    BY <2>1, <2>2
<1>4. pc[r] # "commit" /\ pc'[r] \notin {"deleting", "commit"}
  BY <1>1 DEF TypeOK, Control, Operation, AfterClock
<1>5. /\ tx'[r].delete = tx[r].delete /\ tx'[r].archPos = tx[r].archPos
      /\ tx'[r].archDiv = tx[r].archDiv /\ tx'[r].events = tx[r].events
  BY <1>1 DEF TypeOK, Buffer
<1>6. \/ tx'[r].create = tx[r].create
      \/ arg[r].op = "create_position" /\ tx'[r].create = {arg[r].pos}
  BY <1>1 DEF TypeOK, Buffer, Control
<1>7. arg[r].op = "archive_division" /\ pc'[r] \in {"read_clock", "insert_event"} =>
        pc[r] = "read_clock"
  BY <1>1 DEF TypeOK, Control, AssignLabel
<1> HIDE DEF LockPosition, CountMembers, CheckAssign, InsertMembership, CheckRemove,
            FinishRemove, InsertPosition, ListSubtree, ScanPositions, ScanChildren, ReadClock
<1>8. Logs(r)' /\ Deletes(r)' /\ Archives(r)'
  BY <1>1, <1>2, <1>3, <1>4, <1>5, <1>7
     DEF Ledger, Logs, Deletes, DeleteTargets, Archives, tables
<1>9. Creates(r)'
  BY <1>1, <1>2, <1>6 DEF Ledger, Creates, tables
<1>10. DeletesAlone(r)'
  BY <1>1, <1>2, <1>5 DEF Ledger, DeletesAlone, Beside
<1> QED
  BY <1>2, <1>8, <1>9, <1>10, StatementLog DEF Ledger

\* The DELETE takes rows of its snapshot that nobody else deletes.
LEMMA DeleteLog ==
  ASSUME TypeInv, LogInv, NEW r \in Request,
         DeleteMemberships(r) \/ \E m \in Membership : DeleteRow(r, m)
  PROVE  LogInv'
<1>1. TypeOK /\ Control(r) /\ Ledger(r) /\ tx[r] \in Buffer /\ seen[r] \in Reads
  BY DEF TypeInv, TypeOK, ControlInv, LogInv, LedgerInv
<1>2. CASE DeleteMemberships(r)
  <2>1. /\ Beside(r) /\ UNCHANGED <<tables, divLock>> /\ arg' = arg /\ tx' = tx
        /\ pc[r] = "delete_memberships" /\ pc'[r] = "deleting"
    BY <1>1, <1>2 DEF DeleteMemberships, Goto, Beside, tables, locks, TypeOK
  <2>2. seen'[r].rows = DeleteTargets(arg[r])
    BY <1>1, <1>2 DEF DeleteMemberships, TypeOK, Reads
  <2>3. Deletes(r)'
    BY <1>1, <2>1, <2>2 DEF Ledger, Deletes, DeleteTargets, tables
  <2>4. Logs(r)' /\ Creates(r)' /\ DeletesAlone(r)' /\ Archives(r)'
    BY <1>1, <2>1 DEF Ledger, Logs, Creates, DeletesAlone, Archives, Beside, tables
  <2> QED
    BY <2>1, <2>3, <2>4, StatementLog DEF Ledger
<1>3. ASSUME NEW m \in Membership, DeleteRow(r, m)
      PROVE  LogInv'
  <2>1. /\ Beside(r) /\ UNCHANGED <<tables, divLock>> /\ arg' = arg /\ pc' = pc
        /\ pc[r] = "deleting" /\ m \in seen[r].rows
        /\ \A o \in Request \ {r} : m \notin tx[o].delete
    BY <1>1, <1>3 DEF DeleteRow, Beside, tables, locks, TypeOK
  <2>2. /\ tx'[r].delete = tx[r].delete \cup {m}
        /\ tx'[r].create = tx[r].create /\ tx'[r].archPos = tx[r].archPos
        /\ tx'[r].archDiv = tx[r].archDiv /\ tx'[r].events = tx[r].events
        /\ seen'[r].rows = seen[r].rows \ {m}
    BY <1>1, <1>3 DEF DeleteRow, TypeOK, Buffer, Reads
  <2>3. Deletes(r)'
    BY <1>1, <2>1, <2>2 DEF Ledger, Deletes, DeleteTargets, tables
  <2>4. DeletesAlone(r)'
    BY <1>1, <2>1, <2>2 DEF Ledger, DeletesAlone, Beside
  <2>5. Logs(r)' /\ Creates(r)' /\ Archives(r)'
    BY <1>1, <2>1, <2>2 DEF Ledger, Logs, Creates, Archives, Beside, tables
  <2> QED
    BY <2>1, <2>3, <2>4, <2>5, StatementLog DEF Ledger
<1> QED
  BY <1>2, <1>3

\* What is archived in the transaction is locked by it, if it was not archived.
LEMMA ArchiveLog ==
  ASSUME TypeInv, LogInv, NEW r \in Request,
         \/ ArchivePosition(r) \/ ArchiveRoot(r)
         \/ \E p \in Position : ArchiveScannedPosition(r, p)
         \/ \E d \in Division : ArchiveScannedChild(r, d)
  PROVE  LogInv'
<1>1. TypeOK /\ Control(r) /\ Ledger(r) /\ tx[r] \in Buffer /\ seen[r] \in Reads
  BY DEF TypeInv, TypeOK, ControlInv, LogInv, LedgerInv
<1> DEFINE Same == /\ tx'[r].delete = tx[r].delete /\ tx'[r].create = tx[r].create
                   /\ tx'[r].events = tx[r].events
                   /\ seen'[r].rows = seen[r].rows
                   /\ pc[r] # "commit" /\ pc'[r] # "commit"
                   /\ pc'[r] = "deleting" => pc[r] = "deleting"
                   /\ pc[r] = "deleting" => seen[r].rows = {}
<1>2. ASSUME Beside(r), arg' = arg, tables' = tables, Same, Archives(r)'
      PROVE  LogInv'
  <2>1. Logs(r)' /\ Creates(r)'
    BY <1>1, <1>2 DEF Ledger, Logs, Creates, tables
  <2>2. Deletes(r)' /\ DeletesAlone(r)'
    BY <1>1, <1>2 DEF Ledger, Deletes, DeleteTargets, DeletesAlone, Beside, tables
  <2> QED
    BY <1>2, <2>1, <2>2, StatementLog DEF Ledger
<1>3. CASE ArchivePosition(r)
  <2>1. /\ Beside(r) /\ arg' = arg /\ tables' = tables /\ divLock' = divLock
        /\ arg[r].op = "archive_position"
    BY <1>1, <1>3 DEF ArchivePosition, Deleted, Goto, Beside, tables, TypeOK
  <2>2. Same /\ tx'[r].archDiv = tx[r].archDiv
    BY <1>1, <1>3 DEF ArchivePosition, Deleted, Goto, TypeOK, Buffer
  <2>3. Archives(r)'
    BY <1>1, <2>1, <2>2 DEF Ledger, Archives, tables
  <2> QED
    BY <1>2, <2>1, <2>2, <2>3
<1>4. ASSUME NEW p \in Position, ArchiveScannedPosition(r, p) PROVE LogInv'
  <2>1. /\ Beside(r) /\ arg' = arg /\ tables' = tables /\ divLock' = divLock
        /\ pc[r] = "archiving_positions" /\ pc' = pc
    BY <1>1, <1>4 DEF ArchiveScannedPosition, Beside, tables, TypeOK
  <2>2. /\ Same /\ tx'[r].archDiv = tx[r].archDiv
        /\ tx'[r].archPos = tx[r].archPos \cup ({p} \ archivedPos)
    BY <1>1, <1>4 DEF ArchiveScannedPosition, TypeOK, Buffer, Reads
  <2>3. Archives(r)'
    BY <1>1, <2>1, <2>2 DEF Ledger, Archives, tables
  <2> QED
    BY <1>2, <2>1, <2>2, <2>3
<1>5. ASSUME NEW d \in Division, NEW N \in SUBSET {d}, N \cap archivedDiv = {},
             Unlocked(divLock, d, r), divLock' = [divLock EXCEPT ![d] = r]
      PROVE  /\ \A o \in Request \ {r}, x \in Division : divLock[x] = o => divLock'[x] = o
             /\ \A x \in tx[r].archDiv \cup N : divLock'[x] = r /\ x \notin archivedDiv
  <2>1. divLock'[d] = r /\ \A x \in Division \ {d} : divLock'[x] = divLock[x]
    BY <1>1, <1>5 DEF TypeOK
  <2>2. \A x \in tx[r].archDiv : x \in Division /\ divLock[x] = r /\ x \notin archivedDiv
    BY <1>1 DEF Ledger, Archives, Buffer
  <2>3. \A o \in Request \ {r} : o # None
    BY NoneIsFresh
  <2> QED
    BY <1>5, <2>1, <2>2, <2>3 DEF Unlocked
<1>6. ASSUME NEW d \in Division, ArchiveScannedChild(r, d) PROVE LogInv'
  <2>1. /\ arg' = arg /\ tables' = tables /\ pc[r] = "archiving_children" /\ pc' = pc
        /\ Unlocked(divLock, d, r) /\ divLock' = [divLock EXCEPT ![d] = r]
    BY <1>6 DEF ArchiveScannedChild
  <2>2. /\ Same /\ tx'[r].archPos = tx[r].archPos
        /\ tx'[r].archDiv = tx[r].archDiv \cup ({d} \ archivedDiv)
    BY <1>1, <1>6 DEF ArchiveScannedChild, TypeOK, Buffer, Reads
  <2>3. /\ \A o \in Request \ {r}, x \in Division : divLock[x] = o => divLock'[x] = o
        /\ \A x \in tx'[r].archDiv : divLock'[x] = r /\ x \notin archivedDiv
    <3> DEFINE N == {d} \ archivedDiv
    <3>1. N \in SUBSET {d} /\ N \cap archivedDiv = {} /\ tx'[r].archDiv = tx[r].archDiv \cup N
      BY <2>2
    <3> HIDE DEF N
    <3> QED
      BY <1>5, <2>1, <3>1
  <2>4. Beside(r)
    BY <1>1, <1>6, <2>1, <2>3 DEF ArchiveScannedChild, Beside, TypeOK
  <2>5. Archives(r)'
    BY <1>1, <2>1, <2>2, <2>3 DEF Ledger, Archives, tables
  <2> QED
    BY <1>2, <2>1, <2>2, <2>4, <2>5
<1>7. CASE ArchiveRoot(r)
  <2> DEFINE d == arg[r].div
  <2>1. /\ arg' = arg /\ tables' = tables /\ pc[r] = "archiving_children"
        /\ Unlocked(divLock, d, r) /\ divLock' = [divLock EXCEPT ![d] = r]
        /\ d \notin archivedDiv
    BY <1>7 DEF ArchiveRoot
  <2>2. d \in Division
    BY <1>1, <2>1 DEF Control
  <2>3. /\ Same /\ tx'[r].archPos = tx[r].archPos
        /\ tx'[r].archDiv = tx[r].archDiv \cup {d}
    BY <1>1, <1>7 DEF ArchiveRoot, Goto, TypeOK, Buffer
  <2>4. {d} \in SUBSET {d} /\ {d} \cap archivedDiv = {}
    BY <2>1
  <2>5. /\ \A o \in Request \ {r}, x \in Division : divLock[x] = o => divLock'[x] = o
        /\ \A x \in tx'[r].archDiv : divLock'[x] = r /\ x \notin archivedDiv
    BY <1>5, <2>1, <2>2, <2>3, <2>4
  <2>6. Beside(r)
    BY <1>1, <1>7, <2>1, <2>5 DEF ArchiveRoot, Goto, Beside, TypeOK
  <2>7. Archives(r)'
    BY <1>1, <2>1, <2>3, <2>5 DEF Ledger, Archives, tables
  <2> QED
    BY <1>2, <2>1, <2>3, <2>6, <2>7
<1> QED
  BY <1>3, <1>4, <1>6, <1>7

\* The entry says what the buffer has.
LEMMA InsertEventLog ==
  ASSUME TypeInv, LogInv, NEW r \in Request, InsertEvent(r)
  PROVE  LogInv'
<1>1. TypeOK /\ Ledger(r) /\ tx[r] \in Buffer
  BY DEF TypeInv, TypeOK, LogInv, LedgerInv
<1>2. /\ Beside(r) /\ UNCHANGED <<tables, divLock>> /\ arg' = arg /\ seen' = seen
      /\ pc[r] = "insert_event" /\ pc'[r] = "commit"
  BY <1>1 DEF InsertEvent, Goto, Beside, tables, locks, TypeOK
<1>3. /\ tx'[r].delete = tx[r].delete /\ tx'[r].create = tx[r].create
      /\ tx'[r].archPos = tx[r].archPos /\ tx'[r].archDiv = tx[r].archDiv
      /\ tx'[r].events = Append(tx[r].events, Entry(r))
  BY <1>1 DEF InsertEvent, TypeOK, Buffer, Entry
<1>4. Logs(r)'
  <2>1. tx[r].events = <<>> /\ Entry(r)' = Entry(r)
    BY <1>1, <1>2, <1>3 DEF Ledger, Logs, Entry
  <2>2. Append(<<>>, Entry(r)) = <<Entry(r)>>
    OBVIOUS
  <2> QED
    BY <1>2, <1>3, <2>1, <2>2 DEF Logs
<1>5. Creates(r)' /\ Deletes(r)' /\ Archives(r)'
  BY <1>1, <1>2, <1>3 DEF Ledger, Creates, Deletes, DeleteTargets, Archives, tables
<1>6. DeletesAlone(r)'
  BY <1>1, <1>2, <1>3 DEF Ledger, DeletesAlone, Beside
<1> QED
  BY <1>2, <1>4, <1>5, <1>6, StatementLog DEF Ledger

-----------------------------------------------------------------------------
(* The commit.                                                              *)

\* A commit appends the entry, and a position it creates was nobody's.
LEMMA CommitFacts ==
  ASSUME TypeInv, LogInv, NEW r \in Request, Commit(r)
  PROVE  /\ eventLog' = Append(eventLog, Entry(r))
         /\ Len(eventLog') = Len(eventLog) + 1 /\ DOMAIN eventLog' = 1 .. Len(eventLog) + 1
         /\ eventLog'[Len(eventLog) + 1] = Entry(r)
         /\ \A i \in DOMAIN eventLog : eventLog'[i] = eventLog[i]
         /\ \A p \in Position : home[p] # None => home'[p] = home[p]
         /\ \A p \in Position : tx[r].create # {p} => home'[p] = home[p]
<1>1. TypeOK /\ Ledger(r) /\ pc[r] = "commit"
  BY DEF TypeInv, LogInv, LedgerInv, Commit
<1>2. tx[r].events = <<Entry(r)>> /\ eventLog \in Seq(Event)
  BY <1>1 DEF Ledger, Logs, TypeOK
<1>3. eventLog' = eventLog \o <<Entry(r)>>
  BY <1>2 DEF Commit
<1> HIDE DEF Entry
<1>4. /\ eventLog' = Append(eventLog, Entry(r))
      /\ Len(eventLog') = Len(eventLog) + 1 /\ DOMAIN eventLog' = 1 .. Len(eventLog) + 1
      /\ eventLog'[Len(eventLog) + 1] = Entry(r)
      /\ \A i \in DOMAIN eventLog : eventLog'[i] = eventLog[i]
  BY <1>2, <1>3
<1>5. \A p \in Position : home[p] # None \/ tx[r].create # {p} => p \notin tx[r].create
  BY <1>1 DEF Ledger, Creates
<1>6. \A p \in Position : home[p] # None \/ tx[r].create # {p} => home'[p] = home[p]
  BY <1>1, <1>5 DEF Commit, TypeOK
<1> QED
  BY <1>4, <1>6

\* What a commit takes away is what its buffer has deleted.
LEMMA CommitRemoves ==
  ASSUME TypeInv, SeatInv, LogInv, NEW r \in Request, Commit(r)
  PROVE  /\ members \ members' = tx[r].delete
         /\ tx[r].insert \subseteq members'
         /\ arg[r].op = "assign" => <<arg[r].user, arg[r].pos>> \in members'
         /\ members' # members => tx[r].delete # {} \/ arg[r].op = "assign"
<1>1. Seat(r) /\ Ledger(r) /\ pc[r] = "commit"
      /\ members' = (members \ tx[r].delete) \cup tx[r].insert
  BY DEF SeatInv, LogInv, LedgerInv, Commit
<1>2. tx[r].delete \subseteq members
  BY <1>1 DEF Ledger, Deletes, DeleteTargets
<1>3. HasSeat(r) => /\ tx[r].insert = {<<arg[r].user, arg[r].pos>>}
                    /\ tx[r].delete = {} /\ <<arg[r].user, arg[r].pos>> \notin members
  BY <1>1 DEF Seat, Writer
<1>4. tx[r].insert # {} => HasSeat(r)
  BY <1>1 DEF Seat, Owner
<1>5. HasSeat(r) <=> arg[r].op = "assign"
  BY <1>1 DEF HasSeat
<1> QED
  BY <1>1, <1>2, <1>3, <1>4, <1>5

\* The other requests lose the rows of their snapshots that are gone.
LEMMA CommitLedger ==
  ASSUME TypeInv, SeatInv, LogInv, NEW r \in Request, Commit(r),
         NEW o \in Request \ {r}
  PROVE  Ledger(o)'
<1>1. /\ TypeOK /\ Ledger(o) /\ Ledger(r) /\ Seat(o) /\ Seat(r)
      /\ tx[o] \in Buffer /\ tx[r] \in Buffer /\ seen[o] \in Reads
  BY DEF TypeInv, TypeOK, LogInv, LedgerInv, SeatInv
<1>2. Release(r) /\ seen'[r] = NoReads
  BY DEF Commit
<1>3. /\ arg'[r].pos = None /\ tx'[r].delete = {} /\ pc'[o] = pc[o] /\ arg'[o] = arg[o]
      /\ tx'[o] = tx[o] /\ \A q \in Request \ {r} : arg'[q] = arg[q] /\ tx'[q] = tx[q]
      /\ \A d \in Division : divLock[d] = o => divLock'[d] = o
  BY <1>2, ReleaseLedger
<1>4. seen'[o].rows = seen[o].rows \ tx[r].delete /\ seen'[o].at = seen[o].at
  BY <1>1 DEF Commit, TypeOK, Reads
<1>5. Logs(o)'
  BY <1>1, <1>3, <1>4 DEF Ledger, Logs, Entry
<1>6. Creates(o)'
  <2>1. ASSUME arg[o].op = "create_position"
        PROVE  /\ home'[arg[o].pos] = None
               /\ \A q \in Request \ {o} : arg'[q].pos # arg[o].pos
    <3>1. /\ arg[o].pos \in Position /\ home[arg[o].pos] = None
          /\ \A q \in Request \ {o} : arg[q].pos # arg[o].pos
      BY <1>1, <2>1 DEF Ledger, Creates
    <3>2. tx[r].create # {arg[o].pos}
      BY <1>1, <3>1 DEF Ledger, Creates
    <3>3. home'[arg[o].pos] = None
      BY <3>1, <3>2, CommitFacts
    <3>4. \A q \in Request \ {o} : arg'[q].pos # arg[o].pos
      BY <1>3, <3>1, NoneIsFresh
    <3> QED
      BY <3>3, <3>4
  <2> QED
    BY <1>1, <1>3, <2>1 DEF Ledger, Creates
<1>7. Deletes(o)'
  <2>1. ASSUME NEW m \in tx[o].delete \cup (seen[o].rows \ tx[r].delete)
        PROVE  m \in DeleteTargets(arg[o])'
    <3>1. m \in DeleteTargets(arg[o]) /\ m \notin tx[r].delete
      BY <1>1, <2>1 DEF Ledger, Deletes, DeletesAlone
    <3>2. m \in members /\ m \in members' /\ m[2] \in Position
      <4>1. m \in members
        BY <3>1 DEF DeleteTargets
      <4>2. m \in Membership
        BY <1>1, <4>1 DEF TypeOK
      <4> QED
        BY <3>1, <4>1, <4>2 DEF Commit, Membership
    <3>3. arg[o].op = "archive_division" /\ home[m[2]] \in Subtree(arg[o].div)
             => home'[m[2]] \in Subtree(arg[o].div)
      <4>1. home[m[2]] \in Subtree(arg[o].div) => home[m[2]] # None
        BY NoneIsFresh, ParentType DEF Subtree, Descendants
      <4> QED
        BY <3>2, <4>1, CommitFacts
    <3> QED
      BY <1>3, <3>1, <3>2, <3>3 DEF DeleteTargets
  <2> QED
    BY <1>1, <1>3, <1>4, <2>1 DEF Ledger, Deletes
<1>8. DeletesAlone(o)'
  BY <1>1, <1>3 DEF Ledger, DeletesAlone
<1>9. Archives(o)'
  <2>1. archivedDiv' = archivedDiv \cup tx[r].archDiv
        /\ archivedPos' = archivedPos \cup tx[r].archPos
    BY DEF Commit
  <2>2. \A d \in tx[o].archDiv : d \notin tx[r].archDiv
    BY <1>1 DEF Ledger, Archives
  <2>3. \A p \in tx[o].archPos : p \notin tx[r].archPos
    BY <1>1 DEF Seat, Owner
  <2>4. \A d \in tx[o].archDiv : d \in Division
    BY <1>1 DEF Buffer
  <2> QED
    BY <1>1, <1>3, <2>1, <2>2, <2>3, <2>4 DEF Ledger, Archives
<1> QED
  BY <1>5, <1>6, <1>7, <1>8, <1>9 DEF Ledger

\* The division of the new entry had none: it was not archived.
LEMMA CommitArchivesOnce ==
  ASSUME TypeInv, LogInv, NEW r \in Request, Commit(r)
  PROVE  LoggedAreArchived' /\ DivisionArchivedOnce'
<1>1. /\ TypeOK /\ Ledger(r) /\ pc[r] = "commit" /\ LoggedAreArchived /\ DivisionArchivedOnce
      /\ archivedDiv' = archivedDiv \cup tx[r].archDiv
  BY DEF TypeInv, LogInv, LedgerInv, Commit
<1>2. /\ DOMAIN eventLog' = 1 .. Len(eventLog) + 1 /\ DOMAIN eventLog = 1 .. Len(eventLog)
      /\ Len(eventLog) \in Nat
      /\ eventLog'[Len(eventLog) + 1] = Entry(r)
      /\ \A i \in DOMAIN eventLog : eventLog'[i] = eventLog[i]
  BY <1>1, CommitFacts DEF TypeOK
<1>3. Entry(r).op = arg[r].op /\ Entry(r).div = arg[r].div
  BY DEF Entry
<1>4. Entry(r).op = "archive_division" =>
        Entry(r).div \in tx[r].archDiv /\ Entry(r).div \notin archivedDiv
  BY <1>1, <1>3 DEF Ledger, Archives
<1>5. \A i \in DOMAIN eventLog' : i \in DOMAIN eventLog \/ i = Len(eventLog) + 1
  BY <1>2
<1>6. LoggedAreArchived'
  <2> SUFFICES ASSUME NEW i \in DOMAIN eventLog', eventLog'[i].op = "archive_division"
               PROVE  eventLog'[i].div \in archivedDiv'
    BY DEF LoggedAreArchived
  <2>1. CASE i \in DOMAIN eventLog
    BY <1>1, <1>2, <2>1 DEF LoggedAreArchived
  <2>2. CASE i = Len(eventLog) + 1
    BY <1>1, <1>2, <1>4, <2>2
  <2> QED
    BY <1>5, <2>1, <2>2
<1>7. DivisionArchivedOnce'
  <2> SUFFICES ASSUME NEW i \in DOMAIN eventLog', NEW j \in DOMAIN eventLog',
                      eventLog'[i].op = "archive_division",
                      eventLog'[j].op = "archive_division",
                      eventLog'[i].div = eventLog'[j].div
               PROVE  i = j
    BY DEF DivisionArchivedOnce
  <2>1. \A k \in DOMAIN eventLog :
          eventLog'[k].op = "archive_division" => eventLog'[k].div \in archivedDiv
    BY <1>1, <1>2 DEF LoggedAreArchived
  <2>2. CASE i \in DOMAIN eventLog /\ j \in DOMAIN eventLog
    BY <1>1, <1>2, <2>2 DEF DivisionArchivedOnce
  <2>3. CASE i \in DOMAIN eventLog /\ j = Len(eventLog) + 1
    BY <1>2, <1>4, <2>1, <2>3
  <2>4. CASE i = Len(eventLog) + 1 /\ j \in DOMAIN eventLog
    BY <1>2, <1>4, <2>1, <2>4
  <2> QED
    BY <1>5, <2>2, <2>3, <2>4
<1> QED
  BY <1>6, <1>7

-----------------------------------------------------------------------------
(* The invariant, and the theorems.                                         *)

\* A commit keeps it.
LEMMA CommitLog ==
  ASSUME TypeInv, SeatInv, LogInv, NEW r \in Request, Commit(r)
  PROVE  LogInv'
<1>1. Release(r) /\ seen'[r] = NoReads
  BY DEF Commit, TypeInv, TypeOK
<1>2. Ledger(r)'
  BY <1>1, ReleaseLedger
<1>3. \A o \in Request \ {r} : Ledger(o)'
  BY CommitLedger
<1> QED
  BY <1>2, <1>3, CommitArchivesOnce DEF LogInv, LedgerInv

\* Every step keeps it.
LEMMA NextLog == TypeInv /\ SeatInv /\ LogInv /\ [Next]_vars => LogInv'
<1> SUFFICES ASSUME TypeInv, SeatInv, LogInv, [Next]_vars PROVE LogInv'
  OBVIOUS
<1>1. ASSUME NEW r \in Request, Step(r) PROVE LogInv'
  <2>1. CASE \/ LockPosition(r) \/ CountMembers(r) \/ CheckAssign(r) \/ InsertMembership(r)
             \/ CheckRemove(r) \/ FinishRemove(r) \/ InsertPosition(r)
             \/ ListSubtree(r) \/ ScanPositions(r) \/ ScanChildren(r) \/ ReadClock(r)
    BY <2>1, QuietLog
  <2>2. CASE RefuseAssign(r) \/ RefuseRemove(r) \/ ArchiveNoop(r)
    BY <2>2, RollbackLog DEF RefuseAssign, RefuseRemove, ArchiveNoop
  <2>3. CASE DeleteStep(r)
    BY <2>3, DeleteLog DEF DeleteStep
  <2>4. CASE \/ ArchivePosition(r) \/ ArchiveRoot(r)
             \/ \E p \in Position : ArchiveScannedPosition(r, p)
             \/ \E d \in Division : ArchiveScannedChild(r, d)
    BY <2>4, ArchiveLog
  <2>5. CASE InsertEvent(r) \/ Commit(r)
    BY <2>5, InsertEventLog, CommitLog
  <2> QED
    BY <1>1, <2>1, <2>2, <2>3, <2>4, <2>5 DEF Step, AssignStep, RemoveStep, CascadeStep
<1>2. ASSUME NEW r \in Request, Begin(r) \/ Step(r) \/ Fail(r) PROVE LogInv'
  BY <1>1, <1>2, BeginLog, RollbackLog DEF Fail
<1>3. CASE UNCHANGED vars
  <2>1. LedgerInv'
    BY <1>3 DEF LogInv, LedgerInv, Ledger, Logs, Entry, Creates, Deletes, DeleteTargets,
                DeletesAlone, Archives, vars, tables, locks
  <2>2. LoggedAreArchived' /\ DivisionArchivedOnce'
    BY <1>3 DEF LogInv, LoggedAreArchived, DivisionArchivedOnce, vars, tables
  <2> QED
    BY <2>1, <2>2 DEF LogInv
<1> QED
  BY <1>2, <1>3 DEF Next, Quiet

\* What the proofs of the theorems rest on.
LEMMA LogInvHolds == Spec => [](TypeInv /\ SeatInv /\ LogInv)
<1> QED
  BY InitTypeInv, InitSeatInv, InitLogInv, NextTypes, NextSeat, NextLog, PTL DEF Spec

-----------------------------------------------------------------------------
(* What the timestamps of the log say.  An assignment is committed only for *)
(* a row that is not there, and a removal that deletes a row has its entry, *)
(* so that the entries balance; an archive reads the clock when it has      *)
(* deleted everything, and no assignment to its position follows it.        *)

Archival == {"archive_position", "archive_division"}

\* The archive has run its statements.
Final(r) == pc[r] \in {"read_clock", "insert_event", "commit"} /\ arg[r].op \in Archival

\* The position of a row that an archive deletes is archived, or it will be.
Closes(r) ==
  \A m \in tx[r].delete :
    /\ Final(r) \/ pc[r] = "archiving_children" => m[2] \in archivedPos \cup tx[r].archPos
    /\ pc[r] = "archiving_positions" =>
         m[2] \in archivedPos \cup tx[r].archPos \cup seen[r].positions

\* Its timestamp is not before an assignment of such a row.
Dated(r) ==
  Final(r) /\ pc[r] # "read_clock" =>
    \A m \in tx[r].delete, i \in DOMAIN eventLog :
      eventLog[i].op = "assign" /\ eventLog[i].user = m[1] /\ eventLog[i].pos = m[2]
        => eventLog[i].at <= seen[r].at

ArchiveEntries(u, p) == Entries("archive_position", u, p) \cup Entries("archive_division", u, p)

\* An archive has taken the membership away for good.
Taken(u, p) ==
  /\ p \in archivedPos
  /\ \E k \in ArchiveEntries(u, p) :
       \A i \in Entries("assign", u, p) : eventLog[i].at <= eventLog[k].at

Removals(u, p) == Cardinality(Entries("remove", u, p))

\* A membership that is held was removed all but once as often as it was
\* given, at least; one that is not, as often, unless an archive has taken it.
Balance(u, p) ==
  /\ <<u, p>> \in members => Removals(u, p) + 1 >= Given(u, p)
  /\ <<u, p>> \notin members => Removals(u, p) >= Given(u, p) \/ Taken(u, p)

BalanceInv == \A u \in User, p \in Position : Balance(u, p)

HoldInv == (\A r \in Request : Closes(r) /\ Dated(r)) /\ BalanceInv

\* The log is empty and nothing is being deleted.
LEMMA InitHoldInv == Init => HoldInv
<1> SUFFICES ASSUME Init PROVE HoldInv
  OBVIOUS
<1>1. \A r \in Request : Closes(r) /\ Dated(r)
  BY DEF Init, Closes, Dated, NoWrites
<1>2. ASSUME NEW u \in User, NEW p \in Position PROVE Balance(u, p)
  <2>1. \A op : Entries(op, u, p) = {}
    BY DEF Init, Entries
  <2>2. members = InitialMembers
    BY DEF Init
  <2>3. \A op : Cardinality(Entries(op, u, p)) = 0
    BY <2>1, FS_EmptySet
  <2>4. Removals(u, p) = 0 /\ Given(u, p) \in {0, 1}
        /\ (<<u, p>> \notin members => Given(u, p) = 0)
    BY <2>2, <2>3 DEF Removals, Given
  <2> QED
    BY <2>4 DEF Balance
<1> QED
  BY <1>1, <1>2 DEF HoldInv, BalanceInv

\* The balance is between tables.
LEMMA BalanceStays ==
  ASSUME BalanceInv, UNCHANGED tables
  PROVE  BalanceInv'
<1> SUFFICES ASSUME NEW u \in User, NEW p \in Position PROVE Balance(u, p)'
  BY DEF BalanceInv
<1>1. Balance(u, p) /\ UNCHANGED <<home, archivedPos, members, eventLog>>
  BY DEF BalanceInv, tables
<1>2. \A op : Entries(op, u, p)' = Entries(op, u, p)
  BY <1>1 DEF Entries, Concerns
<1>3. Taken(u, p)' <=> Taken(u, p)
  BY <1>1, <1>2 DEF Taken, ArchiveEntries
<1> QED
  BY <1>1, <1>2, <1>3 DEF Balance, Removals, Given

\* A step that writes no table leaves it to r to show what it deletes.
LEMMA HoldOfOne ==
  ASSUME HoldInv, NEW r \in Request, Beside(r), Closes(r)', Dated(r)'
  PROVE  HoldInv'
<1>1. ASSUME NEW o \in Request \ {r} PROVE Closes(o)' /\ Dated(o)'
  BY DEF HoldInv, Beside, tables, Closes, Dated, Final
<1>2. BalanceInv'
  BY BalanceStays DEF HoldInv, Beside
<1> QED
  BY <1>1, <1>2 DEF HoldInv

\* Whoever deletes nothing, or has not come to archive, has nothing to show.
LEMMA NothingToClose ==
  ASSUME NEW r \in Request,
         \/ tx'[r].delete = {}
         \/ pc'[r] \in Label \ {"read_clock", "insert_event", "commit",
                                "archiving_positions", "archiving_children"}
         \/ /\ arg'[r].op \notin Archival
            /\ pc'[r] \notin {"archiving_positions", "archiving_children"}
  PROVE  Closes(r)' /\ Dated(r)'
BY DEF Closes, Dated, Final

\* A request that starts or ends deletes nothing.
LEMMA EndsHold ==
  ASSUME TypeInv, HoldInv, NEW r \in Request, Begin(r) \/ Rollback(r)
  PROVE  HoldInv'
<1>1. TypeOK /\ Control(r)
  BY DEF TypeInv, ControlInv
<1>2. CASE Begin(r)
  <2>1. PICK a, label : Start(r, a, label)
    BY <1>2 DEF Begin, BeginAssign, BeginRemove, BeginCreatePosition,
                BeginArchivePosition, BeginArchiveDivision
  <2>2. Beside(r) /\ tx'[r].delete = {}
    BY <1>1, <2>1 DEF Start, Goto, Control, NoWrites, Beside, TypeOK, locks
  <2> QED
    BY <2>2, NothingToClose, HoldOfOne
<1>3. CASE Rollback(r)
  <2>1. Beside(r) /\ tx'[r].delete = {}
    BY <1>1, <1>3 DEF Rollback, Release, Goto, NoWrites, Beside, TypeOK
  <2> QED
    BY <2>1, NothingToClose, HoldOfOne
<1> QED
  BY <1>2, <1>3

\* Statements of requests that do not archive, and those before the archiving.
LEMMA StatementsHold ==
  ASSUME TypeInv, HoldInv, NEW r \in Request,
         \/ LockPosition(r) \/ CountMembers(r) \/ CheckAssign(r) \/ InsertMembership(r)
         \/ CheckRemove(r) \/ FinishRemove(r) \/ InsertPosition(r) \/ ListSubtree(r)
         \/ DeleteMemberships(r) \/ \E m \in Membership : DeleteRow(r, m)
  PROVE  HoldInv'
<1> USE DEF LockPosition, CountMembers, CheckAssign, InsertMembership, CheckRemove,
            FinishRemove, InsertPosition, ListSubtree, DeleteMemberships, DeleteRow,
            Deleted, Goto
<1>1. TypeOK /\ Control(r)
  BY DEF TypeInv, ControlInv
<1>2. Beside(r)
  <2>1. tables' = tables /\ arg' = arg /\ divLock' = divLock
    BY DEF locks, tables
  <2>2. \A o \in Request \ {r} : pc'[o] = pc[o]
    BY <1>1 DEF TypeOK
  <2>3. \A o \in Request \ {r} : seen'[o] = seen[o]
    BY <1>1 DEF TypeOK
  <2>4. \A o \in Request \ {r} : tx'[o] = tx[o]
    BY <1>1 DEF TypeOK
  <2> QED
    BY <2>1, <2>2, <2>3, <2>4 DEF Beside
<1>3. \/ pc'[r] \in {"count_members", "check_assign", "delete_memberships", "deleting"}
      \/ /\ arg'[r].op \in {"assign", "remove", "create_position"}
         /\ pc'[r] \in {"read_clock", "insert_event"}
  BY <1>1 DEF TypeOK, Control, AssignLabel
<1> HIDE DEF LockPosition, CountMembers, CheckAssign, InsertMembership, CheckRemove,
             FinishRemove, InsertPosition, ListSubtree, DeleteMemberships, DeleteRow,
             Deleted, Goto
<1>4. Closes(r)' /\ Dated(r)'
  BY <1>3, NothingToClose DEF Label, Archival
<1> QED
  BY <1>2, <1>4, HoldOfOne

\* The later statements write no table either, and take no lock from anybody.
LEMMA ArchivesAreBeside ==
  ASSUME TypeInv, NEW r \in Request,
         \/ ArchivePosition(r) \/ ScanPositions(r) \/ ScanChildren(r) \/ ArchiveRoot(r)
         \/ \E p \in Position : ArchiveScannedPosition(r, p)
         \/ \E d \in Division : ArchiveScannedChild(r, d)
         \/ ReadClock(r) \/ InsertEvent(r)
  PROVE  Beside(r)
<1> USE DEF ArchivePosition, ScanPositions, ScanChildren, ArchiveRoot, ReadClock, InsertEvent,
            ArchiveScannedPosition, ArchiveScannedChild, Goto
<1>1. TypeOK /\ \A o \in Request \ {r} : o # None
  BY NoneIsFresh DEF TypeInv
<1>2. tables' = tables /\ arg' = arg
  BY DEF tables
<1>3. \A o \in Request \ {r} : pc'[o] = pc[o]
  BY <1>1 DEF TypeOK
<1>4. \A o \in Request \ {r} : seen'[o] = seen[o]
  BY <1>1 DEF TypeOK
<1>5. \A o \in Request \ {r} : tx'[o] = tx[o]
  BY <1>1 DEF TypeOK
<1>6. \A o \in Request \ {r}, d \in Division : divLock[d] = o => divLock'[d] = o
  BY <1>1 DEF TypeOK, locks, Unlocked
<1> HIDE DEF ArchivePosition, ScanPositions, ScanChildren, ArchiveRoot, ReadClock, InsertEvent,
             ArchiveScannedPosition, ArchiveScannedChild, Goto
<1> QED
  BY <1>2, <1>3, <1>4, <1>5, <1>6 DEF Beside

\* Each row deleted is of a position that the archive then scans and archives.
LEMMA ArchivesHold ==
  ASSUME TypeInv, LogInv, HoldInv, NEW r \in Request,
         \/ ArchivePosition(r) \/ ScanPositions(r) \/ ScanChildren(r) \/ ArchiveRoot(r)
         \/ \E p \in Position : ArchiveScannedPosition(r, p)
         \/ \E d \in Division : ArchiveScannedChild(r, d),
         Beside(r)
  PROVE  HoldInv'
<1>1. TypeOK /\ Control(r) /\ Closes(r) /\ tx[r] \in Buffer /\ seen[r] \in Reads
  BY DEF TypeInv, TypeOK, ControlInv, HoldInv
<1>2. tx[r].delete \subseteq DeleteTargets(arg[r]) /\ members \subseteq Membership
  BY <1>1 DEF LogInv, LedgerInv, Ledger, Deletes, TypeOK
<1>3. CASE ArchivePosition(r)
  <2>1. /\ arg[r].op = "archive_position" /\ tx'[r].archPos = {arg[r].pos}
        /\ tx'[r].delete = tx[r].delete /\ pc'[r] = "read_clock"
    BY <1>1, <1>3 DEF ArchivePosition, Deleted, Goto, TypeOK, Buffer
  <2>2. \A m \in tx[r].delete : m[2] = arg[r].pos
    BY <1>2, <2>1 DEF DeleteTargets
  <2>3. Closes(r)' /\ Dated(r)'
    BY <2>1, <2>2 DEF Closes, Dated, Final
  <2> QED
    BY <2>3, HoldOfOne
<1>4. CASE ScanPositions(r)
  <2>1. /\ arg[r].op = "archive_division" /\ pc'[r] = "archiving_positions"
        /\ tx'[r].delete = tx[r].delete /\ archivedPos' = archivedPos
        /\ seen'[r].positions =
             {p \in Position \ archivedPos : home[p] \in Subtree(arg[r].div)}
    BY <1>1, <1>4 DEF ScanPositions, Deleted, Goto, TypeOK, Reads, tables
  <2>2. \A m \in tx[r].delete : m[2] \in Position /\ home[m[2]] \in Subtree(arg[r].div)
    BY <1>2, <2>1 DEF DeleteTargets, Membership
  <2>3. Closes(r)' /\ Dated(r)'
    BY <2>1, <2>2 DEF Closes, Dated, Final
  <2> QED
    BY <2>3, HoldOfOne
<1>5. CASE ScanChildren(r)
  <2>1. /\ pc[r] = "archiving_positions" /\ seen[r].positions = {} /\ tx' = tx
        /\ pc'[r] = "archiving_children" /\ archivedPos' = archivedPos
    BY <1>1, <1>5 DEF ScanChildren, Goto, TypeOK, tables
  <2>2. Closes(r)' /\ Dated(r)'
    BY <1>1, <2>1 DEF Closes, Dated, Final
  <2> QED
    BY <2>2, HoldOfOne
<1>6. ASSUME NEW p \in Position, ArchiveScannedPosition(r, p) PROVE HoldInv'
  <2>1. /\ pc[r] = "archiving_positions" /\ pc' = pc /\ archivedPos' = archivedPos
        /\ tx'[r].delete = tx[r].delete
        /\ tx'[r].archPos = tx[r].archPos \cup ({p} \ archivedPos)
        /\ seen'[r].positions = seen[r].positions \ {p}
    BY <1>1, <1>6 DEF ArchiveScannedPosition, TypeOK, Buffer, Reads, tables
  <2>2. Closes(r)' /\ Dated(r)'
    BY <1>1, <2>1 DEF Closes, Dated, Final
  <2> QED
    BY <2>2, HoldOfOne
<1>7. CASE ArchiveRoot(r) \/ \E d \in Division : ArchiveScannedChild(r, d)
  <2>1. /\ pc[r] = "archiving_children" /\ pc'[r] \in {"archiving_children", "read_clock"}
        /\ archivedPos' = archivedPos
        /\ tx'[r].delete = tx[r].delete /\ tx'[r].archPos = tx[r].archPos
    BY <1>1, <1>7 DEF ArchiveRoot, ArchiveScannedChild, Goto, TypeOK, Buffer, tables
  <2>2. Closes(r)' /\ Dated(r)'
    BY <1>1, <2>1 DEF Closes, Dated, Final
  <2> QED
    BY <2>2, HoldOfOne
<1> QED
  BY <1>3, <1>4, <1>5, <1>6, <1>7

\* The clock is read when every row is deleted, and is not before any entry.
LEMMA ReadClockHold ==
  ASSUME TypeInv, HoldInv, NEW r \in Request, ReadClock(r), Beside(r)
  PROVE  HoldInv'
<1>1. TypeOK /\ Control(r) /\ Closes(r) /\ seen[r] \in Reads /\ arg[r].op \in Operation
  BY DEF TypeInv, TypeOK, ControlInv, Control, HoldInv, ReadClock
<1>2. PICK t \in Clock : seen' = [seen EXCEPT ![r].at = t]
  BY DEF ReadClock
<1>3. /\ pc[r] = "read_clock" /\ arg' = arg /\ tx' = tx /\ seen'[r].at = t
      /\ archivedPos' = archivedPos /\ eventLog' = eventLog
      /\ pc'[r] = AfterClock(arg[r].op)
  BY <1>1, <1>2 DEF ReadClock, Goto, TypeOK, Reads, tables
<1>4. \A i \in DOMAIN eventLog : eventLog[i].at <= t
  BY ClockIsLate
<1>5. CASE arg[r].op \in Archival
  <2>1. Final(r) /\ pc'[r] = "insert_event"
    BY <1>3, <1>5 DEF Final, Archival, AfterClock
  <2>2. Closes(r)'
    BY <1>1, <1>3, <2>1 DEF Closes
  <2>3. Dated(r)'
    BY <1>3, <1>4 DEF Dated
  <2> QED
    BY <2>2, <2>3, HoldOfOne
<1>6. CASE arg[r].op \notin Archival
  <2>1. pc'[r] \in {"insert_membership", "delete_memberships", "insert_position"}
    BY <1>1, <1>3, <1>6 DEF AfterClock, Operation, Archival
  <2>2. Closes(r)' /\ Dated(r)'
    BY <2>1, NothingToClose DEF Label
  <2> QED
    BY <2>2, HoldOfOne
<1> QED
  BY <1>5, <1>6

\* The entry is built of what is in the buffer.
LEMMA InsertEventHold ==
  ASSUME TypeInv, HoldInv, NEW r \in Request, InsertEvent(r), Beside(r)
  PROVE  HoldInv'
<1>1. TypeOK /\ Closes(r) /\ Dated(r)
  BY DEF TypeInv, HoldInv
<1>2. /\ pc[r] = "insert_event" /\ pc'[r] = "commit" /\ arg' = arg /\ seen' = seen
      /\ tx'[r].delete = tx[r].delete /\ tx'[r].archPos = tx[r].archPos
      /\ archivedPos' = archivedPos /\ eventLog' = eventLog
  BY <1>1 DEF InsertEvent, Goto, TypeOK, Buffer, tables
<1>3. Closes(r)' /\ Dated(r)'
  BY <1>1, <1>2 DEF Closes, Dated, Final
<1> QED
  BY <1>3, HoldOfOne

\* A commit adds its entry to those of its operation on its membership.
LEMMA CommitEntries ==
  ASSUME TypeInv, LogInv, NEW r \in Request, Commit(r), NEW u \in User, NEW p \in Position,
         NEW op \in {"assign", "remove"}
  PROVE  /\ Cardinality(Entries(op, u, p)) \in Nat
         /\ Cardinality(Entries(op, u, p)') =
              Cardinality(Entries(op, u, p)) +
                (IF arg[r].op = op /\ arg[r].user = u /\ arg[r].pos = p THEN 1 ELSE 0)
         /\ ~(arg[r].op = op /\ arg[r].user = u /\ arg[r].pos = p)
              => Entries(op, u, p)' = Entries(op, u, p)
<1> DEFINE n == Len(eventLog)
           Old == Entries(op, u, p)
           Mine == arg[r].op = op /\ arg[r].user = u /\ arg[r].pos = p
<1>1. /\ n \in Nat /\ DOMAIN eventLog = 1 .. n /\ DOMAIN eventLog' = 1 .. n + 1
      /\ eventLog'[n + 1] = Entry(r)
      /\ \A i \in DOMAIN eventLog : eventLog'[i] = eventLog[i]
  BY CommitFacts DEF TypeInv, TypeOK
<1>2. Entry(r).op = arg[r].op /\ Entry(r).user = arg[r].user /\ Entry(r).pos = arg[r].pos
  BY DEF Entry
<1>3. Old = {i \in DOMAIN eventLog :
               eventLog[i].op = op /\ eventLog[i].user = u /\ eventLog[i].pos = p}
  BY DEF Entries, Concerns
<1>4. Entries(op, u, p)' = {i \in DOMAIN eventLog' :
               eventLog'[i].op = op /\ eventLog'[i].user = u /\ eventLog'[i].pos = p}
  BY DEF Entries, Concerns
<1> HIDE DEF n, Old
<1>5. Entries(op, u, p)' = Old \cup (IF Mine THEN {n + 1} ELSE {})
  BY <1>1, <1>2, <1>3, <1>4
<1>6. IsFiniteSet(Old) /\ n + 1 \notin Old
  <2>1. IsFiniteSet(1 .. n)
    BY <1>1, FS_Interval
  <2>2. Old \subseteq 1 .. n /\ n + 1 \notin 1 .. n
    BY <1>1, <1>3
  <2> QED
    BY <2>1, <2>2, FS_Subset
<1>7. Cardinality(Old) \in Nat /\ Cardinality(Old \cup {n + 1}) = Cardinality(Old) + 1
  BY <1>6, FS_CardinalityType, FS_AddElement
<1>8. Mine => Entries(op, u, p)' = Old \cup {n + 1}
  BY <1>5
<1>9. ~Mine => Entries(op, u, p)' = Old
  BY <1>5
<1> QED
  BY <1>7, <1>8, <1>9 DEF Old

\* An archive that has taken a membership away has done so for good.
LEMMA CommitTaken ==
  ASSUME TypeInv, LogInv, NEW r \in Request, Commit(r), NEW u \in User, NEW p \in Position,
         ~(arg[r].op = "assign" /\ arg[r].user = u /\ arg[r].pos = p),
         \/ Taken(u, p)
         \/ Closes(r) /\ Dated(r) /\ <<u, p>> \in tx[r].delete /\ arg[r].op # "remove"
  PROVE  Taken(u, p)'
<1> DEFINE n == Len(eventLog)
<1>1. /\ n \in Nat /\ DOMAIN eventLog = 1 .. n /\ DOMAIN eventLog' = 1 .. n + 1
      /\ eventLog'[n + 1] = Entry(r)
      /\ \A i \in DOMAIN eventLog : eventLog'[i] = eventLog[i]
  BY CommitFacts DEF TypeInv, TypeOK
<1>2. Entries("assign", u, p)' = Entries("assign", u, p)
      /\ Entries("assign", u, p) \subseteq DOMAIN eventLog
  <2>1. Entries("assign", u, p)' = Entries("assign", u, p)
    BY CommitEntries
  <2>2. Entries("assign", u, p) \subseteq DOMAIN eventLog
    BY DEF Entries
  <2> QED
    BY <2>1, <2>2
<1>3. \A d : home[p] \in Subtree(d) => home'[p] = home[p]
  <2>1. \A d : home[p] \in Subtree(d) => home[p] # None
    BY NoneIsFresh, ParentType DEF Subtree, Descendants
  <2> QED
    BY <2>1, CommitFacts
<1>4. archivedPos' = archivedPos \cup tx[r].archPos /\ pc[r] = "commit"
  BY DEF Commit
<1>5. CASE Taken(u, p)
  <2>1. PICK k \in ArchiveEntries(u, p) :
               \A i \in Entries("assign", u, p) : eventLog[i].at <= eventLog[k].at
    BY <1>5 DEF Taken
  <2>2. k \in DOMAIN eventLog /\ k \in DOMAIN eventLog' /\ eventLog'[k] = eventLog[k]
    BY <1>1, <2>1 DEF ArchiveEntries, Entries
  <2>3. k \in ArchiveEntries(u, p)'
    BY <1>3, <2>1, <2>2 DEF ArchiveEntries, Entries, Concerns
  <2>4. \A i \in Entries("assign", u, p)' : eventLog'[i].at <= eventLog'[k].at
    BY <1>1, <1>2, <2>1, <2>2
  <2> QED
    BY <1>4, <1>5, <2>3, <2>4 DEF Taken
<1>6. CASE /\ Closes(r) /\ Dated(r) /\ <<u, p>> \in tx[r].delete
           /\ arg[r].op # "remove"
  <2>1. <<u, p>> \in DeleteTargets(arg[r])
    BY <1>6 DEF LogInv, LedgerInv, Ledger, Deletes
  <2>2. \/ arg[r].op = "archive_position" /\ arg[r].pos = p
        \/ arg[r].op = "archive_division" /\ home[p] \in Subtree(arg[r].div)
    BY <1>6, <2>1 DEF DeleteTargets
  <2>3. Final(r)
    BY <1>4, <2>2 DEF Final, Archival
  <2>4. p \in archivedPos'
    BY <1>4, <1>6, <2>3 DEF Closes
  <2>5. n + 1 \in DOMAIN eventLog'
    BY <1>1
  <2>6. /\ Entry(r).op = arg[r].op /\ Entry(r).pos = arg[r].pos /\ Entry(r).div = arg[r].div
        /\ Entry(r).at = seen[r].at
    BY DEF Entry
  <2> HIDE DEF n
  <2>7. n + 1 \in ArchiveEntries(u, p)'
    BY <1>1, <1>3, <2>2, <2>5, <2>6 DEF ArchiveEntries, Entries, Concerns
  <2>8. \A i \in Entries("assign", u, p) : eventLog[i].at <= seen[r].at
    BY <1>4, <1>6, <2>3 DEF Dated, Entries, Concerns
  <2>9. \A i \in Entries("assign", u, p)' : eventLog'[i].at <= eventLog'[n + 1].at
    BY <1>1, <1>2, <2>6, <2>8
  <2> QED
    BY <2>4, <2>7, <2>9 DEF Taken
<1> QED
  BY <1>5, <1>6

\* A commit keeps the balance of every membership.
LEMMA CommitBalance ==
  ASSUME TypeInv, SeatInv, LogInv, HoldInv, NEW r \in Request, Commit(r),
         NEW u \in User, NEW p \in Position
  PROVE  Balance(u, p)'
<1> DEFINE m == <<u, p>>
           Mine(op) == arg[r].op = op /\ arg[r].user = u /\ arg[r].pos = p
           one == IF m \in InitialMembers THEN 1 ELSE 0
           G == Cardinality(Entries("assign", u, p))
           R == Cardinality(Entries("remove", u, p))
           Gn == Cardinality(Entries("assign", u, p)')
           Rn == Cardinality(Entries("remove", u, p)')
<1>1. Seat(r) /\ Ledger(r) /\ Closes(r) /\ Dated(r) /\ Balance(u, p) /\ pc[r] = "commit"
  BY DEF SeatInv, LogInv, LedgerInv, HoldInv, BalanceInv, Commit
<1>2. /\ m \in members => R + 1 >= G + one
      /\ m \notin members => R >= G + one \/ Taken(u, p)
  BY <1>1 DEF Balance, Removals, Given
<1>3. /\ G \in Nat /\ R \in Nat /\ one \in {0, 1}
      /\ Gn = G + (IF Mine("assign") THEN 1 ELSE 0)
      /\ Rn = R + (IF Mine("remove") THEN 1 ELSE 0)
  BY CommitEntries
<1> SUFFICES /\ m \in members' => Rn + 1 >= Gn + one
             /\ m \notin members' => Rn >= Gn + one \/ Taken(u, p)'
  BY DEF Balance, Removals, Given
<1>4. m \in members \/ Mine("assign") <=> m \in members' \cup tx[r].delete
  <2>1. /\ members' = (members \ tx[r].delete) \cup tx[r].insert
        /\ tx[r].delete \subseteq members
    BY <1>1 DEF Commit, Ledger, Deletes, DeleteTargets
  <2>2. m \in tx[r].insert <=> Mine("assign")
    <3>1. arg[r].op = "assign" => tx[r].insert = {<<arg[r].user, arg[r].pos>>}
      BY <1>1 DEF Seat, Writer, HasSeat
    <3>2. arg[r].op # "assign" => tx[r].insert = {}
      BY <1>1 DEF Seat, Owner, HasSeat
    <3> QED
      BY <3>1, <3>2
  <2> QED
    BY <2>1, <2>2
<1>5. m \notin members /\ ~Mine("assign") => m \notin members'
  BY <1>4
<1> HIDE DEF G, R, Gn, Rn, one
<1>6. CASE Mine("assign")
  <2>1. m \notin members /\ p \notin archivedPos /\ m \in members'
    <3>1. m \notin members /\ p \notin archivedPos
      BY <1>1, <1>6 DEF Seat, Writer, HasSeat
    <3> QED
      BY <1>6, <3>1, CommitRemoves
  <2>2. R >= G + one
    BY <1>2, <2>1 DEF Taken
  <2>3. Gn = G + 1 /\ Rn = R
    BY <1>3, <1>6
  <2> QED
    BY <1>3, <2>1, <2>2, <2>3
<1>7. CASE Mine("remove")
  <2>1. Gn = G /\ Rn = R + 1
    BY <1>3, <1>7
  <2>2. CASE m \in members
    BY <1>2, <1>3, <2>1, <2>2
  <2>3. CASE m \notin members
    <3>1. m \notin members'
      BY <1>5, <1>7, <2>3
    <3>2. Taken(u, p) => Taken(u, p)'
      BY <1>7, CommitTaken
    <3> QED
      BY <1>2, <1>3, <2>1, <2>3, <3>1, <3>2
  <2> QED
    BY <2>2, <2>3
<1>8. CASE ~Mine("assign") /\ ~Mine("remove")
  <2>1. Gn = G /\ Rn = R
    BY <1>3, <1>8
  <2>2. m \in tx[r].delete => arg[r].op # "remove"
    BY <1>1, <1>8 DEF Ledger, Deletes, DeleteTargets
  <2>3. Taken(u, p) \/ m \in tx[r].delete => Taken(u, p)'
    BY <1>1, <1>8, <2>2, CommitTaken
  <2>4. m \notin members' => m \notin members \/ m \in tx[r].delete
    BY <1>4
  <2> QED
    BY <1>2, <1>3, <1>5, <1>8, <2>1, <2>3, <2>4
<1> QED
  BY <1>6, <1>7, <1>8

\* A commit assigns no row that another request has deleted and not committed.
LEMMA CommitHold ==
  ASSUME TypeInv, SeatInv, LogInv, HoldInv, NEW r \in Request, Commit(r)
  PROVE  HoldInv'
<1>1. TypeOK /\ Seat(r) /\ pc[r] = "commit"
  BY DEF TypeInv, SeatInv, Commit
<1>2. ASSUME NEW o \in Request \ {r} PROVE Closes(o)' /\ Dated(o)'
  <2>1. /\ pc'[o] = pc[o] /\ arg'[o] = arg[o] /\ tx'[o] = tx[o]
        /\ seen'[o].positions = seen[o].positions /\ seen'[o].at = seen[o].at
        /\ archivedPos \subseteq archivedPos'
    BY <1>1 DEF Commit, Release, Goto, TypeOK, Reads
  <2>2. Closes(o) /\ Dated(o)
    BY DEF HoldInv
  <2>3. Closes(o)'
    BY <2>1, <2>2 DEF Closes, Final
  <2>4. Dated(o)'
    <3> SUFFICES ASSUME Final(o), pc[o] # "read_clock", NEW m \in tx[o].delete,
                        NEW i \in DOMAIN eventLog', eventLog'[i].op = "assign",
                        eventLog'[i].user = m[1], eventLog'[i].pos = m[2]
                 PROVE  eventLog'[i].at <= seen[o].at
      BY <2>1 DEF Dated, Final
    <3>1. CASE i \in DOMAIN eventLog
      BY <2>2, <3>1, CommitFacts DEF Dated
    <3>2. CASE i \notin DOMAIN eventLog
      <4>1. eventLog'[i] = Entry(r)
        BY <1>1, <3>2, CommitFacts DEF TypeOK
      <4>2. arg[r].op = "assign" /\ arg[r].user = m[1] /\ arg[r].pos = m[2]
        BY <4>1 DEF Entry
      <4>3. <<m[1], m[2]>> \notin members
        BY <1>1, <4>2 DEF Seat, Writer, HasSeat
      <4>4. m \in members /\ m = <<m[1], m[2]>>
        BY <1>1 DEF LogInv, LedgerInv, Ledger, Deletes, DeleteTargets, TypeOK, Membership
      <4> QED
        BY <4>3, <4>4
    <3> QED
      BY <3>1, <3>2
  <2> QED
    BY <2>3, <2>4
<1>3. Closes(r)' /\ Dated(r)'
  <2>1. tx'[r].delete = {}
    BY <1>1 DEF Commit, Release, NoWrites, TypeOK
  <2> QED
    BY <2>1, NothingToClose
<1> QED
  BY <1>2, <1>3, CommitBalance DEF HoldInv, BalanceInv

\* Every step keeps it.
LEMMA NextHold == TypeInv /\ SeatInv /\ LogInv /\ HoldInv /\ [Next]_vars => HoldInv'
<1> SUFFICES ASSUME TypeInv, SeatInv, LogInv, HoldInv, [Next]_vars PROVE HoldInv'
  OBVIOUS
<1>1. ASSUME NEW r \in Request, Step(r) PROVE HoldInv'
  <2>1. CASE \/ LockPosition(r) \/ CountMembers(r) \/ CheckAssign(r) \/ InsertMembership(r)
             \/ CheckRemove(r) \/ FinishRemove(r) \/ InsertPosition(r) \/ ListSubtree(r)
             \/ DeleteStep(r)
    BY <2>1, StatementsHold DEF DeleteStep
  <2>2. CASE RefuseAssign(r) \/ RefuseRemove(r) \/ ArchiveNoop(r)
    BY <2>2, EndsHold DEF RefuseAssign, RefuseRemove, ArchiveNoop
  <2>3. CASE \/ ArchivePosition(r) \/ ScanPositions(r) \/ ScanChildren(r) \/ ArchiveRoot(r)
             \/ \E p \in Position : ArchiveScannedPosition(r, p)
             \/ \E d \in Division : ArchiveScannedChild(r, d)
    BY <2>3, ArchivesAreBeside, ArchivesHold
  <2>4. CASE ReadClock(r) \/ InsertEvent(r)
    BY <2>4, ArchivesAreBeside, ReadClockHold, InsertEventHold
  <2>5. CASE Commit(r)
    BY <2>5, CommitHold
  <2> QED
    BY <1>1, <2>1, <2>2, <2>3, <2>4, <2>5 DEF Step, AssignStep, RemoveStep, CascadeStep
<1>2. ASSUME NEW r \in Request, Begin(r) \/ Step(r) \/ Fail(r) PROVE HoldInv'
  BY <1>1, <1>2, EndsHold DEF Fail
<1>3. CASE UNCHANGED vars
  <2>1. \A r \in Request : Closes(r)' /\ Dated(r)'
    BY <1>3 DEF HoldInv, Closes, Dated, Final, vars, tables
  <2>2. BalanceInv'
    BY <1>3, BalanceStays DEF HoldInv, vars
  <2> QED
    BY <2>1, <2>2 DEF HoldInv
<1> QED
  BY <1>2, <1>3 DEF Next, Quiet

\* Who has been given a position more often than it was taken away holds it,
\* unless an archive is listed at or after the last assignment.
LEMMA HoldInvHolds == TypeInv /\ HoldInv => LoggedHoldersHold
<1> SUFFICES ASSUME TypeInv, HoldInv, NEW u \in User, NEW p \in Position,
                    NEW i \in Entries("assign", u, p), ArchivesSince(i, u, p) = {},
                    Removals(u, p) < Given(u, p), <<u, p>> \notin members
             PROVE  FALSE
  BY DEF LoggedHoldersHold, Removals
<1>1. Balance(u, p)
  BY DEF HoldInv, BalanceInv
<1>2. Removals(u, p) \in Nat /\ Given(u, p) \in Nat
  <2>1. ASSUME NEW op PROVE Cardinality(Entries(op, u, p)) \in Nat
    <3>1. Len(eventLog) \in Nat /\ DOMAIN eventLog = 1 .. Len(eventLog)
      BY DEF TypeInv, TypeOK
    <3>2. IsFiniteSet(DOMAIN eventLog) /\ Entries(op, u, p) \subseteq DOMAIN eventLog
      BY <3>1, FS_Interval DEF Entries
    <3> QED
      BY <3>2, FS_Subset, FS_CardinalityType
  <2> QED
    BY <2>1 DEF Removals, Given
<1>3. Taken(u, p)
  BY <1>1, <1>2 DEF Balance
<1>4. PICK k \in ArchiveEntries(u, p) : eventLog[i].at <= eventLog[k].at
  BY <1>3 DEF Taken
<1> QED
  BY <1>4 DEF ArchivesSince, ArchiveEntries

\* The log never overstates who holds a position: by the timestamps of the
\* archives and the number of the other entries, since the timestamp of a
\* removal may be earlier than that of an assignment it undoes.
THEOREM HoldersAreLogged == Spec => []LoggedHoldersHold
<1> QED
  BY InitTypeInv, InitSeatInv, InitLogInv, InitHoldInv, NextTypes, NextSeat, NextLog,
     NextHold, HoldInvHolds, PTL DEF Spec

-----------------------------------------------------------------------------
(* How often divisions are archived, and the payloads.                     *)

\* A division gets at most one entry, however many cascades archive it or a
\* division above it: the row it has locked is the one it found unarchived.
THEOREM ArchivedOnceLogged == Spec => []DivisionArchivedOnce
<1>1. LogInv => DivisionArchivedOnce
  BY DEF LogInv
<1> QED
  BY <1>1, LogInvHolds, PTL

\* The counts of an entry are what its commit changes, although other commits
\* come between the statements that made them.
THEOREM PayloadsAreExact == Spec => CountsAreExact
<1> DEFINE Exact == members' # members \/ archivedPos' # archivedPos =>
             LET e == eventLog'[Len(eventLog')] IN
             /\ Len(eventLog') = Len(eventLog) + 1
             /\ e.removed = Removed
             /\ e.op = "archive_division" => e.archived = Archived
<1>1. TypeInv /\ SeatInv /\ LogInv /\ [Next]_vars => [Exact]_<<members, archivedPos>>
  <2> SUFFICES ASSUME TypeInv, SeatInv, LogInv, [Next]_vars,
                      members' # members \/ archivedPos' # archivedPos
               PROVE  /\ Len(eventLog') = Len(eventLog) + 1
                      /\ eventLog'[Len(eventLog')].removed = Removed
                      /\ eventLog'[Len(eventLog')].op = "archive_division"
                           => eventLog'[Len(eventLog')].archived = Archived
    OBVIOUS
  <2>1. PICK r \in Request : Commit(r)
    BY OnlyCommits DEF tables
  <2>2. Len(eventLog') = Len(eventLog) + 1 /\ eventLog'[Len(eventLog')] = Entry(r)
    BY <2>1, CommitFacts
  <2>3. /\ Entry(r).removed = Cardinality(tx[r].delete) /\ Entry(r).op = arg[r].op
        /\ Entry(r).archived = Cardinality(tx[r].archPos)
    BY DEF Entry
  <2>4. members \ members' = tx[r].delete
    BY <2>1, CommitRemoves
  <2>5. arg[r].op = "archive_division" => archivedPos' \ archivedPos = tx[r].archPos
    <3>1. archivedPos' = archivedPos \cup tx[r].archPos
      BY <2>1 DEF Commit
    <3>2. arg[r].op = "archive_division" => tx[r].archPos \cap archivedPos = {}
      BY DEF LogInv, LedgerInv, Ledger, Archives
    <3> QED
      BY <3>1, <3>2
  <2> QED
    BY <2>2, <2>3, <2>4, <2>5 DEF Removed, Archived
<1> QED
  BY <1>1, LogInvHolds, PTL DEF Spec, CountsAreExact

=============================================================================
