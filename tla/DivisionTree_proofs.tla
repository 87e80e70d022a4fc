-------------------------- MODULE DivisionTree_proofs --------------------------
(***************************************************************************)
(* Theorems about DivisionTree, for any sets of requests and divisions, any *)
(* tree at the start and any overlapping of requests.                      *)
(***************************************************************************)
EXTENDS DivisionTree, FiniteSetTheorems, TLAPS

\* Two divisions without a parent are one, and a tree that has divisions has one.
RootInv == /\ \A d, e \in Roots : d = e
           /\ Rows # {} => Roots # {}

\* A creation is of a division nobody else is at work on, below one that exists.
Creating(r) ==
  pc[r] = "insert_division" =>
    /\ arg[r].div \in Division \ Rows
    /\ arg[r].to \in Rows \cup {Top}
    /\ \A o \in Request \ {r} : arg[o].div # arg[r].div

\* A PATCH is of a division that exists; a move is checked against one, too.
Moving(r) ==
  /\ pc[r] \in {"read_parent", "read_ancestors"} =>
       arg[r].div \in Rows /\ arg[r].to \in Rows
  /\ pc[r] = "update_division" =>
       arg[r].div \in Rows /\ arg[r].to \in Rows \cup {None}

\* What UPDATE writes makes a root of a root, and of nothing else.
WritesRootBack(r) ==
  pc[r] = "update_division" =>
    IF arg[r].to = None
    THEN seen[r].parent # Absent /\ (seen[r].parent = Top <=> arg[r].div \in Roots)
    ELSE arg[r].div \notin Roots

Archived(r) == pc[r] \in Archiving => arg[r].div \in Rows

\* What an open transaction has archived is locked, and was not archived.
Locked(r) ==
  /\ \A d \in tx[r] : divLock[d] = r /\ d \notin archived
  /\ pc[r] = "commit" => arg[r].div \in tx[r]

RequestInv(r) == Creating(r) /\ Moving(r) /\ WritesRootBack(r) /\ Archived(r) /\ Locked(r)

TreeInv == TypeOK /\ RootInv /\ \A r \in Request : RequestInv(r)

\* What a step of r does to the divisions and to other requests.
RowsStay == /\ Rows \subseteq Rows'
            /\ \A d \in Rows : d \in Roots <=> d \in Roots'

OthersStay(r) ==
  \A o \in Request \ {r} :
    /\ pc'[o] = pc[o] /\ arg'[o] = arg[o] /\ seen'[o] = seen[o] /\ tx'[o] = tx[o]
    /\ \A d \in Division : divLock[d] = o => divLock'[d] = o
    /\ pc[o] = "insert_division" => arg'[r].div # arg[o].div

StepOf(r) ==
  /\ RowsStay
  /\ OthersStay(r)
  /\ archived' \subseteq archived \cup tx[r]
  /\ \A d \in Rows' \ Rows : pc[r] = "insert_division" /\ d = arg[r].div

-----------------------------------------------------------------------------
(* Facts about the constants and the initial state.                         *)

\* A set of two given elements does not have three.
LEMMA PairIsSmall ==
  ASSUME NEW a, NEW b
  PROVE  Cardinality({a, b}) # 3
<1>1. IsFiniteSet({a}) /\ Cardinality({a}) = 1
  BY FS_Singleton
<1>2. Cardinality({a} \cup {b}) \in {1, 2}
  BY <1>1, FS_AddElement
<1>3. {a} \cup {b} = {a, b}
  OBVIOUS
<1> QED
  BY <1>2, <1>3

\* The special values are different from each other and from every id.
LEMMA SpecialsDiffer ==
  /\ None # Absent /\ None # Top /\ Absent # Top
  /\ None \notin Division \cup Request /\ Absent \notin Division /\ Top \notin Division
<1>1. ASSUME None = Absent PROVE FALSE
  <2>1. {None, Absent, Top} = {None, Top}
    BY <1>1
  <2> QED
    BY <2>1, PairIsSmall, SpecialValues
<1>2. ASSUME None = Top PROVE FALSE
  <2>1. {None, Absent, Top} = {None, Absent}
    BY <1>2
  <2> QED
    BY <2>1, PairIsSmall, SpecialValues
<1>3. ASSUME Absent = Top PROVE FALSE
  <2>1. {None, Absent, Top} = {None, Top}
    BY <1>3
  <2> QED
    BY <2>1, PairIsSmall, SpecialValues
<1> QED
  BY <1>1, <1>2, <1>3, SpecialValues

\* The tables at the start have one root, and nobody is at work.
LEMMA InitTreeInv == Init => TreeInv
<1> SUFFICES ASSUME Init PROVE TreeInv
  OBVIOUS
<1>1. TypeOK
  <2>1. /\ NoArgument \in [div : Division \cup {None}, to : Division \cup {Top, None}]
        /\ NoReads \in Reads
    BY DEF NoArgument, NoReads, Reads
  <2>2. <<>> \in Seq(Division)
    OBVIOUS
  <2> QED
    BY <2>1, <2>2, InitialParentType DEF Init, TypeOK, Label
<1>2. RootInv
  <2>1. \A d, e \in Roots : d = e
    BY InitialParentType DEF Init, Roots
  <2>2. ASSUME NEW d \in Rows PROVE Roots # {}
    <3>1. PICK x \in Ancestors(InitialParent, d) \cup {d} : InitialParent[x] = Top
      BY <2>2, InitialParentType DEF Init, Rows, Rooted
    <3>2. x \in Division
      BY <3>1, InitialParentType DEF Ancestors, Rows
    <3> QED
      BY <3>1, <3>2 DEF Init, Roots
  <2> QED
    BY <2>1, <2>2 DEF RootInv
<1>3. \A r \in Request : RequestInv(r)
  BY DEF Init, RequestInv, Creating, Moving, WritesRootBack, Archived, Archiving, Locked
<1> QED
  BY <1>1, <1>2, <1>3 DEF TreeInv

-----------------------------------------------------------------------------
(* What every step keeps for the requests that do not take it.              *)

\* A step of r leaves what is known about every other request true.
LEMMA OthersKeep ==
  ASSUME TreeInv, NEW r \in Request, StepOf(r), NEW o \in Request \ {r}
  PROVE  RequestInv(o)'
<1> USE DEF StepOf, OthersStay
<1>1. RequestInv(o) /\ RequestInv(r)
  BY DEF TreeInv
<1>2. Creating(o)'
  <2> SUFFICES ASSUME pc[o] = "insert_division"
               PROVE  /\ arg[o].div \in Division \ Rows'
                      /\ arg[o].to \in Rows' \cup {Top}
                      /\ \A q \in Request \ {o} : arg'[q].div # arg[o].div
    BY DEF Creating
  <2>1. /\ arg[o].div \in Division \ Rows
        /\ arg[o].to \in Rows \cup {Top}
        /\ \A q \in Request \ {o} : arg[q].div # arg[o].div
    BY <1>1 DEF RequestInv, Creating
  <2>2. \A q \in Request \ {o} : arg'[q].div # arg[o].div
    BY <2>1
  <2> QED
    BY <2>1, <2>2 DEF RowsStay
<1>3. Moving(o)'
  BY <1>1 DEF RequestInv, Moving, RowsStay
<1>4. WritesRootBack(o)'
  BY <1>1 DEF RequestInv, Moving, WritesRootBack, RowsStay
<1>5. Archived(o)'
  BY <1>1 DEF RequestInv, Archived, RowsStay
<1>6. Locked(o)'
  <2>1. tx[o] \subseteq Division /\ tx[r] \subseteq Division
    BY DEF TreeInv, TypeOK
  <2>2. \A d \in tx[o] : d \notin tx[r]
    BY <1>1 DEF RequestInv, Locked
  <2> QED
    BY <1>1, <2>1, <2>2 DEF RequestInv, Locked
<1> QED
  BY <1>2, <1>3, <1>4, <1>5, <1>6 DEF RequestInv

-----------------------------------------------------------------------------
(* What the shared parts of the steps do.                                   *)

\* Changing one field of what was read gives what may have been read.
LEMMA ReadsFields ==
  ASSUME NEW s \in Reads
  PROVE  /\ \A p \in Division \cup {Absent, Top} : [s EXCEPT !.parent = p] \in Reads
         /\ \A b \in BOOLEAN : [s EXCEPT !.open = b] \in Reads
         /\ \A C \in SUBSET Division : [s EXCEPT !.children = C] \in Reads
<1>1. \A p \in Division \cup {Absent, Top} : [s EXCEPT !.parent = p] \in Reads
  BY Zenon DEF Reads
<1>2. \A b \in BOOLEAN : [s EXCEPT !.open = b] \in Reads
  BY Zenon DEF Reads
<1>3. \A C \in SUBSET Division : [s EXCEPT !.children = C] \in Reads
  BY Zenon DEF Reads
<1> QED
  BY <1>1, <1>2, <1>3

\* A request that starts changes nothing but its own state.
LEMMA StartFacts ==
  ASSUME TreeInv, NEW r \in Request, NEW op,
         NEW d \in Division, NEW to \in Division \cup {Top, None},
         NEW label \in Label \ {"commit"},
         Start(r, op, d, to, label),
         seen' \in [Request -> Reads],
         \A o \in Request \ {r} : /\ seen'[o] = seen[o]
                                  /\ pc[o] = "insert_division" => d # arg[o].div
  PROVE  /\ TypeOK' /\ RootInv' /\ StepOf(r) /\ Locked(r)'
         /\ Rows' = Rows /\ Roots' = Roots
         /\ pc'[r] = label /\ arg'[r].div = d /\ arg'[r].to = to
         /\ \A o \in Request \ {r} : arg'[o] = arg[o]
<1> USE DEF Start, Goto, tables
<1>1. TypeOK /\ RootInv /\ RequestInv(r)
  BY DEF TreeInv
<1>2. Rows' = Rows /\ Roots' = Roots
  BY DEF Rows, Roots
<1>3. [div |-> d, to |-> to] \in [div : Division \cup {None}, to : Division \cup {Top, None}]
  OBVIOUS
<1>4. TypeOK'
  BY <1>1, <1>3 DEF TypeOK
<1>5. pc'[r] = label /\ arg'[r] = [div |-> d, to |-> to]
  BY <1>1 DEF TypeOK
<1>6. \A o \in Request \ {r} : pc'[o] = pc[o] /\ arg'[o] = arg[o]
  BY <1>1 DEF TypeOK
<1>7. StepOf(r)
  BY <1>2, <1>5, <1>6 DEF StepOf, RowsStay, OthersStay
<1>8. Locked(r)'
  BY <1>1, <1>5 DEF RequestInv, Locked
<1>9. RootInv'
  BY <1>1, <1>2 DEF RootInv
<1> QED
  BY <1>2, <1>4, <1>5, <1>6, <1>7, <1>8, <1>9

\* A request that is answered gives its locks back and keeps nothing.
LEMMA FinishFacts ==
  ASSUME TreeInv, NEW r \in Request, Finish(r)
  PROVE  /\ divLock' \in [Division -> Request \cup {None}]
         /\ pc' \in [Request -> Label]
         /\ arg' \in [Request -> [div : Division \cup {None},
                                  to : Division \cup {Top, None}]]
         /\ seen' \in [Request -> Reads]
         /\ tx' \in [Request -> SUBSET Division]
         /\ OthersStay(r)
         /\ RequestInv(r)'
<1> USE DEF Finish, Goto
<1>1. TypeOK /\ RequestInv(r)
  BY DEF TreeInv
<1>2. NoReads \in Reads
  BY DEF NoReads, Reads
<1>3. NoArgument \in [div : Division \cup {None}, to : Division \cup {Top, None}]
  BY DEF NoArgument
<1>4. /\ divLock' \in [Division -> Request \cup {None}]
      /\ pc' \in [Request -> Label]
      /\ arg' \in [Request -> [div : Division \cup {None}, to : Division \cup {Top, None}]]
      /\ seen' \in [Request -> Reads]
      /\ tx' \in [Request -> SUBSET Division]
  BY <1>1, <1>2, <1>3 DEF TypeOK, Label
<1>5. pc'[r] = "idle" /\ arg'[r] = NoArgument /\ tx'[r] = {}
  BY <1>1 DEF TypeOK
<1>6. RequestInv(r)'
  BY <1>5 DEF RequestInv, Creating, Moving, WritesRootBack, Archived, Archiving, Locked
<1>7. \A o \in Request \ {r} :
        /\ pc'[o] = pc[o] /\ arg'[o] = arg[o] /\ seen'[o] = seen[o] /\ tx'[o] = tx[o]
        /\ \A d \in Division : divLock[d] = o => divLock'[d] = o
  BY <1>1 DEF TypeOK
<1>8. ASSUME NEW o \in Request \ {r}, pc[o] = "insert_division"
      PROVE  arg'[r].div # arg[o].div
  <2>1. arg[o].div \in Division
    BY <1>8 DEF TreeInv, RequestInv, Creating
  <2>2. arg'[r].div = None
    BY <1>5 DEF NoArgument
  <2> QED
    BY <2>1, <2>2, SpecialsDiffer
<1> QED
  BY <1>4, <1>6, <1>7, <1>8 DEF OthersStay

\* A refused request leaves the tables as they are.
LEMMA RefuseKeeps ==
  ASSUME TreeInv, NEW r \in Request, Refuse(r)
  PROVE  TypeOK' /\ RootInv' /\ StepOf(r) /\ RequestInv(r)'
<1>1. Finish(r) /\ parent' = parent /\ archived' = archived /\ eventLog' = eventLog
  BY DEF Refuse, tables
<1>2. Rows' = Rows /\ Roots' = Roots
  BY <1>1 DEF Rows, Roots
<1>3. TypeOK /\ RootInv
  BY DEF TreeInv
<1>4. TypeOK'
  BY <1>1, <1>3, FinishFacts DEF TypeOK
<1>5. RootInv'
  BY <1>2, <1>3 DEF RootInv
<1>6. StepOf(r)
  BY <1>1, <1>2, FinishFacts DEF StepOf, RowsStay
<1> QED
  BY <1>1, <1>4, <1>5, <1>6, FinishFacts

\* A step within a request that writes nothing but what it has read.
LEMMA ReadFacts ==
  ASSUME TreeInv, NEW r \in Request, NEW label \in Label \ {"commit"},
         Goto(r, label), UNCHANGED <<tables, divLock, arg, tx>>,
         seen' \in [Request -> Reads],
         \A o \in Request \ {r} : seen'[o] = seen[o]
  PROVE  /\ TypeOK' /\ RootInv' /\ StepOf(r) /\ Locked(r)'
         /\ Rows' = Rows /\ Roots' = Roots
         /\ pc'[r] = label /\ arg'[r] = arg[r]
<1> USE DEF Goto, tables
<1>1. TypeOK /\ RootInv /\ \A o \in Request : RequestInv(o)
  BY DEF TreeInv
<1>2. Rows' = Rows /\ Roots' = Roots
  BY DEF Rows, Roots
<1>3. TypeOK'
  BY <1>1 DEF TypeOK
<1>4. pc'[r] = label /\ arg'[r] = arg[r]
  BY <1>1 DEF TypeOK
<1>5. \A o \in Request \ {r} : pc'[o] = pc[o]
  BY <1>1 DEF TypeOK
<1>6. ASSUME NEW o \in Request \ {r}, pc[o] = "insert_division"
      PROVE  arg'[r].div # arg[o].div
  BY <1>1, <1>4, <1>6 DEF RequestInv, Creating
<1>7. StepOf(r)
  BY <1>2, <1>5, <1>6 DEF StepOf, RowsStay, OthersStay
<1>8. Locked(r)'
  BY <1>1, <1>4 DEF RequestInv, Locked
<1>9. RootInv'
  BY <1>1, <1>2 DEF RootInv
<1> QED
  BY <1>2, <1>3, <1>4, <1>7, <1>8, <1>9

-----------------------------------------------------------------------------
(* The steps that start a request.                                          *)

\* A request starts with what it needs to be true of its division.
LEMMA BeginKeeps ==
  ASSUME TreeInv, NEW r \in Request, Begin(r)
  PROVE  TypeOK' /\ RootInv' /\ StepOf(r) /\ RequestInv(r)'
<1> USE DEF RequestInv, Creating, Moving, WritesRootBack, Archived
<1>1. TypeOK /\ RequestInv(r)
  BY DEF TreeInv
<1>2. \A d \in Rows : d \in Division
  BY DEF Rows
<1>3. \A o \in Request : pc[o] = "insert_division" => arg[o].div \notin Rows
  BY DEF TreeInv
<1>4. CASE \E d, p \in Division : BeginCreate(r, d, p)
  <2>1. PICK d \in Division, p \in Division : BeginCreate(r, d, p)
    BY <1>4
  <2>2. /\ d \notin Rows /\ p \in Rows /\ \A o \in Request : arg[o].div # d
        /\ Start(r, "create", d, p, "insert_division") /\ seen' = seen
    BY <2>1 DEF BeginCreate
  <2>3. seen' \in [Request -> Reads] /\ "insert_division" \in Label \ {"commit"}
    BY <1>1, <2>2 DEF TypeOK, Label
  <2>4. /\ TypeOK' /\ RootInv' /\ StepOf(r) /\ Locked(r)'
        /\ Rows' = Rows /\ Roots' = Roots
        /\ pc'[r] = "insert_division" /\ arg'[r].div = d /\ arg'[r].to = p
        /\ \A o \in Request \ {r} : arg'[o] = arg[o]
    BY <2>2, <2>3, StartFacts
  <2> QED
    BY <2>2, <2>4 DEF Archiving
<1>5. CASE \E d \in Division : BeginCreateRoot(r, d)
  <2>1. PICK d \in Division : BeginCreateRoot(r, d)
    BY <1>5
  <2>2. /\ d \notin Rows /\ \A o \in Request : arg[o].div # d
        /\ Start(r, "create", d, Top, "insert_division") /\ seen' = seen
    BY <2>1 DEF BeginCreateRoot
  <2>3. seen' \in [Request -> Reads] /\ "insert_division" \in Label \ {"commit"}
    BY <1>1, <2>2 DEF TypeOK, Label
  <2>4. /\ TypeOK' /\ RootInv' /\ StepOf(r) /\ Locked(r)'
        /\ Rows' = Rows /\ Roots' = Roots
        /\ pc'[r] = "insert_division" /\ arg'[r].div = d /\ arg'[r].to = Top
        /\ \A o \in Request \ {r} : arg'[o] = arg[o]
    BY <2>2, <2>3, StartFacts
  <2> QED
    BY <2>2, <2>4 DEF Archiving
<1>6. CASE \E d \in Division : BeginArchive(r, d)
  <2>1. PICK d \in Division : BeginArchive(r, d)
    BY <1>6
  <2>2. /\ d \in Rows
        /\ Start(r, "archive", d, None, "list_subtree") /\ seen' = seen
    BY <2>1 DEF BeginArchive
  <2>3. seen' \in [Request -> Reads] /\ "list_subtree" \in Label \ {"commit"}
    BY <1>1, <2>2 DEF TypeOK, Label
  <2>4. /\ TypeOK' /\ RootInv' /\ StepOf(r) /\ Locked(r)' /\ Rows' = Rows
        /\ pc'[r] = "list_subtree" /\ arg'[r].div = d
    BY <1>3, <2>2, <2>3, StartFacts
  <2> QED
    BY <2>2, <2>4
<1>7. CASE \E d \in Division, to \in Division \cup {None} : BeginPatch(r, d, to)
  <2>1. PICK d \in Division, to \in Division \cup {None} : BeginPatch(r, d, to)
    BY <1>7
  <2> DEFINE label == IF to = None THEN "update_division" ELSE "read_parent"
  <2>2. /\ d \in Rows /\ (to # None => to \in Rows)
        /\ Start(r, "patch", d, to, label)
    BY <2>1 DEF BeginPatch
  <2>3. seen' = [seen EXCEPT ![r] =
                   [[seen[r] EXCEPT !.parent = parent[d]] EXCEPT !.open = d \notin archived]]
    BY <1>1, <2>1 DEF BeginPatch, TypeOK
  <2>4. /\ seen[r] \in Reads /\ parent[d] \in Division \cup {Absent, Top}
        /\ (d \notin archived) \in BOOLEAN
    BY <1>1 DEF TypeOK
  <2>5. [seen[r] EXCEPT !.parent = parent[d]] \in Reads
    BY <2>4, ReadsFields
  <2>6. [[seen[r] EXCEPT !.parent = parent[d]] EXCEPT !.open = d \notin archived] \in Reads
    BY <2>4, <2>5, ReadsFields
  <2>7. seen' \in [Request -> Reads] /\ \A o \in Request \ {r} : seen'[o] = seen[o]
    BY <1>1, <2>3, <2>6 DEF TypeOK
  <2>8. label \in Label \ {"commit"}
    BY DEF Label
  <2>9. /\ TypeOK' /\ RootInv' /\ StepOf(r) /\ Locked(r)'
        /\ Rows' = Rows /\ Roots' = Roots
        /\ pc'[r] = label /\ arg'[r].div = d /\ arg'[r].to = to
    <3> HIDE DEF label
    <3> QED
      BY <1>3, <2>2, <2>7, <2>8, StartFacts
  <2>10. seen'[r].parent = parent[d]
    <3>1. DOMAIN seen[r] = {"parent", "open", "children"}
      BY <2>4 DEF Reads
    <3> QED
      BY <1>1, <2>1, <3>1 DEF BeginPatch, TypeOK
  <2>11. parent[d] # Absent /\ (parent[d] = Top <=> d \in Roots)
    BY <2>2 DEF Rows, Roots
  <2>12. CASE to = None
    BY <2>2, <2>9, <2>10, <2>11, <2>12 DEF Archiving
  <2>13. CASE to # None
    BY <2>2, <2>9, <2>13 DEF Archiving
  <2> QED
    BY <2>12, <2>13
<1> QED
  BY <1>4, <1>5, <1>6, <1>7 DEF Begin

-----------------------------------------------------------------------------
(* POST and PATCH.                                                          *)

\* The row inserted is a root only if there was none.
LEMMA InsertKeeps ==
  ASSUME TreeInv, NEW r \in Request, InsertDivision(r)
  PROVE  TypeOK' /\ RootInv' /\ StepOf(r) /\ RequestInv(r)' /\ archived' = archived
<1> DEFINE d  == arg[r].div
           to == arg[r].to
<1>1. TypeOK /\ RootInv /\ Creating(r)
  BY DEF TreeInv, RequestInv
<1>2. /\ pc[r] = "insert_division" /\ (to = Top => Roots = {})
      /\ parent' = [parent EXCEPT ![d] = to]
      /\ archived' = archived /\ eventLog' = eventLog /\ Finish(r)
  BY DEF InsertDivision
<1>3. d \in Division /\ d \notin Rows /\ to \in Rows \cup {Top}
  BY <1>1, <1>2 DEF Creating
<1>4. to \in Division \cup {Top} /\ to # Absent /\ (to \in Rows => to # Top)
  BY <1>3, SpecialsDiffer DEF Rows
<1> HIDE DEF d, to
<1>5. parent' \in [Division -> Division \cup {Absent, Top}]
  BY <1>1, <1>2, <1>4 DEF TypeOK
<1>6. Rows' = Rows \cup {d}
  BY <1>1, <1>2, <1>3, <1>4 DEF TypeOK, Rows
<1>7. Roots' = IF to = Top THEN Roots \cup {d} ELSE Roots
  <2>1. d \notin Roots
    BY <1>3, SpecialsDiffer DEF Rows, Roots
  <2> QED
    BY <1>1, <1>2, <1>3, <2>1 DEF TypeOK, Roots
<1>8. TypeOK'
  BY <1>1, <1>2, <1>5, FinishFacts DEF TypeOK
<1>9. RootInv'
  BY <1>1, <1>2, <1>3, <1>6, <1>7 DEF RootInv
<1>10. RowsStay
  BY <1>2, <1>3, <1>6, <1>7 DEF RowsStay
<1>11. StepOf(r)
  BY <1>2, <1>6, <1>10, FinishFacts DEF StepOf, d
<1> QED
  BY <1>2, <1>8, <1>9, <1>11, FinishFacts

\* Reading the new parent gives no permission that was not there.
LEMMA ReadParentKeeps ==
  ASSUME TreeInv, NEW r \in Request, ReadParent(r)
  PROVE  TypeOK' /\ RootInv' /\ StepOf(r) /\ RequestInv(r)'
<1>1. TypeOK /\ Moving(r)
  BY DEF TreeInv, RequestInv
<1>2. /\ pc[r] = "read_parent" /\ Goto(r, "read_ancestors")
      /\ UNCHANGED <<tables, divLock, arg, tx>>
  BY DEF ReadParent
<1>3. seen' = [seen EXCEPT ![r] =
        [seen[r] EXCEPT !.open = seen[r].open /\ arg[r].to \notin archived]]
  BY <1>1 DEF ReadParent, TypeOK
<1>4. seen[r] \in Reads /\ (seen[r].open /\ arg[r].to \notin archived) \in BOOLEAN
  BY <1>1 DEF TypeOK
<1>5. [seen[r] EXCEPT !.open = seen[r].open /\ arg[r].to \notin archived] \in Reads
  BY <1>4, ReadsFields
<1>6. seen' \in [Request -> Reads] /\ \A o \in Request \ {r} : seen'[o] = seen[o]
  BY <1>1, <1>3, <1>5 DEF TypeOK
<1>7. "read_ancestors" \in Label \ {"commit"}
  BY DEF Label
<1>8. /\ TypeOK' /\ RootInv' /\ StepOf(r) /\ Locked(r)' /\ Rows' = Rows
      /\ pc'[r] = "read_ancestors" /\ arg'[r] = arg[r]
  BY <1>2, <1>6, <1>7, ReadFacts
<1> QED
  BY <1>1, <1>2, <1>8 DEF RequestInv, Creating, Moving, WritesRootBack, Archived, Archiving

\* A division below which the root is not may not be the root: the walk up from
\* the new parent ends at the only root, and the division is not on it.
LEMMA ReadAncestorsKeeps ==
  ASSUME TreeInv, NEW r \in Request, ReadAncestors(r)
  PROVE  TypeOK' /\ RootInv' /\ StepOf(r) /\ RequestInv(r)'
<1>1. TypeOK /\ RootInv /\ Moving(r)
  BY DEF TreeInv, RequestInv
<1>2. /\ pc[r] = "read_ancestors" /\ Goto(r, "update_division")
      /\ UNCHANGED <<tables, divLock, arg, tx>> /\ seen' = seen
      /\ Rooted(parent, arg[r].to, Top) /\ MayMove(r)
  BY DEF ReadAncestors
<1>3. "update_division" \in Label \ {"commit"} /\ seen' \in [Request -> Reads]
  BY <1>1, <1>2 DEF Label, TypeOK
<1>4. /\ TypeOK' /\ RootInv' /\ StepOf(r) /\ Locked(r)'
      /\ Rows' = Rows /\ Roots' = Roots
      /\ pc'[r] = "update_division" /\ arg'[r] = arg[r]
  BY <1>2, <1>3, ReadFacts
<1>5. arg[r].div \in Rows /\ arg[r].to \in Rows
  BY <1>1, <1>2 DEF Moving
<1>6. arg[r].div \notin Roots
  <2>1. PICK x \in Ancestors(parent, arg[r].to) \cup {arg[r].to} : parent[x] = Top
    BY <1>2 DEF Rooted
  <2>2. x \in Division
    BY <1>1, <1>5, <2>1 DEF Ancestors, TypeOK, Rows
  <2>3. x # arg[r].div
    BY <1>2, <2>1 DEF MayMove
  <2> QED
    BY <1>1, <2>1, <2>2, <2>3 DEF RootInv, Roots
<1>7. arg[r].to # None
  BY <1>5, SpecialsDiffer DEF Rows
<1> QED
  BY <1>4, <1>5, <1>6, <1>7
     DEF RequestInv, Creating, Moving, WritesRootBack, Archived, Archiving

\* The row written back is a root if and only if it was one.
LEMMA UpdateKeeps ==
  ASSUME TreeInv, NEW r \in Request, UpdateDivision(r)
  PROVE  /\ TypeOK' /\ RootInv' /\ StepOf(r) /\ RequestInv(r)'
         /\ archived' \subseteq archived /\ eventLog' = eventLog
<1> DEFINE d  == arg[r].div
           to == arg[r].to
           v  == IF to = None THEN seen[r].parent ELSE to
<1>1. TypeOK /\ RootInv /\ Moving(r) /\ WritesRootBack(r)
  BY DEF TreeInv, RequestInv
<1>2. /\ pc[r] = "update_division" /\ parent' = [parent EXCEPT ![d] = v]
      /\ archived' = archived \ {d} /\ eventLog' = eventLog /\ Finish(r)
  BY DEF UpdateDivision
<1>3. d \in Rows /\ to \in Rows \cup {None}
  BY <1>1, <1>2 DEF Moving
<1>4. v \in Division \cup {Top} /\ (v = Top <=> d \in Roots)
  <2>1. CASE to = None
    <3>1. seen[r].parent \in Division \cup {Absent, Top}
      BY <1>1 DEF TypeOK, Reads
    <3> QED
      BY <1>1, <1>2, <2>1, <3>1 DEF WritesRootBack
  <2>2. CASE to # None
    <3>1. to \in Division /\ to # Top
      BY <1>3, <2>2, SpecialsDiffer DEF Rows
    <3> QED
      BY <1>1, <1>2, <2>2, <3>1 DEF WritesRootBack
  <2> QED
    BY <2>1, <2>2
<1>5. d \in Division /\ parent[d] # Absent
  BY <1>3 DEF Rows
<1> HIDE DEF d, to, v
<1>6. parent' \in [Division -> Division \cup {Absent, Top}] /\ archived' \in SUBSET Division
  BY <1>1, <1>2, <1>4 DEF TypeOK
<1>7. Rows' = Rows
  <2>1. v # Absent
    BY <1>4, SpecialsDiffer
  <2> QED
    BY <1>1, <1>2, <1>5, <2>1 DEF TypeOK, Rows
<1>8. Roots' = Roots
  <2>1. \A e \in Division : parent'[e] = Top <=> parent[e] = Top
    BY <1>1, <1>2, <1>4, <1>5 DEF TypeOK, Roots
  <2> QED
    BY <2>1 DEF Roots
<1>9. TypeOK'
  BY <1>1, <1>2, <1>6, FinishFacts DEF TypeOK
<1>10. RootInv'
  BY <1>1, <1>7, <1>8 DEF RootInv
<1>11. StepOf(r)
  BY <1>2, <1>7, <1>8, FinishFacts DEF StepOf, RowsStay
<1> QED
  BY <1>2, <1>9, <1>10, <1>11, FinishFacts

-----------------------------------------------------------------------------
(* Archiving.                                                               *)

\* Listing the subtree and scanning it write nothing.
LEMMA ScanKeeps ==
  ASSUME TreeInv, NEW r \in Request, ListSubtree(r) \/ ScanChildren(r)
  PROVE  TypeOK' /\ RootInv' /\ StepOf(r) /\ RequestInv(r)'
<1> DEFINE label == IF pc[r] = "list_subtree" THEN "scan_children"
                                              ELSE "archiving_children"
<1>1. TypeOK /\ Archived(r)
  BY DEF TreeInv, RequestInv
<1>2. /\ pc[r] \in {"list_subtree", "scan_children"} /\ Goto(r, label)
      /\ UNCHANGED <<tables, divLock, arg, tx>>
  BY DEF ListSubtree, ScanChildren
<1>3. seen' \in [Request -> Reads] /\ \A o \in Request \ {r} : seen'[o] = seen[o]
  <2>1. CASE ListSubtree(r)
    BY <1>1, <2>1 DEF ListSubtree, TypeOK
  <2>2. CASE ScanChildren(r)
    <3> DEFINE C == Descendants(parent, arg[r].div) \ (archived \cup {arg[r].div})
    <3>1. C \in SUBSET Division
      BY <1>1 DEF Descendants, TypeOK
    <3>2. seen' = [seen EXCEPT ![r] = [seen[r] EXCEPT !.children = C]]
      BY <1>1, <2>2 DEF ScanChildren, TypeOK
    <3>3. [seen[r] EXCEPT !.children = C] \in Reads
      BY <1>1, <3>1, ReadsFields DEF TypeOK
    <3> QED
      BY <1>1, <3>2, <3>3 DEF TypeOK
  <2> QED
    BY <2>1, <2>2
<1>4. label \in Label \ {"commit"}
  BY DEF Label
<1>5. /\ TypeOK' /\ RootInv' /\ StepOf(r) /\ Locked(r)' /\ Rows' = Rows
      /\ pc'[r] = label /\ arg'[r] = arg[r]
  <2> HIDE DEF label
  <2> QED
    BY <1>2, <1>3, <1>4, ReadFacts
<1> QED
  BY <1>1, <1>2, <1>5
     DEF RequestInv, Creating, Moving, WritesRootBack, Archived, Archiving

\* A row that is archived in the transaction was free and is locked by it.
LEMMA ArchiveRowKeeps ==
  ASSUME TreeInv, NEW r \in Request, NEW d \in Division, NEW N \in SUBSET {d},
         NEW label \in {"archiving_children", "commit"},
         pc[r] = "archiving_children",
         Unlocked(d, r), N \cap archived = {},
         divLock' = [divLock EXCEPT ![d] = r],
         tx' = [tx EXCEPT ![r] = tx[r] \cup N],
         Goto(r, label), UNCHANGED <<tables, arg>>,
         seen' \in [Request -> Reads],
         \A o \in Request \ {r} : seen'[o] = seen[o],
         label = "commit" => N = {arg[r].div}
  PROVE  TypeOK' /\ RootInv' /\ StepOf(r) /\ RequestInv(r)'
<1> USE DEF Goto, tables
<1>1. TypeOK /\ RootInv /\ \A o \in Request : RequestInv(o)
  BY DEF TreeInv
<1>2. Rows' = Rows /\ Roots' = Roots
  BY DEF Rows, Roots
<1>3. divLock' \in [Division -> Request \cup {None}] /\ tx' \in [Request -> SUBSET Division]
  BY <1>1 DEF TypeOK
<1>4. pc' \in [Request -> Label]
  BY <1>1 DEF TypeOK, Label
<1>5. TypeOK'
  BY <1>1, <1>3, <1>4 DEF TypeOK
<1>6. RootInv'
  BY <1>1, <1>2 DEF RootInv
<1>7. pc'[r] = label /\ tx'[r] = tx[r] \cup N
  BY <1>1 DEF TypeOK
<1>8. \A o \in Request \ {r} : pc'[o] = pc[o] /\ tx'[o] = tx[o]
  BY <1>1 DEF TypeOK
<1>9. \A o \in Request \ {r}, x \in Division : divLock[x] = o => divLock'[x] = o
  BY <1>1, SpecialsDiffer DEF TypeOK, Unlocked
<1>10. \A o \in Request \ {r} : pc[o] = "insert_division" => arg'[r].div # arg[o].div
  BY <1>1 DEF RequestInv, Creating
<1>11. StepOf(r)
  BY <1>2, <1>8, <1>9, <1>10 DEF StepOf, RowsStay, OthersStay
<1>12. Locked(r)'
  <2>1. \A x \in tx[r] : x \in Division /\ divLock[x] = r /\ x \notin archived
    BY <1>1 DEF RequestInv, Locked, TypeOK
  <2>2. divLock'[d] = r /\ \A x \in Division : divLock[x] = r => divLock'[x] = r
    BY <1>1 DEF TypeOK
  <2>3. \A x \in tx'[r] : divLock'[x] = r /\ x \notin archived
    BY <1>7, <2>1, <2>2
  <2> QED
    BY <1>7, <2>3 DEF Locked
<1>13. arg[r].div \in Rows
  BY <1>1 DEF RequestInv, Archived, Archiving
<1> QED
  BY <1>2, <1>5, <1>6, <1>7, <1>11, <1>12, <1>13
     DEF RequestInv, Creating, Moving, WritesRootBack, Archived

\* One row of the subtree.
LEMMA ArchiveChildKeeps ==
  ASSUME TreeInv, NEW r \in Request, NEW d \in Division, ArchiveChild(r, d)
  PROVE  TypeOK' /\ RootInv' /\ StepOf(r) /\ RequestInv(r)'
<1> DEFINE N == {d} \ archived
           C == seen[r].children \ {d}
<1>1. TypeOK
  BY DEF TreeInv
<1>2. /\ pc[r] = "archiving_children" /\ Unlocked(d, r)
      /\ divLock' = [divLock EXCEPT ![d] = r]
      /\ UNCHANGED <<tables, arg>> /\ pc' = pc
  BY DEF ArchiveChild
<1>3. tx' = [tx EXCEPT ![r] = tx[r] \cup N]
  BY <1>1 DEF ArchiveChild, TypeOK
<1>4. Goto(r, "archiving_children")
  BY <1>1, <1>2 DEF Goto, TypeOK
<1>5. seen' = [seen EXCEPT ![r] = [seen[r] EXCEPT !.children = C]]
  BY <1>1 DEF ArchiveChild, TypeOK
<1>6. [seen[r] EXCEPT !.children = C] \in Reads
  <2>1. seen[r] \in Reads /\ C \in SUBSET Division
    BY <1>1 DEF TypeOK, Reads
  <2> QED
    BY <2>1, ReadsFields
<1>7. seen' \in [Request -> Reads] /\ \A o \in Request \ {r} : seen'[o] = seen[o]
  BY <1>1, <1>5, <1>6 DEF TypeOK
<1>8. N \in SUBSET {d} /\ N \cap archived = {}
  OBVIOUS
<1> HIDE DEF N
<1> QED
  BY <1>2, <1>3, <1>4, <1>7, <1>8, ArchiveRowKeeps

\* The row of the division itself, the last one.
LEMMA ArchiveRootKeeps ==
  ASSUME TreeInv, NEW r \in Request, ArchiveRoot(r)
  PROVE  TypeOK' /\ RootInv' /\ StepOf(r) /\ RequestInv(r)'
<1> DEFINE d == arg[r].div
<1>1. TypeOK /\ Archived(r)
  BY DEF TreeInv, RequestInv
<1>2. /\ pc[r] = "archiving_children" /\ Unlocked(d, r) /\ d \notin archived
      /\ divLock' = [divLock EXCEPT ![d] = r]
      /\ tx' = [tx EXCEPT ![r] = tx[r] \cup {d}]
      /\ Goto(r, "commit") /\ UNCHANGED <<tables, arg>> /\ seen' = seen
  BY <1>1 DEF ArchiveRoot, TypeOK
<1>3. d \in Division
  BY <1>1, <1>2 DEF Archived, Archiving, Rows
<1>4. seen' \in [Request -> Reads] /\ \A o \in Request \ {r} : seen'[o] = seen[o]
  BY <1>1, <1>2 DEF TypeOK
<1>5. {d} \in SUBSET {d} /\ {d} \cap archived = {}
  BY <1>2
<1> QED
  BY <1>2, <1>3, <1>4, <1>5, ArchiveRowKeeps

\* The commit publishes what the transaction has archived.
LEMMA CommitKeeps ==
  ASSUME TreeInv, NEW r \in Request, Commit(r)
  PROVE  /\ TypeOK' /\ RootInv' /\ StepOf(r) /\ RequestInv(r)'
         /\ \E d \in archived' \ archived : eventLog' = Append(eventLog, d)
<1>1. TypeOK /\ RootInv /\ Locked(r)
  BY DEF TreeInv, RequestInv
<1>2. /\ pc[r] = "commit" /\ archived' = archived \cup tx[r]
      /\ eventLog' = Append(eventLog, arg[r].div) /\ parent' = parent /\ Finish(r)
  BY DEF Commit
<1>3. arg[r].div \in tx[r] /\ arg[r].div \notin archived /\ tx[r] \subseteq Division
  BY <1>1, <1>2 DEF Locked, TypeOK
<1>4. Rows' = Rows /\ Roots' = Roots
  BY <1>2 DEF Rows, Roots
<1>5. eventLog' \in Seq(Division) /\ archived' \in SUBSET Division
  BY <1>1, <1>2, <1>3 DEF TypeOK
<1>6. TypeOK'
  BY <1>1, <1>2, <1>5, FinishFacts DEF TypeOK
<1>7. RootInv'
  BY <1>1, <1>4 DEF RootInv
<1>8. StepOf(r)
  BY <1>2, <1>4, FinishFacts DEF StepOf, RowsStay
<1> QED
  BY <1>2, <1>3, <1>6, <1>7, <1>8, FinishFacts

-----------------------------------------------------------------------------
(* The invariant, and the theorems.                                         *)

\* Every step keeps the invariant, and logs what it archives.
LEMMA StepKeeps ==
  ASSUME TreeInv, NEW r \in Request, Begin(r) \/ Step(r) \/ Fail(r)
  PROVE  /\ TypeOK' /\ RootInv' /\ StepOf(r) /\ RequestInv(r)'
         /\ \/ archived' \subseteq archived /\ eventLog' = eventLog
            \/ \E d \in archived' \ archived : eventLog' = Append(eventLog, d)
<1>1. CASE Begin(r)
  <2>1. archived' = archived /\ eventLog' = eventLog
    BY <1>1 DEF Begin, BeginCreate, BeginCreateRoot, BeginPatch, BeginArchive, Start, tables
  <2> QED
    BY <1>1, <2>1, BeginKeeps
<1>2. CASE InsertDivision(r)
  BY <1>2, InsertKeeps DEF InsertDivision
<1>3. CASE SecondRoot(r) \/ RefuseMove(r) \/ ArchiveNoop(r) \/ Fail(r)
  <2>1. Refuse(r)
    BY <1>3 DEF SecondRoot, RefuseMove, ArchiveNoop, Fail
  <2> QED
    BY <2>1, RefuseKeeps DEF Refuse, tables
<1>4. CASE ReadParent(r)
  BY <1>4, ReadParentKeeps DEF ReadParent, tables
<1>5. CASE ReadAncestors(r)
  BY <1>5, ReadAncestorsKeeps DEF ReadAncestors, tables
<1>6. CASE UpdateDivision(r)
  BY <1>6, UpdateKeeps
<1>7. CASE ListSubtree(r) \/ ScanChildren(r)
  BY <1>7, ScanKeeps DEF ListSubtree, ScanChildren, tables
<1>8. CASE \E d \in Division : ArchiveChild(r, d)
  BY <1>8, ArchiveChildKeeps DEF ArchiveChild, tables
<1>9. CASE ArchiveRoot(r)
  BY <1>9, ArchiveRootKeeps DEF ArchiveRoot, tables
<1>10. CASE Commit(r)
  BY <1>10, CommitKeeps
<1> QED
  BY <1>1, <1>2, <1>3, <1>4, <1>5, <1>6, <1>7, <1>8, <1>9, <1>10 DEF Step

\* The invariant holds after every step if it did before.
LEMMA TreeInvStep == TreeInv /\ [Next]_vars => TreeInv'
<1> SUFFICES ASSUME TreeInv, [Next]_vars PROVE TreeInv'
  OBVIOUS
<1>1. CASE \E r \in Request : Begin(r) \/ Step(r) \/ Fail(r)
  <2>1. PICK r \in Request : Begin(r) \/ Step(r) \/ Fail(r)
    BY <1>1
  <2>2. TypeOK' /\ RootInv' /\ StepOf(r) /\ RequestInv(r)'
    BY <2>1, StepKeeps
  <2>3. \A o \in Request \ {r} : RequestInv(o)'
    BY <2>2, OthersKeep
  <2> QED
    BY <2>2, <2>3 DEF TreeInv
<1>2. CASE UNCHANGED vars
  BY <1>2 DEF vars, tables, TreeInv, TypeOK, RootInv, Rows, Roots, RequestInv,
              Creating, Moving, WritesRootBack, Archived, Locked
<1> QED
  BY <1>1, <1>2 DEF Next, Quiet

\* What the proofs of the theorems rest on.
LEMMA TreeInvHolds == Spec => []TreeInv
<1> QED
  BY InitTreeInv, TreeInvStep, PTL DEF Spec

\* Every variable has its type: an UPDATE that writes parent_id back writes one
\* that was read from a row, and the reads of a request that ended are gone.
THEOREM TreeTypes == Spec => []TypeOK
<1>1. TreeInv => TypeOK
  BY DEF TreeInv
<1> QED
  BY <1>1, TreeInvHolds, PTL

\* A tree that has divisions has one root, whatever requests create and move
\* divisions at the same time: of two first divisions the index refuses one, and
\* a move of the root, which ReadAncestors refuses, is not made possible by any
\* change between the reads and the UPDATE.
THEOREM AlwaysOneRoot == Spec => []OneRoot
<1>1. TreeInv => OneRoot
  <2> SUFFICES ASSUME TreeInv, Rows # {} PROVE Cardinality(Roots) = 1
    BY DEF OneRoot
  <2>1. PICK d : d \in Roots
    BY DEF TreeInv, RootInv
  <2>2. Roots = {d}
    BY <2>1 DEF TreeInv, RootInv
  <2> QED
    BY <2>2, FS_Singleton
<1> QED
  BY <1>1, TreeInvHolds, PTL

\* A division turns archived only in a commit with one entry, which names a
\* division this commit archived: the row lock held since the statement that
\* archived it keeps every other cascade from having done so.
THEOREM EveryArchivalIsLogged == Spec => ArchivalIsLogged
<1>1. TreeInv /\ [Next]_vars =>
        [ \/ archived' \subseteq archived /\ eventLog' = eventLog
          \/ \E d \in archived' \ archived : eventLog' = Append(eventLog, d)
        ]_<<archived, eventLog>>
  <2> SUFFICES ASSUME TreeInv, [Next]_vars, <<archived, eventLog>>' # <<archived, eventLog>>
               PROVE  \/ archived' \subseteq archived /\ eventLog' = eventLog
                      \/ \E d \in archived' \ archived : eventLog' = Append(eventLog, d)
    OBVIOUS
  <2>1. PICK r \in Request : Begin(r) \/ Step(r) \/ Fail(r)
    BY DEF Next, Quiet, vars, tables
  <2> QED
    BY <2>1, StepKeeps
<1> QED
  BY <1>1, TreeInvHolds, PTL DEF Spec, ArchivalIsLogged

=============================================================================
