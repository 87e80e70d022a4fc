----------------------- MODULE DivisionTreeSerial_proofs -----------------------
(***************************************************************************)
(* Theorems about DivisionTree when OneAtATime: requests that create and    *)
(* move divisions overlap with nothing, and archives with archives only.   *)
(* Then the reads a request decides on are still true when it writes, and  *)
(* what MCDivisionTreeCycle and MCDivisionTreeRevived refute for requests  *)
(* that overlap holds.                                                     *)
(***************************************************************************)
EXTENDS DivisionTree_proofs

\* A request that may write a row of its own is alone.
Alone ==
  \A r \in Request : pc[r] \notin Archiving \cup {"idle"} =>
    \A o \in Request \ {r} : pc[o] = "idle"

\* parent_id references a row.
ParentsExist == \A d \in Rows : parent[d] \in Rows \cup {Top}

\* The checks of POST and PATCH hold until their last statement.
ChecksHold(r) ==
  /\ pc[r] = "insert_division" => arg[r].to \notin archived
  /\ pc[r] \in {"read_parent", "read_ancestors"} /\ seen[r].open =>
       /\ arg[r].div \notin archived
       /\ pc[r] = "read_ancestors" => arg[r].to \notin archived
  /\ pc[r] = "update_division" =>
       /\ arg[r].div \notin archived
       /\ arg[r].to = None => seen[r].parent = parent[arg[r].div]
       /\ arg[r].to # None =>
            /\ arg[r].to \notin archived /\ arg[r].div # arg[r].to
            /\ arg[r].div \notin Ancestors(parent, arg[r].to)

\* A cascade has archived, or is going to, what is below its division.
CascadeCovers(r) ==
  /\ pc[r] \notin {"archiving_children", "commit"} => tx[r] = {}
  /\ pc[r] \in {"archiving_children", "commit"} =>
       /\ tx[r] \cup seen[r].children \subseteq Descendants(parent, arg[r].div)
       /\ Descendants(parent, arg[r].div) \ {arg[r].div}
            \subseteq archived \cup tx[r] \cup seen[r].children
  /\ pc[r] = "commit" => seen[r].children = {}

SerialInv ==
  /\ TreeInv /\ Alone /\ ParentsExist /\ Acyclic /\ ArchivedAreClosed
  /\ \A r \in Request : ChecksHold(r) /\ CascadeCovers(r)

-----------------------------------------------------------------------------
(* The recursive queries: facts about any map from divisions to parents.    *)

\* The subtree of d contains d, and with a division its children.
LEMMA SubtreeClosed ==
  ASSUME NEW p, NEW d \in DOMAIN p
  PROVE  /\ d \in Descendants(p, d)
         /\ \A y \in DOMAIN p : p[y] \in Descendants(p, d) => y \in Descendants(p, d)
<1>1. d \in Descendants(p, d)
  BY DEF Descendants
<1>2. ASSUME NEW y \in DOMAIN p, p[y] \in Descendants(p, d)
      PROVE  y \in Descendants(p, d)
  <2> SUFFICES ASSUME NEW S \in SUBSET DOMAIN p, d \in S,
                      \A z \in DOMAIN p : p[z] \in S => z \in S
               PROVE  y \in S
    BY DEF Descendants
  <2>1. p[y] \in S
    BY <1>2 DEF Descendants
  <2> QED
    BY <2>1
<1> QED
  BY <1>1, <1>2

\* It is the least such set.
LEMMA SubtreeLeast ==
  ASSUME NEW p, NEW d, NEW S \in SUBSET DOMAIN p, d \in S,
         \A y \in DOMAIN p : p[y] \in S => y \in S
  PROVE  Descendants(p, d) \subseteq S
<1> QED
  BY DEF Descendants

\* The subtree of a division of the subtree is part of it.
LEMMA SubtreeNested ==
  ASSUME NEW p, NEW d \in DOMAIN p, NEW x \in Descendants(p, d)
  PROVE  Descendants(p, x) \subseteq Descendants(p, d)
<1>1. Descendants(p, d) \in SUBSET DOMAIN p
  BY DEF Descendants
<1> QED
  BY <1>1, SubtreeClosed, SubtreeLeast

\* The parent of what is below d is in the subtree of d.
LEMMA SubtreeParent ==
  ASSUME NEW p, NEW d \in DOMAIN p, NEW x \in Descendants(p, d), x # d
  PROVE  p[x] \in Descendants(p, d)
<1> DEFINE S == {y \in Descendants(p, d) : y = d \/ p[y] \in Descendants(p, d)}
<1>1. S \in SUBSET DOMAIN p
  BY DEF Descendants
<1>2. d \in S
  BY SubtreeClosed
<1>3. \A y \in DOMAIN p : p[y] \in S => y \in S
  BY SubtreeClosed
<1>4. Descendants(p, d) \subseteq S
  <2> HIDE DEF S
  <2> QED
    BY <1>1, <1>2, <1>3, SubtreeLeast
<1> QED
  BY <1>4

\* No division is below itself.
NoCycle(p) == \A d \in DOMAIN p : p[d] \notin Descendants(p, d)

\* Making a root, or removing a row, makes no cycle.
LEMMA UprootingIsSafe ==
  ASSUME NEW p, NEW d \in DOMAIN p, NEW v, v \notin DOMAIN p, NoCycle(p)
  PROVE  NoCycle([p EXCEPT ![d] = v])
<1> DEFINE q == [p EXCEPT ![d] = v]
<1>1. DOMAIN q = DOMAIN p /\ q[d] = v /\ \A y \in DOMAIN p \ {d} : q[y] = p[y]
  OBVIOUS
<1> HIDE DEF q
<1> SUFFICES ASSUME NEW x \in DOMAIN p PROVE q[x] \notin Descendants(q, x)
  BY <1>1 DEF NoCycle, q
<1>2. CASE x = d
  BY <1>1, <1>2 DEF Descendants
<1>3. CASE x # d
  <2>1. Descendants(p, x) \in SUBSET DOMAIN q /\ x \in Descendants(p, x)
    BY <1>1, SubtreeClosed DEF Descendants
  <2>2. \A y \in DOMAIN q : q[y] \in Descendants(p, x) => y \in Descendants(p, x)
    BY <1>1, <2>1, SubtreeClosed
  <2>3. Descendants(q, x) \subseteq Descendants(p, x)
    BY <2>1, <2>2, SubtreeLeast
  <2> QED
    BY <1>1, <1>3, <2>3 DEF NoCycle
<1> QED
  BY <1>2, <1>3

\* Nor does a move that ValidateMove allows.
LEMMA MovingIsSafe ==
  ASSUME NEW p, NEW d \in DOMAIN p, NEW to \in DOMAIN p,
         d # to, d \notin Ancestors(p, to), NoCycle(p)
  PROVE  NoCycle([p EXCEPT ![d] = to])
<1> DEFINE q == [p EXCEPT ![d] = to]
           D(x) == Descendants(p, x)
<1>1. DOMAIN q = DOMAIN p /\ q[d] = to /\ \A y \in DOMAIN p \ {d} : q[y] = p[y]
  OBVIOUS
<1>2. \A x \in DOMAIN p :
        /\ D(x) \in SUBSET DOMAIN p /\ x \in D(x)
        /\ \A y \in DOMAIN p : p[y] \in D(x) => y \in D(x)
        /\ p[x] \notin D(x)
  BY SubtreeClosed DEF NoCycle, Descendants
<1>3. to \notin D(d)
  <2> SUFFICES ASSUME to \in D(d) PROVE FALSE
    OBVIOUS
  <2>1. p[to] \in D(d)
    BY SubtreeParent
  <2> QED
    BY <1>2, <2>1 DEF Ancestors
<1> HIDE DEF q
<1> SUFFICES ASSUME NEW x \in DOMAIN p PROVE q[x] \notin Descendants(q, x)
  BY <1>1 DEF NoCycle, q
<1> DEFINE S == IF to \in D(x) THEN D(x) \cup D(d) ELSE D(x)
<1>4. S \in SUBSET DOMAIN q /\ x \in S
  BY <1>1, <1>2
<1>5. \A y \in DOMAIN q : q[y] \in S => y \in S
  <2> HIDE DEF D
  <2> QED
    BY <1>1, <1>2
<1>6. Descendants(q, x) \subseteq S
  <2> HIDE DEF S
  <2> QED
    BY <1>4, <1>5, SubtreeLeast
<1>7. q[x] \notin S
  <2>1. CASE x = d
    BY <1>1, <1>3, <2>1
  <2>2. CASE x # d
    <3>1. q[x] = p[x] /\ p[x] \notin D(x)
      BY <1>1, <1>2, <2>2
    <3>2. ASSUME p[x] \in D(d), to \in D(x) PROVE FALSE
      <4>1. x \in D(d)
        BY <1>2, <3>2
      <4>2. D(x) \subseteq D(d)
        BY <4>1, SubtreeNested
      <4> QED
        BY <1>3, <3>2, <4>2
    <3> QED
      BY <3>1, <3>2
  <2> QED
    BY <2>1, <2>2
<1> QED
  BY <1>6, <1>7

\* A division whose walk upwards ends is not below itself.
LEMMA RootedIsNoCycle ==
  ASSUME NEW p, NEW top, top \notin DOMAIN p, NEW d \in DOMAIN p, Rooted(p, d, top)
  PROVE  p[d] \notin Descendants(p, d)
<1> SUFFICES ASSUME p[d] \in Descendants(p, d) PROVE FALSE
  OBVIOUS
<1>1. p[d] \in DOMAIN p
  BY DEF Descendants
<1>2. PICK x \in Ancestors(p, d) : p[x] = top
  BY <1>1 DEF Rooted
<1>3. x \in DOMAIN p /\ p[d] \in Descendants(p, x)
  BY <1>2 DEF Ancestors
<1>4. d \in Descendants(p, x)
  BY <1>3, SubtreeClosed
<1> DEFINE S == Descendants(p, x) \ Descendants(p, d)
<1>5. x \notin Descendants(p, d)
  <2>1. x # d
    BY <1>1, <1>2
  <2>2. top \notin Descendants(p, d)
    BY DEF Descendants
  <2> QED
    BY <1>2, <2>1, <2>2, SubtreeParent
<1>6. S \in SUBSET DOMAIN p /\ x \in S
  BY <1>3, <1>5, SubtreeClosed DEF Descendants
<1>7. ASSUME NEW y \in DOMAIN p, p[y] \in S PROVE y \in S
  <2>1. y \in Descendants(p, x)
    BY <1>3, <1>7, SubtreeClosed
  <2>2. y # d
    BY <1>7
  <2>3. y \notin Descendants(p, d)
    BY <1>7, <2>2, SubtreeParent
  <2> QED
    BY <2>1, <2>3
<1>8. Descendants(p, x) \subseteq S
  <2> HIDE DEF S
  <2> QED
    BY <1>6, <1>7, SubtreeLeast
<1> QED
  BY <1>4, <1>8, SubtreeClosed

-----------------------------------------------------------------------------
(* The initial state, and what every step keeps.                            *)

\* The tables' tree has no cycle as a map exactly if it has none as a tree.
LEMMA AcyclicIsNoCycle ==
  ASSUME NEW p \in [Division -> Division \cup {Absent, Top}]
  PROVE  NoCycle(p) <=> \A d \in {x \in Division : p[x] # Absent} : d \notin Ancestors(p, d)
<1>1. Absent \notin Division
  BY SpecialsDiffer
<1> QED
  BY <1>1 DEF NoCycle, Ancestors, Descendants

\* The tree at the start is a tree, and nobody is at work.
LEMMA InitSerialInv == Init => SerialInv
<1> SUFFICES ASSUME Init PROVE SerialInv
  OBVIOUS
<1>1. TreeInv
  BY InitTreeInv
<1>2. Alone /\ \A r \in Request : ChecksHold(r) /\ CascadeCovers(r)
  BY DEF Init, Alone, ChecksHold, CascadeCovers
<1>3. ArchivedAreClosed
  BY DEF Init, ArchivedAreClosed
<1>4. /\ parent \in [Division -> Division \cup {Absent, Top}]
      /\ \A d \in Rows : Rooted(parent, d, Top)
  BY InitialParentType DEF Init, Rows
<1>5. Acyclic
  <2>1. ASSUME NEW d \in Division PROVE parent[d] \notin Descendants(parent, d)
    <3>1. CASE d \in Rows
      BY <1>4, <3>1, SpecialsDiffer, RootedIsNoCycle
    <3>2. CASE d \notin Rows
      BY <1>4, <3>2, SpecialsDiffer DEF Rows, Descendants
    <3> QED
      BY <3>1, <3>2
  <2>2. NoCycle(parent)
    BY <1>4, <2>1 DEF NoCycle
  <2> QED
    BY <1>4, <2>2, AcyclicIsNoCycle DEF Acyclic, Rows
<1>6. ParentsExist
  <2> SUFFICES ASSUME NEW d \in Rows, parent[d] # Top PROVE parent[d] \in Rows
    BY DEF ParentsExist
  <2>1. d \in Division /\ parent[d] \in Division
    BY <1>4 DEF Rows
  <2>2. PICK x \in Ancestors(parent, d) : parent[x] = Top
    BY <1>4 DEF Rooted
  <2>3. x \in Division /\ parent[d] \in Descendants(parent, x)
    BY <1>4, <2>2 DEF Ancestors
  <2>4. CASE parent[d] = x
    BY <2>1, <2>2, <2>4, SpecialsDiffer DEF Rows
  <2>5. CASE parent[d] # x
    <3>1. parent[parent[d]] \in Descendants(parent, x)
      BY <1>4, <2>3, <2>5, SubtreeParent
    <3>2. parent[parent[d]] \in Division
      BY <1>4, <3>1 DEF Descendants
    <3> QED
      BY <2>1, <3>2, SpecialsDiffer DEF Rows
  <2> QED
    BY <2>4, <2>5
<1> QED
  BY <1>1, <1>2, <1>3, <1>5, <1>6 DEF SerialInv

\* The requests that do not take the step: a commit meets only cascades.
LEMMA OthersKeepChecks ==
  ASSUME SerialInv, NEW r \in Request, NEW o \in Request \ {r}, OthersStay(r),
         parent' = parent, archived \subseteq archived',
         archived' = archived \/ pc[o] \in Archiving \cup {"idle"}
  PROVE  ChecksHold(o)' /\ CascadeCovers(o)'
<1>1. /\ pc'[o] = pc[o] /\ arg'[o] = arg[o] /\ seen'[o] = seen[o] /\ tx'[o] = tx[o]
      /\ ChecksHold(o) /\ CascadeCovers(o)
  BY DEF OthersStay, SerialInv
<1>2. ChecksHold(o)'
  BY <1>1 DEF ChecksHold, Archiving
<1>3. CascadeCovers(o)'
  BY <1>1 DEF CascadeCovers
<1> QED
  BY <1>2, <1>3

\* Beside a request that writes a row nobody has anything to keep.
LEMMA OthersAreIdle ==
  ASSUME SerialInv, NEW r \in Request, OthersStay(r),
         pc[r] \notin Archiving \cup {"idle"}
  PROVE  \A o \in Request \ {r} : ChecksHold(o)' /\ CascadeCovers(o)'
<1>1. \A o \in Request \ {r} : pc[o] = "idle" /\ CascadeCovers(o)
  BY DEF SerialInv, Alone
<1>2. \A o \in Request \ {r} : pc'[o] = "idle" /\ tx'[o] = {}
  BY <1>1 DEF OthersStay, CascadeCovers
<1> QED
  BY <1>2 DEF ChecksHold, CascadeCovers

\* A request that is under way stays alone, and a cascade a cascade.
LEMMA AloneKeeps ==
  ASSUME Alone, NEW r \in Request, OthersStay(r), pc[r] # "idle",
         pc[r] \in Archiving => pc'[r] \in Archiving \cup {"idle"}
  PROVE  Alone'
<1> SUFFICES ASSUME NEW q \in Request, pc'[q] \notin Archiving \cup {"idle"},
                    NEW o \in Request \ {q}
             PROVE  pc'[o] = "idle"
  BY DEF Alone, Archiving
<1>1. CASE q = r
  BY <1>1 DEF Alone, OthersStay
<1>2. CASE q # r
  BY <1>2 DEF Alone, OthersStay
<1> QED
  BY <1>1, <1>2

\* A step that writes no division.
LEMMA TreeKeeps ==
  ASSUME SerialInv, NEW r \in Request, OthersStay(r),
         parent' = parent, archived' = archived,
         TreeInv', Alone', ChecksHold(r)', CascadeCovers(r)'
  PROVE  SerialInv' /\ archived \subseteq archived'
<1>1. ParentsExist' /\ Acyclic' /\ ArchivedAreClosed'
  BY DEF SerialInv, ParentsExist, Acyclic, ArchivedAreClosed, Rows
<1>2. \A o \in Request \ {r} : ChecksHold(o)' /\ CascadeCovers(o)'
  BY OthersKeepChecks
<1> QED
  BY <1>1, <1>2 DEF SerialInv

\* A request that is answered.
LEMMA FinishIsSerial ==
  ASSUME SerialInv, NEW r \in Request, Finish(r), pc[r] # "idle"
  PROVE  Alone' /\ ChecksHold(r)' /\ CascadeCovers(r)'
<1>1. TreeInv /\ Alone
  BY DEF SerialInv
<1>2. pc'[r] = "idle" /\ tx'[r] = {}
  BY <1>1 DEF Finish, Goto, TreeInv, TypeOK
<1>3. Alone'
  BY <1>1, <1>2, FinishFacts, AloneKeeps
<1>4. ChecksHold(r)' /\ CascadeCovers(r)'
  BY <1>2 DEF ChecksHold, CascadeCovers
<1> QED
  BY <1>3, <1>4

\* What is known of a step without OneAtATime.
LEMMA StepOfTree ==
  ASSUME SerialInv, NEW r \in Request, Begin(r) \/ Step(r) \/ Fail(r)
  PROVE  TreeInv' /\ StepOf(r) /\ OthersStay(r)
<1>1. TreeInv
  BY DEF SerialInv
<1>2. TypeOK' /\ RootInv' /\ StepOf(r) /\ RequestInv(r)'
  BY <1>1, StepKeeps
<1> QED
  BY <1>1, <1>2, OthersKeep DEF TreeInv, StepOf

-----------------------------------------------------------------------------
(* The steps.                                                               *)

\* A request other than an archive starts when nobody is at work.
LEMMA BeginIsSerial ==
  ASSUME SerialInv, OneAtATime, NEW r \in Request, Begin(r)
  PROVE  SerialInv' /\ archived \subseteq archived'
<1> USE DEF Start, Goto, tables
<1>1. TypeOK /\ CascadeCovers(r)
  BY DEF SerialInv, TreeInv
<1>2. TreeInv' /\ OthersStay(r)
  BY StepOfTree
<1>3. /\ pc[r] = "idle" /\ parent' = parent /\ archived' = archived
      /\ tx'[r] = {}
  BY <1>1 DEF CascadeCovers, Begin, BeginCreate, BeginCreateRoot, BeginPatch, BeginArchive
<1>4. ASSUME NEW op \in {"create", "patch"}, NEW d, NEW to, NEW label,
             Start(r, op, d, to, label)
      PROVE  Alone'
  <2>1. \A o \in Request : pc[o] = "idle"
    BY <1>4 DEF InFlight
  <2> QED
    BY <1>2, <2>1 DEF Alone, OthersStay
<1>5. CASE \E d, p \in Division : BeginCreate(r, d, p)
  <2>1. PICK d \in Division, p \in Division : BeginCreate(r, d, p)
    BY <1>5
  <2>2. Start(r, "create", d, p, "insert_division") /\ p \notin archived
    BY <2>1 DEF BeginCreate
  <2>3. pc'[r] = "insert_division" /\ arg'[r].to = p
    BY <1>1, <2>2 DEF TypeOK
  <2>4. Alone'
    BY <1>4, <2>2
  <2>5. ChecksHold(r)' /\ CascadeCovers(r)'
    BY <1>3, <2>2, <2>3 DEF ChecksHold, CascadeCovers
  <2> QED
    BY <1>2, <1>3, <2>4, <2>5, TreeKeeps
<1>6. CASE \E d \in Division : BeginCreateRoot(r, d)
  <2>1. PICK d \in Division : BeginCreateRoot(r, d)
    BY <1>6
  <2>2. Start(r, "create", d, Top, "insert_division")
    BY <2>1 DEF BeginCreateRoot
  <2>3. pc'[r] = "insert_division" /\ arg'[r].to = Top
    BY <1>1, <2>2 DEF TypeOK
  <2>4. Alone'
    BY <1>4, <2>2
  <2>5. Top \notin archived
    BY <1>1, SpecialsDiffer DEF TypeOK
  <2>6. ChecksHold(r)' /\ CascadeCovers(r)'
    BY <1>3, <2>3, <2>5 DEF ChecksHold, CascadeCovers
  <2> QED
    BY <1>2, <1>3, <2>4, <2>6, TreeKeeps
<1>7. CASE \E d \in Division : BeginArchive(r, d)
  <2>1. PICK d \in Division : BeginArchive(r, d)
    BY <1>7
  <2>2. Start(r, "archive", d, None, "list_subtree")
    BY <2>1 DEF BeginArchive
  <2>3. pc'[r] = "list_subtree"
    BY <1>1, <2>2 DEF TypeOK
  <2>4. \A o \in Request : pc[o] \in Archiving \cup {"idle"}
    BY <2>2 DEF InFlight
  <2>5. Alone'
    BY <1>2, <2>3, <2>4 DEF Alone, OthersStay, Archiving
  <2>6. ChecksHold(r)' /\ CascadeCovers(r)'
    BY <1>3, <2>3 DEF ChecksHold, CascadeCovers
  <2> QED
    BY <1>2, <1>3, <2>5, <2>6, TreeKeeps
<1>8. CASE \E d \in Division, to \in Division \cup {None} : BeginPatch(r, d, to)
  <2>1. PICK d \in Division, to \in Division \cup {None} : BeginPatch(r, d, to)
    BY <1>8
  <2> DEFINE label == IF to = None THEN "update_division" ELSE "read_parent"
  <2>2. Start(r, "patch", d, to, label) /\ (to = None => d \notin archived)
    BY <2>1 DEF BeginPatch
  <2>3. pc'[r] = label /\ arg'[r].div = d /\ arg'[r].to = to
    BY <1>1, <2>2 DEF TypeOK
  <2>4. seen'[r].parent = parent[d] /\ (seen'[r].open <=> d \notin archived)
    <3>1. DOMAIN seen[r] = {"parent", "open", "children"}
      BY <1>1 DEF TypeOK, Reads
    <3>2. seen'[r] = [[seen[r] EXCEPT !.parent = parent[d]] EXCEPT !.open = d \notin archived]
      BY <1>1, <2>1 DEF BeginPatch, TypeOK
    <3>3. seen'[r].parent = parent[d]
      BY <3>1, <3>2
    <3>4. seen'[r].open = (d \notin archived)
      BY <3>1, <3>2
    <3> QED
      BY <3>3, <3>4
  <2>5. Alone'
    BY <1>4, <2>2
  <2>6. ChecksHold(r)'
    <3>1. CASE to = None
      BY <1>3, <2>2, <2>3, <2>4, <3>1 DEF ChecksHold
    <3>2. CASE to # None
      BY <1>3, <2>3, <2>4, <3>2 DEF ChecksHold
    <3> QED
      BY <3>1, <3>2
  <2>7. CascadeCovers(r)'
    BY <1>3, <2>3 DEF CascadeCovers
  <2> QED
    BY <1>2, <1>3, <2>5, <2>6, <2>7, TreeKeeps
<1> QED
  BY <1>5, <1>6, <1>7, <1>8 DEF Begin

\* A refused request changes no division.
LEMMA RefuseIsSerial ==
  ASSUME SerialInv, NEW r \in Request, Begin(r) \/ Step(r) \/ Fail(r),
         Refuse(r), pc[r] # "idle"
  PROVE  SerialInv' /\ archived \subseteq archived'
<1>1. Finish(r) /\ parent' = parent /\ archived' = archived
  BY DEF Refuse, tables
<1> QED
  BY <1>1, StepOfTree, FinishIsSerial, TreeKeeps

\* The new row is below one that is not archived, and nothing is below it.
LEMMA InsertIsSerial ==
  ASSUME SerialInv, NEW r \in Request, InsertDivision(r)
  PROVE  SerialInv' /\ archived \subseteq archived'
<1> DEFINE d  == arg[r].div
           to == arg[r].to
<1>1. /\ TypeOK /\ Creating(r) /\ ChecksHold(r) /\ ParentsExist /\ NoCycle(parent)
      /\ ArchivedAreClosed /\ Alone
  BY AcyclicIsNoCycle DEF SerialInv, TreeInv, TypeOK, RequestInv, Acyclic, Rows
<1>2. TreeInv' /\ OthersStay(r)
  BY StepOfTree DEF Step
<1>3. /\ pc[r] = "insert_division" /\ parent' = [parent EXCEPT ![d] = to]
      /\ archived' = archived /\ Finish(r)
  BY DEF InsertDivision
<1>4. /\ d \in Division /\ parent[d] = Absent /\ to \in Rows \cup {Top}
      /\ to \notin archived
  BY <1>1, <1>3 DEF Creating, ChecksHold, Rows
<1>5. DOMAIN parent = Division /\ Absent \notin Division /\ Top \notin Division /\ Top # Absent
  BY <1>1, SpecialsDiffer DEF TypeOK
<1>6. \A y \in Division : parent[y] # d
  BY <1>1, <1>4, <1>5 DEF ParentsExist, Rows
<1> HIDE DEF d, to
<1>7. NoCycle(parent')
  <2>1. CASE to = Top
    BY <1>1, <1>3, <1>4, <1>5, <2>1, UprootingIsSafe
  <2>2. CASE to # Top
    <3>1. to \in Division /\ parent[to] # Absent
      BY <1>4, <2>2 DEF Rows
    <3>2. d # to
      BY <1>4, <3>1
    <3>3. Descendants(parent, d) \subseteq {d}
      BY <1>4, <1>5, <1>6, SubtreeLeast
    <3>4. d \notin Ancestors(parent, to)
      BY <1>6, <3>1, <3>3 DEF Ancestors
    <3> QED
      BY <1>1, <1>3, <1>4, <1>5, <3>1, <3>2, <3>4, MovingIsSafe
  <2> QED
    BY <2>1, <2>2
<1>8. Acyclic'
  <2>1. parent' \in [Division -> Division \cup {Absent, Top}]
    BY <1>2 DEF TreeInv, TypeOK
  <2> QED
    BY <1>7, <2>1, AcyclicIsNoCycle DEF Acyclic, Rows
<1>9. /\ parent'[d] = to /\ \A y \in Division \ {d} : parent'[y] = parent[y]
      /\ Rows' = Rows \cup {d}
  BY <1>1, <1>3, <1>4, <1>5 DEF TypeOK, Rows
<1>10. ParentsExist'
  BY <1>1, <1>4, <1>9 DEF ParentsExist, Rows
<1>11. ArchivedAreClosed'
  BY <1>1, <1>3, <1>4, <1>9 DEF ArchivedAreClosed, Rows
<1>12. Alone' /\ ChecksHold(r)' /\ CascadeCovers(r)'
  BY <1>3, FinishIsSerial
<1>13. \A o \in Request \ {r} : ChecksHold(o)' /\ CascadeCovers(o)'
  BY <1>2, <1>3, OthersAreIdle DEF Archiving
<1> QED
  BY <1>2, <1>3, <1>8, <1>10, <1>11, <1>12, <1>13 DEF SerialInv

\* What was read is still so when the ancestors of the new parent are.
LEMMA ReadParentIsSerial ==
  ASSUME SerialInv, NEW r \in Request, ReadParent(r)
  PROVE  SerialInv' /\ archived \subseteq archived'
<1>1. TypeOK /\ Alone /\ ChecksHold(r) /\ CascadeCovers(r)
  BY DEF SerialInv, TreeInv
<1>2. TreeInv' /\ OthersStay(r)
  BY StepOfTree DEF Step
<1>3. /\ pc[r] = "read_parent" /\ pc'[r] = "read_ancestors"
      /\ parent' = parent /\ archived' = archived /\ arg' = arg /\ tx' = tx
  BY <1>1 DEF ReadParent, Goto, tables, TypeOK
<1>4. seen'[r].open => seen[r].open /\ arg[r].to \notin archived
  <2>1. DOMAIN seen[r] = {"parent", "open", "children"}
    BY <1>1 DEF TypeOK, Reads
  <2>2. seen'[r] = [seen[r] EXCEPT !.open = seen[r].open /\ arg[r].to \notin archived]
    BY <1>1 DEF ReadParent, TypeOK
  <2>3. seen'[r].open = (seen[r].open /\ arg[r].to \notin archived)
    BY <2>1, <2>2
  <2> QED
    BY <2>3
<1>5. Alone'
  BY <1>1, <1>2, <1>3, AloneKeeps DEF Archiving
<1>6. ChecksHold(r)' /\ CascadeCovers(r)'
  BY <1>1, <1>3, <1>4 DEF ChecksHold, CascadeCovers
<1> QED
  BY <1>2, <1>3, <1>5, <1>6, TreeKeeps

\* A move that passes ValidateMove is one the tree allows.
LEMMA ReadAncestorsIsSerial ==
  ASSUME SerialInv, NEW r \in Request, ReadAncestors(r)
  PROVE  SerialInv' /\ archived \subseteq archived'
<1>1. TypeOK /\ Alone /\ Moving(r) /\ ChecksHold(r) /\ CascadeCovers(r)
  BY DEF SerialInv, TreeInv, RequestInv
<1>2. TreeInv' /\ OthersStay(r)
  BY StepOfTree DEF Step
<1>3. /\ pc[r] = "read_ancestors" /\ pc'[r] = "update_division" /\ MayMove(r)
      /\ parent' = parent /\ archived' = archived /\ arg' = arg /\ tx' = tx
  BY <1>1 DEF ReadAncestors, Goto, tables, TypeOK
<1>4. arg[r].to # None
  BY <1>1, <1>3, SpecialsDiffer DEF Moving, Rows
<1>5. Alone'
  BY <1>1, <1>2, <1>3, AloneKeeps DEF Archiving
<1>6. ChecksHold(r)' /\ CascadeCovers(r)'
  BY <1>1, <1>3, <1>4 DEF ChecksHold, CascadeCovers, MayMove
<1> QED
  BY <1>2, <1>3, <1>5, <1>6, TreeKeeps

\* The row written back is the row as it is, or in a place that is allowed.
LEMMA UpdateIsSerial ==
  ASSUME SerialInv, NEW r \in Request, UpdateDivision(r)
  PROVE  SerialInv' /\ archived \subseteq archived'
<1> DEFINE d  == arg[r].div
           to == arg[r].to
           v  == IF to = None THEN seen[r].parent ELSE to
<1>1. /\ TypeOK /\ Moving(r) /\ ChecksHold(r) /\ ParentsExist /\ NoCycle(parent)
      /\ ArchivedAreClosed /\ Alone
  BY AcyclicIsNoCycle DEF SerialInv, TreeInv, TypeOK, RequestInv, Acyclic, Rows
<1>2. TreeInv' /\ OthersStay(r)
  BY StepOfTree DEF Step
<1>3. /\ pc[r] = "update_division" /\ parent' = [parent EXCEPT ![d] = v]
      /\ archived' = archived \ {d} /\ Finish(r)
  BY DEF UpdateDivision
<1>4. d \in Rows /\ d \notin archived
  BY <1>1, <1>3 DEF Moving, ChecksHold
<1>5. \/ v = parent[d]
      \/ v \in Rows /\ v \notin archived /\ v # d /\ d \notin Ancestors(parent, v)
  BY <1>1, <1>3 DEF Moving, ChecksHold
<1> HIDE DEF d, to, v
<1>6. archived' = archived
  BY <1>3, <1>4
<1>7. DOMAIN parent = Division /\ d \in Division /\ parent[d] # Absent /\ Absent \notin Division
  BY <1>1, <1>4, SpecialsDiffer DEF TypeOK, Rows
<1>8. CASE v = parent[d]
  <2>1. parent' = parent
    BY <1>1, <1>3, <1>7, <1>8 DEF TypeOK
  <2> QED
    BY <1>2, <1>3, <1>6, <2>1, FinishIsSerial, TreeKeeps
<1>9. CASE v \in Rows /\ v \notin archived /\ v # d /\ d \notin Ancestors(parent, v)
  <2>1. NoCycle(parent')
    BY <1>1, <1>3, <1>7, <1>9, MovingIsSafe DEF Rows
  <2>2. Acyclic'
    <3>1. parent' \in [Division -> Division \cup {Absent, Top}]
      BY <1>2 DEF TreeInv, TypeOK
    <3> QED
      BY <2>1, <3>1, AcyclicIsNoCycle DEF Acyclic, Rows
  <2>3. parent'[d] = v /\ \A y \in Division \ {d} : parent'[y] = parent[y]
    BY <1>3, <1>7
  <2>4. Rows' = Rows
    BY <1>7, <1>9, <2>3 DEF Rows
  <2>5. ParentsExist'
    BY <1>1, <1>9, <2>3, <2>4 DEF ParentsExist, Rows
  <2>6. ArchivedAreClosed'
    BY <1>1, <1>6, <1>9, <2>3, <2>4 DEF ArchivedAreClosed, Rows
  <2>7. Alone' /\ ChecksHold(r)' /\ CascadeCovers(r)'
    BY <1>3, FinishIsSerial
  <2>8. \A o \in Request \ {r} : ChecksHold(o)' /\ CascadeCovers(o)'
    BY <1>2, <1>3, OthersAreIdle DEF Archiving
  <2> QED
    BY <1>2, <1>6, <2>2, <2>5, <2>6, <2>7, <2>8 DEF SerialInv
<1> QED
  BY <1>5, <1>8, <1>9

\* The snapshot of a cascade is everything active below its division.
LEMMA ScanIsSerial ==
  ASSUME SerialInv, NEW r \in Request, ListSubtree(r) \/ ScanChildren(r)
  PROVE  SerialInv' /\ archived \subseteq archived'
<1>1. TypeOK /\ Alone /\ CascadeCovers(r)
  BY DEF SerialInv, TreeInv
<1>2. TreeInv' /\ OthersStay(r)
  BY StepOfTree DEF Step
<1>3. /\ pc[r] \in {"list_subtree", "scan_children"}
      /\ pc'[r] \in {"scan_children", "archiving_children"}
      /\ parent' = parent /\ archived' = archived /\ arg' = arg /\ tx' = tx
  BY <1>1 DEF ListSubtree, ScanChildren, Goto, tables, TypeOK
<1>4. Alone'
  BY <1>1, <1>2, <1>3, AloneKeeps DEF Archiving
<1>5. tx[r] = {}
  BY <1>1, <1>3 DEF CascadeCovers
<1>6. CascadeCovers(r)'
  <2>1. CASE ListSubtree(r)
    <3>1. pc'[r] = "scan_children"
      BY <1>1, <2>1 DEF ListSubtree, Goto, TypeOK
    <3> QED
      BY <1>3, <1>5, <3>1 DEF CascadeCovers
  <2>2. CASE ScanChildren(r)
    <3> DEFINE C == Descendants(parent, arg[r].div) \ (archived \cup {arg[r].div})
    <3>1. DOMAIN seen[r] = {"parent", "open", "children"}
      BY <1>1 DEF TypeOK, Reads
    <3>2. seen'[r] = [seen[r] EXCEPT !.children = C] /\ pc'[r] = "archiving_children"
      BY <1>1, <2>2 DEF ScanChildren, Goto, TypeOK
    <3>3. seen'[r].children = C
      BY <3>1, <3>2
    <3> QED
      BY <1>3, <1>5, <3>2, <3>3 DEF CascadeCovers
  <2> QED
    BY <2>1, <2>2
<1>7. ChecksHold(r)'
  BY <1>3 DEF ChecksHold
<1> QED
  BY <1>2, <1>3, <1>4, <1>6, <1>7, TreeKeeps

\* A child that is archived goes from what is to be archived to what is.
LEMMA ArchiveChildIsSerial ==
  ASSUME SerialInv, NEW r \in Request, NEW d \in Division, ArchiveChild(r, d)
  PROVE  SerialInv' /\ archived \subseteq archived'
<1>1. TypeOK /\ Alone /\ CascadeCovers(r)
  BY DEF SerialInv, TreeInv
<1>2. TreeInv' /\ OthersStay(r)
  BY StepOfTree DEF Step
<1>3. /\ pc[r] = "archiving_children" /\ pc' = pc /\ d \in seen[r].children
      /\ parent' = parent /\ archived' = archived /\ arg' = arg
      /\ tx'[r] = tx[r] \cup ({d} \ archived)
  BY <1>1 DEF ArchiveChild, tables, TypeOK
<1>4. seen'[r].children = seen[r].children \ {d}
  <2>1. DOMAIN seen[r] = {"parent", "open", "children"}
    BY <1>1 DEF TypeOK, Reads
  <2>2. seen'[r] = [seen[r] EXCEPT !.children = seen[r].children \ {d}]
    BY <1>1 DEF ArchiveChild, TypeOK
  <2> QED
    BY <2>1, <2>2
<1>5. Alone'
  BY <1>1, <1>2, <1>3, AloneKeeps DEF Archiving
<1>6. CascadeCovers(r)'
  BY <1>1, <1>3, <1>4 DEF CascadeCovers
<1>7. ChecksHold(r)'
  BY <1>3 DEF ChecksHold
<1> QED
  BY <1>2, <1>3, <1>5, <1>6, <1>7, TreeKeeps

\* The division itself is the last row.
LEMMA ArchiveRootIsSerial ==
  ASSUME SerialInv, NEW r \in Request, ArchiveRoot(r)
  PROVE  SerialInv' /\ archived \subseteq archived'
<1>1. TypeOK /\ Alone /\ CascadeCovers(r) /\ Archived(r)
  BY DEF SerialInv, TreeInv, RequestInv
<1>2. TreeInv' /\ OthersStay(r)
  BY StepOfTree DEF Step
<1>3. /\ pc[r] = "archiving_children" /\ pc'[r] = "commit" /\ seen[r].children = {}
      /\ parent' = parent /\ archived' = archived /\ arg' = arg /\ seen' = seen
      /\ tx'[r] = tx[r] \cup {arg[r].div}
  BY <1>1 DEF ArchiveRoot, Goto, tables, TypeOK
<1>4. arg[r].div \in Descendants(parent, arg[r].div)
  <2>1. arg[r].div \in DOMAIN parent
    BY <1>1, <1>3 DEF Archived, Archiving, Rows, TypeOK
  <2> QED
    BY <2>1, SubtreeClosed
<1>5. Alone'
  BY <1>1, <1>2, <1>3, AloneKeeps DEF Archiving
<1>6. CascadeCovers(r)'
  BY <1>1, <1>3, <1>4 DEF CascadeCovers
<1>7. ChecksHold(r)'
  BY <1>3 DEF ChecksHold
<1> QED
  BY <1>2, <1>3, <1>5, <1>6, <1>7, TreeKeeps

\* A commit archives all that is active below what it archives.
LEMMA CommitIsSerial ==
  ASSUME SerialInv, NEW r \in Request, Commit(r)
  PROVE  SerialInv' /\ archived \subseteq archived'
<1> DEFINE d == arg[r].div
           D == Descendants(parent, d)
<1>1. /\ TypeOK /\ Alone /\ CascadeCovers(r) /\ Archived(r) /\ Locked(r)
      /\ ParentsExist /\ Acyclic /\ ArchivedAreClosed
  BY DEF SerialInv, TreeInv, RequestInv
<1>2. TreeInv' /\ OthersStay(r)
  BY StepOfTree DEF Step
<1>3. /\ pc[r] = "commit" /\ archived' = archived \cup tx[r]
      /\ parent' = parent /\ Finish(r)
  BY DEF Commit
<1>4. d \in DOMAIN parent
  BY <1>1, <1>3 DEF Archived, Archiving, Rows, TypeOK
<1>5. tx[r] \subseteq D /\ D \subseteq archived \cup tx[r]
  BY <1>1, <1>3 DEF CascadeCovers, Locked
<1>6. ParentsExist' /\ Acyclic'
  BY <1>1, <1>3 DEF ParentsExist, Acyclic, Rows
<1>7. ArchivedAreClosed'
  <2> SUFFICES ASSUME NEW y \in Rows, y \notin archived \cup tx[r],
                      parent[y] \in archived \cup tx[r]
               PROVE  FALSE
    BY <1>3 DEF ArchivedAreClosed, Rows
  <2>1. parent[y] \in D
    BY <1>1, <1>5 DEF ArchivedAreClosed
  <2>2. y \in DOMAIN parent
    BY <1>1 DEF Rows, TypeOK
  <2>3. y \in D
    BY <1>4, <2>1, <2>2, SubtreeClosed
  <2> QED
    BY <1>5, <2>3
<1>8. Alone' /\ ChecksHold(r)' /\ CascadeCovers(r)'
  BY <1>3, FinishIsSerial
<1>9. \A o \in Request \ {r} : pc[o] \in Archiving \cup {"idle"}
  BY <1>1, <1>3 DEF Alone, Archiving
<1>10. \A o \in Request \ {r} : ChecksHold(o)' /\ CascadeCovers(o)'
  BY <1>2, <1>3, <1>9, OthersKeepChecks
<1> QED
  BY <1>2, <1>3, <1>6, <1>7, <1>8, <1>10 DEF SerialInv

-----------------------------------------------------------------------------
(* The invariant, and the theorems.                                         *)

\* Every step keeps the invariant and brings no archived division back.
LEMMA SerialInvStep ==
  ASSUME OneAtATime, SerialInv, [Next]_vars
  PROVE  SerialInv' /\ archived \subseteq archived'
<1>1. CASE \E r \in Request : Begin(r) \/ Step(r) \/ Fail(r)
  <2>1. PICK r \in Request : Begin(r) \/ Step(r) \/ Fail(r)
    BY <1>1
  <2>2. CASE Begin(r)
    BY <2>2, BeginIsSerial
  <2>3. CASE SecondRoot(r) \/ RefuseMove(r) \/ ArchiveNoop(r) \/ Fail(r)
    <3>1. Refuse(r) /\ pc[r] # "idle"
      BY <2>3 DEF SecondRoot, RefuseMove, ArchiveNoop, Fail
    <3> QED
      BY <2>1, <3>1, RefuseIsSerial
  <2>4. CASE InsertDivision(r)
    BY <2>4, InsertIsSerial
  <2>5. CASE ReadParent(r)
    BY <2>5, ReadParentIsSerial
  <2>6. CASE ReadAncestors(r)
    BY <2>6, ReadAncestorsIsSerial
  <2>7. CASE UpdateDivision(r)
    BY <2>7, UpdateIsSerial
  <2>8. CASE ListSubtree(r) \/ ScanChildren(r)
    BY <2>8, ScanIsSerial
  <2>9. CASE \E d \in Division : ArchiveChild(r, d)
    BY <2>9, ArchiveChildIsSerial
  <2>10. CASE ArchiveRoot(r)
    BY <2>10, ArchiveRootIsSerial
  <2>11. CASE Commit(r)
    BY <2>11, CommitIsSerial
  <2> QED
    BY <2>1, <2>2, <2>3, <2>4, <2>5, <2>6, <2>7, <2>8, <2>9, <2>10, <2>11 DEF Step
<1>2. CASE UNCHANGED vars
  <2>1. TreeInv'
    BY <1>2, TreeInvStep DEF SerialInv
  <2>2. Alone' /\ ParentsExist' /\ Acyclic' /\ ArchivedAreClosed'
    BY <1>2 DEF SerialInv, vars, tables, Alone, ParentsExist, Acyclic, ArchivedAreClosed, Rows
  <2>3. \A r \in Request : ChecksHold(r)' /\ CascadeCovers(r)'
    BY <1>2 DEF SerialInv, vars, tables, ChecksHold, CascadeCovers
  <2> QED
    BY <1>2, <2>1, <2>2, <2>3 DEF SerialInv, vars, tables
<1> QED
  BY <1>1, <1>2 DEF Next, Quiet

\* What the proofs of the theorems rest on.
LEMMA SerialInvHolds ==
  ASSUME OneAtATime
  PROVE  Spec => []SerialInv
<1>1. SerialInv /\ [Next]_vars => SerialInv'
  BY SerialInvStep
<1> QED
  BY <1>1, InitSerialInv, PTL DEF Spec

\* Requests that do not overlap keep the divisions a tree: ValidateMove, which
\* looks at the ancestors of the new parent only, refuses every move that would
\* make a cycle.
THEOREM SerialTreeIsAcyclic ==
  ASSUME OneAtATime
  PROVE  Spec => []Acyclic
<1>1. SerialInv => Acyclic
  BY DEF SerialInv
<1> QED
  BY <1>1, SerialInvHolds, PTL

\* Nothing active is left below an archived division, even of cascades that
\* overlap: each archives its snapshot of the subtree, and what another cascade
\* has archived in the meantime stays archived.
THEOREM SerialArchivedAreClosed ==
  ASSUME OneAtATime
  PROVE  Spec => []ArchivedAreClosed
<1>1. SerialInv => ArchivedAreClosed
  BY DEF SerialInv
<1> QED
  BY <1>1, SerialInvHolds, PTL

\* The UPDATE of a PATCH writes is_archived as it was read, and an archived
\* division is not edited: without overlap no division comes back.
THEOREM SerialArchiveIsFinal ==
  ASSUME OneAtATime
  PROVE  Spec => ArchiveIsFinal
<1>1. SerialInv /\ [Next]_vars => [archived \subseteq archived']_archived
  BY SerialInvStep
<1> QED
  BY <1>1, SerialInvHolds, PTL DEF Spec, ArchiveIsFinal

=============================================================================
