------------------------------ MODULE Pages_proofs ------------------------------
(***************************************************************************)
(* Theorems about the parts of the frontend in Pages, for any number of    *)
(* calls under way at one time and anything there may be to look at: an     *)
(* invariant of each part, and what follows from it for the page.           *)
(***************************************************************************)
EXTENDS Pages, FiniteSetTheorems, WellFoundedInduction, TLAPS

-----------------------------------------------------------------------------
(* Least numbers.                                                           *)

\* A set of numbers that is not empty has a least element.
LEMMA LeastExists ==
  ASSUME NEW S \in SUBSET Nat, S # {}
  PROVE  \E n \in S : \A m \in S : n <= m
<1> DEFINE R == StrictSubsetOrdering(Nat)
           T == {0..n : n \in S}
<1>1. \A n \in Nat : 0..n \in FiniteSubsetsOf(Nat)
  BY FS_Interval DEF FiniteSubsetsOf
<1>2. T \subseteq FiniteSubsetsOf(Nat) /\ T # {}
  BY <1>1
<1>3. IsWellFoundedOn(R, FiniteSubsetsOf(Nat))
  BY FS_StrictSubsetOrderingWellFounded
<1>4. PICK x \in T : \A y \in T : <<y, x>> \notin R
  <2> HIDE DEF R, T
  <2> QED  BY <1>2, <1>3, WFMin
<1>5. PICK n \in S : x = 0..n
  BY <1>4
<1>6. ASSUME NEW m \in S, m < n
      PROVE  FALSE
  <2>1. 0..m \in T /\ 0..m \subseteq 0..n /\ 0..m # 0..n
    <3>1. n \in 0..n /\ n \notin 0..m
      BY <1>6
    <3> QED  BY <3>1, <1>6
  <2>2. <<0..m, 0..n>> \in R
    BY <2>1, <1>6 DEF StrictSubsetOrdering
  <2> QED  BY <2>1, <2>2, <1>4, <1>5
<1> QED  BY <1>6

\* The number a call is given is one that is free.
LEMMA LeastIsOneOf ==
  ASSUME NEW S \in SUBSET Nat, S # {}
  PROVE  (CHOOSE n \in S : \A m \in S : n <= m) \in S
BY LeastExists

-----------------------------------------------------------------------------
(* PositionPanel: a call that is under way is for what is given just then,  *)
(* as those for anything else have been aborted.                            *)

PanelInv ==
  /\ Panel!TypeOK
  /\ \A c \in s.calls : c.of = IF c.op = "positions" THEN s.division ELSE s.members
  /\ Panel!ShowsWhatIsGiven
  /\ Panel!WaitsForCalls

\* At first the positions of the division are loaded.
LEMMA PanelStarts ==
  ASSUME Panel!Init PROVE PanelInv
<1>1. PICK d \in Division :
        s = [division |-> d, rows |-> None, loading |-> TRUE, error |-> FALSE,
             members |-> None, profiles |-> None, fetching |-> FALSE,
             calls |-> {[id |-> 1, op |-> "positions", of |-> d]}]
  BY DEF Panel!Init
<1>2. 1 \in 1..MaxCalls
  BY BoundTypes
<1>3. [id |-> 1, op |-> "positions", of |-> d] \in Panel!Call
  BY <1>2 DEF Panel!Call
<1> QED
  BY <1>1, <1>3 DEF PanelInv, Panel!TypeOK, Panel!State, Panel!ShowsWhatIsGiven,
                    Panel!WaitsForCalls

\* A new call.
LEMMA PanelNewCall ==
  ASSUME Panel!Free # {}, NEW op, NEW of
  PROVE  /\ Panel!NewCall(op, of).id \in 1..MaxCalls
         /\ Panel!NewCall(op, of) =
              [id |-> Panel!NewCall(op, of).id, op |-> op, of |-> of]
<1>1. Panel!Free \in SUBSET Nat /\ Panel!Free \subseteq 1..MaxCalls
  BY BoundTypes DEF Panel!Free
<1>2. (CHOOSE n \in Panel!Free : \A m \in Panel!Free : n <= m) \in Panel!Free
  BY <1>1, LeastIsOneOf
<1> QED  BY <1>1, <1>2 DEF Panel!NewCall

\* An answer is for what is given, and a load that is aborted has a successor.
LEMMA PanelStep ==
  ASSUME PanelInv, Panel!Next
  PROVE  PanelInv'
<1> USE DEF PanelInv, Panel!TypeOK
<1>1. ASSUME NEW d \in Division, Panel!Load(d)
      PROVE  PanelInv'
  <2> DEFINE n == Panel!NewCall("positions", d)
  <2>1. n.id \in 1..MaxCalls /\ n = [id |-> n.id, op |-> "positions", of |-> d]
    BY <1>1, PanelNewCall DEF Panel!Load
  <2>2. s' = [s EXCEPT !.division = d, !.loading = ~Panel!Running("positions"), !.error = FALSE,
                       !.calls = Panel!Abort(@, "positions") \cup {n}]
    BY <1>1 DEF Panel!Load
  <2>3. n \in Panel!Call /\ n.op = "positions" /\ n.of = d
    BY <2>1 DEF Panel!Call
  <2> HIDE DEF n
  <2> QED
    BY <2>2, <2>3 DEF Panel!Call, Panel!State, Panel!Abort, Panel!Running,
                      Panel!ShowsWhatIsGiven, Panel!WaitsForCalls
<1>2. ASSUME NEW p \in Position \cup {None}, Panel!GiveMembers(p)
      PROVE  PanelInv'
  <2> DEFINE n == Panel!NewCall("profiles", p)
             new == IF p = None THEN {} ELSE {n}
  <2>1. p # None => n.id \in 1..MaxCalls /\ n = [id |-> n.id, op |-> "profiles", of |-> p]
    BY <1>2, PanelNewCall DEF Panel!GiveMembers
  <2>2. s' = [s EXCEPT !.members = p, !.profiles = None, !.fetching = p # None,
                       !.calls = Panel!Abort(@, "profiles") \cup new]
    BY <1>2 DEF Panel!GiveMembers
  <2>3. /\ \A c \in new : c \in Panel!Call /\ c.op = "profiles" /\ c.of = p
        /\ p # None => \E c \in new : c.op = "profiles"
    BY <2>1 DEF Panel!Call
  <2> HIDE DEF new
  <2> QED
    BY <2>2, <2>3 DEF Panel!Call, Panel!State, Panel!Abort,
                      Panel!ShowsWhatIsGiven, Panel!WaitsForCalls
<1>3. ASSUME NEW c \in s.calls, Panel!Loaded(c)
      PROVE  PanelInv'
  <2>1. c.of \in Division /\ c.of = s.division
    BY <1>3 DEF Panel!Loaded, Panel!Call, Panel!State
  <2> QED
    BY <1>3, <2>1 DEF Panel!Loaded, Panel!State, Panel!ShowsWhatIsGiven, Panel!WaitsForCalls
<1>4. ASSUME NEW c \in s.calls, Panel!LoadFailed(c)
      PROVE  PanelInv'
  BY <1>4 DEF Panel!LoadFailed, Panel!State, Panel!ShowsWhatIsGiven, Panel!WaitsForCalls
<1>5. ASSUME NEW c \in s.calls, Panel!ProfilesSettled(c)
      PROVE  PanelInv'
  <2>1. c.of \in Position /\ c.of = s.members
    BY <1>5 DEF Panel!ProfilesSettled, Panel!Call, Panel!State
  <2> QED
    BY <1>5, <2>1 DEF Panel!ProfilesSettled, Panel!State, Panel!ShowsWhatIsGiven,
                      Panel!WaitsForCalls
<1>6. s.division \in Division
  BY DEF Panel!State
<1> HIDE DEF PanelInv
<1> QED
  BY <1>1, <1>2, <1>3, <1>4, <1>5, <1>6
  DEF Panel!Next, Panel!ShowDivision, Panel!Retry

-----------------------------------------------------------------------------
(* SearchPage: a load of details is for the user selected just then.        *)
(* Unless the banner's button was used during a search there is one search   *)
(* at most, for what was asked for last.                                    *)

OneSearch ==
  /\ \A c, d \in s.calls : c.op = "search" /\ d.op = "search" => c = d
  /\ \A c \in s.calls : c.op = "search" => s.loading /\ c.arg = s.last

SearchInv ==
  /\ Search!TypeOK
  /\ s.error \/ s.banner # "none" => s.last \in Search!Payload
  /\ (\E c \in s.calls : c.op = "search") => s.last \in Search!Payload
  /\ s.error => ~s.loading
  /\ \A c \in s.calls : c.op = "details" => c.arg = s.sel
  /\ ~s.retried => OneSearch
  /\ Search!ResultsOfLastSearch
  /\ Search!DetailsOfSelected
  /\ Search!WaitsForCalls

\* At first nothing has been searched for.
LEMMA SearchStarts ==
  ASSUME Search!Init PROVE SearchInv
BY DEF Search!Init, SearchInv, Search!TypeOK, Search!State, Search!Payload, OneSearch,
       Search!ResultsOfLastSearch, Search!DetailsOfSelected, Search!WaitsForCalls

\* A new call.
LEMMA SearchNewCall ==
  ASSUME Search!Free # {}, NEW op, NEW arg
  PROVE  /\ Search!NewCall(op, arg).id \in 1..MaxCalls
         /\ Search!NewCall(op, arg) =
              [id |-> Search!NewCall(op, arg).id, op |-> op, arg |-> arg]
<1>1. Search!Free \in SUBSET Nat /\ Search!Free \subseteq 1..MaxCalls
  BY BoundTypes DEF Search!Free
<1>2. (CHOOSE n \in Search!Free : \A m \in Search!Free : n <= m) \in Search!Free
  BY <1>1, LeastIsOneOf
<1> QED  BY <1>1, <1>2 DEF Search!NewCall

\* A search begins; it is noted when another may be under way.
LEMMA SearchBegins ==
  ASSUME SearchInv, NEW payload \in Search!Payload, NEW retried \in BOOLEAN,
         Search!ExecuteSearch(payload, retried), s.loading => retried
  PROVE  SearchInv'
<1> DEFINE n == Search!NewCall("search", payload)
<1>1. n.id \in 1..MaxCalls /\ n = [id |-> n.id, op |-> "search", arg |-> payload]
  BY SearchNewCall DEF Search!ExecuteSearch
<1>2. s' = [s EXCEPT !.last = payload, !.loading = TRUE, !.error = FALSE,
                     !.sel = None, !.owner = None, !.busy = FALSE, !.failed = FALSE,
                     !.retried = @ \/ retried,
                     !.calls = Search!AbortDetails(@) \cup {n}]
  BY DEF Search!ExecuteSearch
<1>3. n \in Search!Call /\ n.op = "search" /\ n.arg = payload
  BY <1>1 DEF Search!Call
<1> HIDE DEF n
<1>4. s \in Search!State /\ s.retried \in BOOLEAN
  BY DEF SearchInv, Search!TypeOK, Search!State
<1>5. /\ s'.last = payload /\ s'.loading /\ ~s'.error /\ s'.sel = None /\ ~s'.busy
      /\ s'.retried = (s.retried \/ retried) /\ s'.banner = s.banner
      /\ s'.calls = Search!AbortDetails(s.calls) \cup {n}
  BY <1>2, <1>4 DEF Search!State
<1>6. s' \in Search!State
  <2>1. Search!AbortDetails(s.calls) \cup {n} \in SUBSET Search!Call
    BY <1>3, <1>4 DEF Search!State, Search!AbortDetails
  <2>2. (s.retried \/ retried) \in BOOLEAN
    BY <1>4
  <2> QED  BY <1>2, <1>4, <2>1, <2>2 DEF Search!State
<1>7. ~s'.retried => OneSearch'
  <2>1. ~s'.retried => ~s.retried /\ ~s.loading
    BY <1>5, <1>4
  <2>2. ~s'.retried => Search!AbortDetails(s.calls) = {}
    BY <2>1, <1>4 DEF SearchInv, OneSearch, Search!AbortDetails, Search!State, Search!Call
  <2> QED  BY <2>2, <1>5, <1>3 DEF OneSearch
<1>8. \A c \in s'.calls : c.op # "details"
  BY <1>5, <1>3 DEF Search!AbortDetails
<1> QED
  BY <1>3, <1>5, <1>6, <1>7, <1>8
  DEF SearchInv, Search!TypeOK, Search!ResultsOfLastSearch, Search!DetailsOfSelected,
      Search!WaitsForCalls

\* The answers of the search page are those to its last search and selection.
LEMMA SearchStep ==
  ASSUME SearchInv, Search!Next
  PROVE  SearchInv'
<1>1. /\ s \in Search!State /\ s.loading \in BOOLEAN /\ s.offset \in Nat
      /\ s.last \in Search!Payload \cup {None} /\ s.calls \subseteq Search!Call
      /\ s.error \/ s.banner # "none" => s.last \in Search!Payload
  BY DEF SearchInv, Search!TypeOK, Search!State
<1>2. ASSUME NEW q \in Query, Search!Submit(q)
      PROVE  SearchInv'
  <2>1. <<q, 0>> \in Search!Payload /\ ~s.loading /\ Search!ExecuteSearch(<<q, 0>>, FALSE)
    BY <1>2 DEF Search!Submit, Search!Payload
  <2> QED  BY <2>1, SearchBegins
<1>3. ASSUME NEW d \in {-1, 1}, Search!GoToPage(s.offset + d)
      PROVE  SearchInv'
  <2>1. s.offset + d \in Nat /\ s.last[1] \in Query
    BY <1>1, <1>3 DEF Search!GoToPage, Search!Payload
  <2>2. /\ <<s.last[1], s.offset + d>> \in Search!Payload /\ ~s.loading
        /\ Search!ExecuteSearch(<<s.last[1], s.offset + d>>, FALSE)
    BY <1>3, <2>1 DEF Search!GoToPage, Search!Payload
  <2> QED  BY <2>2, SearchBegins
<1>4. CASE Search!RetryLastSearch
  <2>1. s.error /\ Search!ExecuteSearch(s.last, FALSE)
    BY <1>4 DEF Search!RetryLastSearch
  <2>2. ~s.loading
    BY <2>1 DEF SearchInv
  <2> QED  BY <2>1, <2>2, <1>1, SearchBegins
<1>5. CASE Search!BannerRetry
  <2>1. s.last \in Search!Payload /\ Search!ExecuteSearch(s.last, s.loading)
    BY <1>1, <1>5 DEF Search!BannerRetry
  <2> QED  BY <2>1, <1>1, SearchBegins
<1>6. CASE Search!DismissBanner
  BY <1>1, <1>6 DEF Search!DismissBanner, SearchInv, Search!TypeOK, Search!State, OneSearch,
       Search!ResultsOfLastSearch, Search!DetailsOfSelected, Search!WaitsForCalls
<1>7. ASSUME NEW u \in User, Search!SelectUser(u)
      PROVE  SearchInv'
  <2> DEFINE n == Search!NewCall("details", u)
  <2>1. n.id \in 1..MaxCalls /\ n = [id |-> n.id, op |-> "details", arg |-> u]
    BY <1>7, SearchNewCall DEF Search!SelectUser
  <2>2. s' = [s EXCEPT !.sel = u, !.busy = ~Search!DetailsRun, !.failed = FALSE,
                       !.calls = Search!AbortDetails(@) \cup {n}]
    BY <1>7 DEF Search!SelectUser
  <2>3. n \in Search!Call /\ n.op = "details" /\ n.arg = u
    BY <2>1 DEF Search!Call
  <2> HIDE DEF n
  <2>4. s' \in Search!State
    BY <2>2, <2>3, <1>1 DEF Search!State, Search!AbortDetails, Search!DetailsRun
  <2>5. /\ s'.last = s.last /\ s'.loading = s.loading /\ s'.error = s.error
        /\ s'.banner = s.banner /\ s'.retried = s.retried /\ s'.items = s.items
        /\ s'.offset = s.offset /\ s'.sel = u /\ ~s'.failed
        /\ s'.calls = Search!AbortDetails(s.calls) \cup {n}
    BY <2>2, <1>1 DEF Search!State
  <2>6. \A c : c.op = "search" => (c \in s'.calls <=> c \in s.calls)
    BY <2>3, <2>5 DEF Search!AbortDetails
  <2>7. ~s'.retried => OneSearch'
    BY <2>5, <2>6 DEF SearchInv, OneSearch
  <2>8. n \in s'.calls /\ \A c \in s'.calls : c.op = "details" => c = n
    BY <2>3, <2>5 DEF Search!AbortDetails
  <2> QED
    BY <2>3, <2>4, <2>5, <2>6, <2>7, <2>8
    DEF SearchInv, Search!TypeOK, Search!ResultsOfLastSearch, Search!DetailsOfSelected,
        Search!WaitsForCalls
<1>8. ASSUME NEW c \in s.calls, Search!Found(c)
      PROVE  SearchInv'
  <2>1. c.arg \in Search!Payload /\ PagesOf[c.arg[1]] \in Nat /\ c.arg[2] \in Nat
    BY <1>1, <1>8, DataTypes DEF Search!Found, Search!Call, Search!Payload
  <2>2. s' \in Search!State
    BY <1>1, <1>8, <2>1 DEF Search!Found, Search!State, Search!Done
  <2>3. /\ s'.last = s.last /\ ~s'.loading /\ s'.error = s.error /\ s'.banner = "none"
        /\ s'.retried = s.retried /\ s'.items = c.arg /\ s'.offset = c.arg[2]
        /\ s'.sel = s.sel /\ s'.owner = s.owner /\ s'.busy = s.busy
        /\ s'.failed = s.failed /\ s'.calls = s.calls \ {c} /\ c.op = "search"
    BY <1>1, <1>8 DEF Search!Found, Search!State, Search!Done
  <2>4. ~s.retried => c.arg = s.last /\ \A d \in s'.calls : d.op # "search"
    BY <2>3 DEF SearchInv, OneSearch
  <2> QED
    BY <2>2, <2>3, <2>4
    DEF SearchInv, Search!TypeOK, Search!ResultsOfLastSearch, Search!DetailsOfSelected,
        Search!WaitsForCalls, OneSearch
<1>9. ASSUME NEW c \in s.calls, NEW banner \in {"plain", "retry"},
             Search!SearchFailed(c, banner)
      PROVE  SearchInv'
  <2>1. s' \in Search!State
    BY <1>1, <1>9 DEF Search!SearchFailed, Search!State, Search!Done
  <2>2. /\ s'.last = s.last /\ ~s'.loading /\ s'.error /\ s'.banner = banner
        /\ s'.retried = s.retried
        /\ s'.sel = s.sel /\ s'.owner = s.owner /\ s'.busy = s.busy
        /\ s'.failed = s.failed /\ s'.calls = s.calls \ {c} /\ c.op = "search"
    BY <1>1, <1>9 DEF Search!SearchFailed, Search!State, Search!Done
  <2>3. ~s.retried => \A d \in s'.calls : d.op # "search"
    BY <2>2 DEF SearchInv, OneSearch
  <2>4. s.last \in Search!Payload
    BY <2>2 DEF SearchInv
  <2> QED
    BY <2>1, <2>2, <2>3, <2>4
    DEF SearchInv, Search!TypeOK, Search!ResultsOfLastSearch, Search!DetailsOfSelected,
        Search!WaitsForCalls, OneSearch
<1>10. ASSUME NEW c \in s.calls, Search!DetailsLoaded(c) \/ Search!DetailsFailed(c)
       PROVE  SearchInv'
  <2>1. c.op = "details" /\ c.arg \in User /\ c.arg = s.sel
    BY <1>1, <1>10 DEF Search!DetailsLoaded, Search!DetailsFailed, Search!Call, SearchInv
  <2>2. s' \in Search!State
    <3>1. CASE Search!DetailsLoaded(c)
      BY <1>1, <2>1, <3>1 DEF Search!DetailsLoaded, Search!State, Search!Done
    <3>2. CASE Search!DetailsFailed(c)
      BY <1>1, <3>2 DEF Search!DetailsFailed, Search!State, Search!Done
    <3> QED  BY <1>10, <3>1, <3>2
  <2>3. /\ s'.last = s.last /\ s'.loading = s.loading /\ s'.error = s.error
        /\ s'.banner = s.banner /\ s'.retried = s.retried /\ s'.items = s.items
        /\ s'.offset = s.offset /\ s'.sel = s.sel /\ ~s'.busy /\ s'.calls = s.calls \ {c}
        /\ s'.owner = s.sel \/ s'.failed
    <3>1. CASE Search!DetailsLoaded(c)
      BY <1>1, <2>1, <3>1 DEF Search!DetailsLoaded, Search!State, Search!Done
    <3>2. CASE Search!DetailsFailed(c)
      BY <1>1, <2>1, <3>2 DEF Search!DetailsFailed, Search!State, Search!Done
    <3> QED  BY <1>10, <3>1, <3>2
  <2> QED
    BY <2>1, <2>2, <2>3
    DEF SearchInv, Search!TypeOK, Search!ResultsOfLastSearch, Search!DetailsOfSelected,
        Search!WaitsForCalls, OneSearch
<1> QED
  BY <1>2, <1>3, <1>4, <1>5, <1>6, <1>7, <1>8, <1>9, <1>10 DEF Search!Next

-----------------------------------------------------------------------------
(* TreeViewport: the tree that is not drawn yet has its layout under way,   *)
(* and the view is fitted in the first frame after the first graph.         *)

ViewportInv ==
  /\ Viewport!TypeOK
  /\ \A c \in s.calls : c.cancelled \/ c.shape = s.shape
  /\ s.graph = s.shape \/ \E c \in s.calls : ~c.cancelled
  /\ s.fits <= 1
  /\ s.fits = 1 => s.fit
  /\ s.frame => s.fit /\ s.fits = 0

\* The layouts after another has begun.
LEMMA ViewportLay ==
  ASSUME NEW C \in SUBSET [id : 1..MaxCalls, shape : Shape, cancelled : BOOLEAN],
         NEW shape \in Shape, Viewport!Free(C) # {}
  PROVE  /\ Viewport!Lay(C, shape)
              \in SUBSET [id : 1..MaxCalls, shape : Shape, cancelled : BOOLEAN]
         /\ \A c \in Viewport!Lay(C, shape) : c.cancelled \/ c.shape = shape
         /\ \E c \in Viewport!Lay(C, shape) : ~c.cancelled
<1> DEFINE F == Viewport!Free(C)
           id == CHOOSE n \in F : \A m \in F : n <= m
           new == [id |-> id, shape |-> shape, cancelled |-> FALSE]
           stopped == {[c EXCEPT !.cancelled = TRUE] : c \in C}
<1>1. F \in SUBSET Nat /\ F \subseteq 1..MaxCalls
  BY BoundTypes DEF Viewport!Free
<1>2. id \in 1..MaxCalls
  <2>1. F # {}
    OBVIOUS
  <2> HIDE DEF F
  <2>2. id \in F
    BY <1>1, <2>1, LeastIsOneOf
  <2> QED  BY <1>1, <2>2
<1>3. new \in [id : 1..MaxCalls, shape : Shape, cancelled : BOOLEAN]
      /\ new.shape = shape /\ ~new.cancelled
  <2> HIDE DEF id
  <2> QED  BY <1>2
<1>4. \A c \in stopped :
        c \in [id : 1..MaxCalls, shape : Shape, cancelled : BOOLEAN] /\ c.cancelled
  OBVIOUS
<1>5. Viewport!Lay(C, shape) = stopped \cup {new}
  BY DEF Viewport!Lay
<1> QED
  <2> HIDE DEF stopped, new
  <2> QED  BY <1>3, <1>4, <1>5

\* A viewport that is mounted, with the layouts that its predecessor has left.
LEMMA ViewportMounts ==
  ASSUME NEW C \in SUBSET [id : 1..MaxCalls, shape : Shape, cancelled : BOOLEAN],
         NEW shape \in Shape, Viewport!Free(C) # {}, NEW refreshing \in BOOLEAN
  PROVE  s = Viewport!Mounted(shape, refreshing, C) => ViewportInv
<1> DEFINE L == Viewport!Lay(C, shape)
<1>1. /\ L \in SUBSET [id : 1..MaxCalls, shape : Shape, cancelled : BOOLEAN]
      /\ \A c \in L : c.cancelled \/ c.shape = shape
      /\ \E c \in L : ~c.cancelled
  BY ViewportLay
<1>2. SUFFICES ASSUME s = [shape |-> shape, refreshing |-> refreshing, graph |-> None,
                 fallback |-> FALSE, fit |-> FALSE, frame |-> FALSE, moved |-> FALSE,
                 fits |-> 0, calls |-> L]
               PROVE  ViewportInv
  BY DEF Viewport!Mounted
<1> HIDE DEF L
<1> QED
  BY <1>1, <1>2 DEF ViewportInv, Viewport!TypeOK, Viewport!State

\* A viewport is mounted with the layout of its tree under way.
LEMMA ViewportStarts ==
  ASSUME Viewport!Init PROVE ViewportInv
<1>1. PICK shape \in Shape : s = Viewport!Mounted(shape, FALSE, {})
  BY DEF Viewport!Init
<1>2. 1 \in Viewport!Free({})
  BY BoundTypes DEF Viewport!Free
<1> QED  BY <1>1, <1>2, ViewportMounts

\* A layout that is not cancelled is that of the tree there is.
LEMMA ViewportStep ==
  ASSUME ViewportInv, Viewport!Next
  PROVE  ViewportInv'
<1> DEFINE Layout == [id : 1..MaxCalls, shape : Shape, cancelled : BOOLEAN]
<1>1. s \in Viewport!State /\ s.calls \in SUBSET Layout /\ s.refreshing \in BOOLEAN
  BY DEF ViewportInv, Viewport!TypeOK, Viewport!State
<1>2. ASSUME NEW shape \in Shape, Viewport!Remount(shape)
      PROVE  ViewportInv'
  <2> DEFINE L == Viewport!Lay(s.calls, shape)
  <2>1. /\ L \in SUBSET Layout
        /\ \A c \in L : c.cancelled \/ c.shape = shape
        /\ \E c \in L : ~c.cancelled
    BY <1>1, <1>2, ViewportLay DEF Viewport!Remount
  <2>2. s' = [shape |-> shape, refreshing |-> ~s.refreshing, graph |-> None,
              fallback |-> FALSE, fit |-> FALSE, frame |-> FALSE, moved |-> FALSE,
              fits |-> 0, calls |-> L]
    BY <1>2 DEF Viewport!Remount, Viewport!Mounted
  <2> HIDE DEF L
  <2> QED  BY <1>1, <2>1, <2>2 DEF ViewportInv, Viewport!TypeOK, Viewport!State
<1>3. ASSUME NEW shape \in Shape, Viewport!Reshape(shape)
      PROVE  ViewportInv'
  <2> DEFINE L == Viewport!Lay(s.calls, shape)
  <2>1. /\ L \in SUBSET Layout
        /\ \A c \in L : c.cancelled \/ c.shape = shape
        /\ \E c \in L : ~c.cancelled
    BY <1>1, <1>3, ViewportLay DEF Viewport!Reshape
  <2>2. s' = [s EXCEPT !.shape = shape, !.calls = L, !.frame = FALSE]
    BY <1>3 DEF Viewport!Reshape
  <2> HIDE DEF L
  <2> QED  BY <1>1, <2>1, <2>2 DEF ViewportInv, Viewport!TypeOK, Viewport!State
<1>4. ASSUME NEW c \in s.calls, NEW fallback \in BOOLEAN, Viewport!Draw(c, fallback)
      PROVE  ViewportInv'
  <2> DEFINE t == [s EXCEPT !.graph = c.shape, !.fallback = fallback, !.calls = @ \ {c}]
  <2>1. c.shape = s.shape /\ c.shape \in Shape
    BY <1>1, <1>4 DEF Viewport!Draw, ViewportInv
  <2>2. t \in Viewport!State /\ t.graph = t.shape /\ t.shape = s.shape /\ t.calls = s.calls \ {c}
        /\ t.fit = s.fit /\ t.frame = s.frame /\ t.fits = s.fits
    BY <1>1, <2>1 DEF Viewport!State
  <2>3. s' = t \/ (~t.fit /\ s' = [t EXCEPT !.fit = TRUE, !.frame = TRUE])
    BY <1>4 DEF Viewport!Draw, Viewport!FitOnce
  <2> HIDE DEF t
  <2>4. t.fits \in 0..2 /\ t.fit \in BOOLEAN
    BY <2>2 DEF Viewport!State
  <2>5. t.fits <= 1 /\ (t.fits = 1 => t.fit) /\ (t.frame => t.fit /\ t.fits = 0)
    BY <2>2 DEF ViewportInv
  <2>6. \A d \in t.calls : d.cancelled \/ d.shape = t.shape
    BY <2>2 DEF ViewportInv
  <2>7. CASE s' = t
    BY <2>2, <2>5, <2>6, <2>7 DEF ViewportInv, Viewport!TypeOK
  <2>8. CASE ~t.fit /\ s' = [t EXCEPT !.fit = TRUE, !.frame = TRUE]
    <3>1. s' \in Viewport!State
      BY <2>2, <2>8 DEF Viewport!State
    <3>2. s'.graph = t.graph /\ s'.shape = t.shape /\ s'.calls = t.calls /\ s'.fits = t.fits
          /\ s'.fit
      BY <2>2, <2>8 DEF Viewport!State
    <3>3. t.fits = 0
      BY <2>4, <2>5, <2>8
    <3> QED  BY <2>2, <2>6, <3>1, <3>2, <3>3 DEF ViewportInv, Viewport!TypeOK
  <2> QED  BY <2>3, <2>7, <2>8
<1>5. ASSUME NEW c \in s.calls, Viewport!Dropped(c)
      PROVE  ViewportInv'
  BY <1>1, <1>5 DEF Viewport!Dropped, ViewportInv, Viewport!TypeOK, Viewport!State
<1>6. CASE Viewport!Frame
  <2>1. s.fits = 0
    BY <1>6 DEF Viewport!Frame, ViewportInv
  <2>2. s' = [s EXCEPT !.frame = FALSE, !.fits = 1]
    BY <1>6, <2>1 DEF Viewport!Frame
  <2>3. s.fit
    BY <1>6 DEF Viewport!Frame, ViewportInv
  <2>4. s' \in Viewport!State
    <3>1. 1 \in 0..2 /\ FALSE \in BOOLEAN
      OBVIOUS
    <3> QED  BY <1>1, <2>2, <3>1, Zenon DEF Viewport!State
  <2>5. s'.graph = s.graph /\ s'.shape = s.shape /\ s'.calls = s.calls /\ s'.fits = 1
        /\ s'.fit = s.fit /\ ~s'.frame
    BY <1>1, <2>2 DEF Viewport!State
  <2> QED  BY <2>3, <2>4, <2>5 DEF ViewportInv, Viewport!TypeOK
<1>7. CASE Viewport!Move
  BY <1>1, <1>7 DEF Viewport!Move, ViewportInv, Viewport!TypeOK, Viewport!State
<1> QED
  BY <1>2, <1>3, <1>4, <1>5, <1>6, <1>7
  DEF Viewport!Next, Viewport!Laid, Viewport!LayoutFailed

\* What follows for the tree drawn and the view.
LEMMA ViewportProperties ==
  ASSUME ViewportInv PROVE Viewport!DrawsTheTree /\ Viewport!FittedOnce
BY DEF ViewportInv, Viewport!DrawsTheTree, Viewport!FittedOnce

-----------------------------------------------------------------------------
(* Toasts: one that slides out has its timer for as long as it is there.    *)

CornerInv ==
  /\ Corner!TypeOK
  /\ \A id \in s.toasts \cup s.seen \cup s.exiting \cup s.seenExiting : id < s.next
  /\ s.toasts \cap s.seenExiting \subseteq s.leaving
  /\ Corner!ToastsGo

\* At first there is no toast.
LEMMA CornerStarts ==
  ASSUME Corner!Init PROVE CornerInv
BY BoundTypes DEF Corner!Init, CornerInv, Corner!TypeOK, Corner!State, Corner!Toast, Corner!ToastsGo

\* Dismissing a toast gives it a timer, or there is one.
LEMMA CornerDismiss ==
  ASSUME CornerInv, NEW id \in Corner!Toast,
         s' = Corner!Dismiss(s, id)
           \/ s' = Corner!Dismiss([s EXCEPT !.timed = @ \ {id}], id)
  PROVE  CornerInv'
<1>1. s \in Corner!State
  BY DEF CornerInv, Corner!TypeOK
<1>2. PICK timed : timed \in SUBSET Corner!Toast /\ s.timed \ {id} \subseteq timed
                   /\ s' = Corner!Dismiss([s EXCEPT !.timed = timed], id)
  <2>1. s = [s EXCEPT !.timed = s.timed]
    BY <1>1 DEF Corner!State
  <2>2. s.timed \in SUBSET Corner!Toast
    BY <1>1 DEF Corner!State
  <2> QED  BY <2>1, <2>2
<1> DEFINE t == [s EXCEPT !.timed = timed]
<1>3. /\ t \in Corner!State /\ t.next = s.next /\ t.toasts = s.toasts /\ t.exiting = s.exiting
      /\ t.seen = s.seen /\ t.seenExiting = s.seenExiting /\ t.timed = timed
      /\ t.leaving = s.leaving
  BY <1>1, <1>2 DEF Corner!State
<1> HIDE DEF t
<1>4. CASE id \in s.seen /\ id \notin s.seenExiting /\ id \notin s.leaving
  <2>1. s' = [t EXCEPT !.exiting = @ \cup ({id} \cap t.toasts), !.leaving = @ \cup {id}]
    BY <1>2, <1>3, <1>4 DEF Corner!Dismiss, t
  <2>2. s' \in Corner!State
    BY <1>3, <2>1 DEF Corner!State
  <2>3. /\ s'.next = s.next /\ s'.toasts = s.toasts
        /\ s'.exiting = s.exiting \cup ({id} \cap s.toasts)
        /\ s'.seen = s.seen /\ s'.seenExiting = s.seenExiting /\ s'.timed = timed
        /\ s'.leaving = s.leaving \cup {id}
    BY <1>3, <2>1 DEF Corner!State
  <2> QED  BY <1>2, <2>2, <2>3 DEF CornerInv, Corner!TypeOK, Corner!ToastsGo
<1>5. CASE ~(id \in s.seen /\ id \notin s.seenExiting /\ id \notin s.leaving)
  <2>1. s' = t
    BY <1>2, <1>3, <1>5 DEF Corner!Dismiss, t
  <2> QED  BY <1>2, <1>3, <1>5, <2>1 DEF CornerInv, Corner!TypeOK, Corner!ToastsGo
<1> QED  BY <1>4, <1>5

\* Toasts that leave go on leaving, and those that are seen are of a number given.
LEMMA CornerStep ==
  ASSUME CornerInv, Corner!Next
  PROVE  CornerInv'
<1>1. s \in Corner!State
  BY DEF CornerInv, Corner!TypeOK
<1>2. CASE Corner!ShowToast
  <2> DEFINE kept == Corner!Newest(s.toasts \cup {s.next})
  <2>1. kept \subseteq s.toasts \cup {s.next}
    BY DEF Corner!Newest
  <2>2. /\ s.next < MaxShown
        /\ s' = [s EXCEPT !.next = @ + 1, !.toasts = kept, !.exiting = @ \cap kept]
    BY <1>2 DEF Corner!ShowToast
  <2>3. s.next \in Nat /\ s.next \in Corner!Toast /\ s.next + 1 \in 0..MaxShown
    BY <1>1, <2>2, BoundTypes DEF Corner!State, Corner!Toast
  <2> HIDE DEF kept
  <2>4. s' \in Corner!State
    BY <1>1, <2>1, <2>2, <2>3 DEF Corner!State
  <2>5. /\ s'.next = s.next + 1 /\ s'.toasts = kept /\ s'.exiting = s.exiting \cap kept
        /\ s'.seen = s.seen /\ s'.seenExiting = s.seenExiting /\ s'.timed = s.timed
        /\ s'.leaving = s.leaving
    BY <1>1, <2>2 DEF Corner!State
  <2>6. \A id \in Corner!Toast : id < s.next => id < s.next + 1 /\ id # s.next
    BY <2>3, BoundTypes DEF Corner!Toast
  <2>7. s.toasts \cup s.seen \cup s.exiting \cup s.seenExiting \subseteq Corner!Toast
    BY <1>1 DEF Corner!State
  <2>8. s.next < s.next + 1
    BY <2>3
  <2>9. s.next \notin s.seen \cup s.exiting \cup s.seenExiting
    BY <2>6, <2>7 DEF CornerInv
  <2>10. \A id \in s'.toasts \cup s'.seen \cup s'.exiting \cup s'.seenExiting : id < s'.next
    BY <2>1, <2>5, <2>6, <2>7, <2>8 DEF CornerInv
  <2> QED
    BY <2>1, <2>4, <2>5, <2>9, <2>10 DEF CornerInv, Corner!TypeOK, Corner!ToastsGo
<1>3. CASE Corner!Commit
  BY <1>1, <1>3 DEF Corner!Commit, Corner!State, CornerInv, Corner!TypeOK, Corner!ToastsGo
<1>4. ASSUME NEW id \in Corner!Toast, Corner!TimeIsUp(id) \/ Corner!Close(id)
      PROVE  CornerInv'
  BY <1>4, CornerDismiss DEF Corner!TimeIsUp, Corner!Close
<1>5. ASSUME NEW id \in Corner!Toast, Corner!Remove(id)
      PROVE  CornerInv'
  BY <1>1, <1>5 DEF Corner!Remove, Corner!State, CornerInv, Corner!TypeOK, Corner!ToastsGo
<1> QED
  BY <1>2, <1>3, <1>4, <1>5 DEF Corner!Next

-----------------------------------------------------------------------------
(* AuditLogPage: unless loads have overlapped there is one at most, for the *)
(* filters applied and the page named in the footer.                        *)

OneLoad ==
  /\ \A c, d \in s.calls : c = d
  /\ \A c \in s.calls : c.query = <<s.applied, s.offset>>

AuditInv ==
  /\ Audit!TypeOK
  /\ ~s.overlapped => OneLoad
  /\ Audit!ShowsWhatIsApplied
  /\ Audit!WaitsForCalls

\* At first a load without a filter is under way.
LEMMA AuditStarts ==
  ASSUME Audit!Init PROVE AuditInv
<1>1. 1 \in 1..MaxCalls /\ NoFilter \in Query
  BY BoundTypes, DataTypes
<1>2. [id |-> 1, query |-> <<NoFilter, 0>>] \in [id : 1..MaxCalls, query : Audit!PageQuery]
  BY <1>1 DEF Audit!PageQuery
<1> DEFINE new == [id |-> 1, query |-> <<NoFilter, 0>>]
<1>3. s = [draft |-> NoFilter, applied |-> NoFilter, offset |-> 0, items |-> None,
           total |-> 0, loaded |-> FALSE, loading |-> TRUE, error |-> FALSE,
           overlapped |-> FALSE, calls |-> {new}]
  BY DEF Audit!Init
<1>4. new.query = <<NoFilter, 0>>
  OBVIOUS
<1> HIDE DEF new
<1>5. new \in [id : 1..MaxCalls, query : Audit!PageQuery]
  BY <1>2 DEF new
<1> QED
  BY <1>1, <1>3, <1>4, <1>5 DEF AuditInv, Audit!TypeOK, Audit!State, OneLoad,
       Audit!ShowsWhatIsApplied, Audit!WaitsForCalls

\* A click that leaves the page in state t, and the effect that follows it.
LEMMA AuditSettles ==
  ASSUME AuditInv, NEW t \in Audit!State, t.calls = s.calls, t.overlapped = s.overlapped,
         t.items = s.items, t.error = s.error, t.loading = s.loading,
         \/ Audit!Load(t)
         \/ t.applied = s.applied /\ t.offset = s.offset /\ s' = t
  PROVE  AuditInv'
<1>1. CASE t.applied = s.applied /\ t.offset = s.offset /\ s' = t
  BY <1>1 DEF AuditInv, Audit!TypeOK, OneLoad, Audit!ShowsWhatIsApplied, Audit!WaitsForCalls
<1>2. CASE Audit!Load(t)
  <2> DEFINE id == CHOOSE n \in Audit!Free : \A m \in Audit!Free : n <= m
             new == [id |-> id, query |-> <<t.applied, t.offset>>]
  <2>1. Audit!Free \in SUBSET Nat /\ Audit!Free \subseteq 1..MaxCalls /\ Audit!Free # {}
    BY <1>2, BoundTypes DEF Audit!Free, Audit!Load
  <2>2. id \in Audit!Free
    BY <2>1, LeastIsOneOf
  <2>3. s' = [t EXCEPT !.loading = TRUE, !.error = FALSE, !.overlapped = @ \/ s.calls # {},
                       !.calls = @ \cup {new}]
    BY <1>2 DEF Audit!Load
  <2>4. /\ new \in [id : 1..MaxCalls, query : Audit!PageQuery]
        /\ new.query = <<t.applied, t.offset>>
    <3> HIDE DEF id
    <3>1. id \in 1..MaxCalls /\ t.applied \in Query /\ t.offset \in Nat
      BY <2>1, <2>2 DEF Audit!State
    <3> QED  BY <3>1 DEF Audit!PageQuery
  <2> HIDE DEF new
  <2>5. s' \in Audit!State
    <3>1. (t.overlapped \/ s.calls # {}) \in BOOLEAN
      OBVIOUS
    <3> QED  BY <2>3, <2>4, <3>1 DEF Audit!State
  <2>6. /\ s'.applied = t.applied /\ s'.offset = t.offset
        /\ s'.overlapped = (s.overlapped \/ s.calls # {}) /\ s'.calls = s.calls \cup {new}
    BY <2>3 DEF Audit!State
  <2> QED
    BY <2>4, <2>5, <2>6 DEF AuditInv, Audit!TypeOK, OneLoad, Audit!ShowsWhatIsApplied,
                            Audit!WaitsForCalls
<1> QED  BY <1>1, <1>2

\* A load ends with the page and the filter it was for.
LEMMA AuditStep ==
  ASSUME AuditInv, Audit!Next
  PROVE  AuditInv'
<1>1. /\ s \in Audit!State /\ s.draft \in Query /\ s.applied \in Query /\ s.offset \in Nat
      /\ s.calls \subseteq [id : 1..MaxCalls, query : Audit!PageQuery]
  BY DEF AuditInv, Audit!TypeOK, Audit!State
<1>2. ASSUME NEW f \in Query, Audit!UpdateDraft(f)
      PROVE  AuditInv'
  BY <1>1, <1>2 DEF Audit!UpdateDraft, Audit!State, AuditInv, Audit!TypeOK, OneLoad,
                    Audit!ShowsWhatIsApplied, Audit!WaitsForCalls
<1>3. ASSUME NEW draft \in Query, NEW applied \in Query, NEW offset \in Nat,
             Audit!Settle([s EXCEPT !.draft = draft, !.applied = applied, !.offset = offset])
      PROVE  AuditInv'
  <2> DEFINE t == [s EXCEPT !.draft = draft, !.applied = applied, !.offset = offset]
  <2>1. /\ t \in Audit!State /\ t.calls = s.calls /\ t.overlapped = s.overlapped
        /\ t.items = s.items /\ t.error = s.error /\ t.loading = s.loading
    BY <1>1 DEF Audit!State
  <2>2. \/ Audit!Load(t)
        \/ t.applied = s.applied /\ t.offset = s.offset /\ s' = t
    BY <1>3 DEF Audit!Settle
  <2> HIDE DEF t
  <2> QED  BY <2>1, <2>2, AuditSettles
<1>4. CASE Audit!SubmitFilters
  <2>1. [s EXCEPT !.offset = 0, !.applied = s.draft]
          = [s EXCEPT !.draft = s.draft, !.applied = s.draft, !.offset = 0]
    BY <1>1 DEF Audit!State
  <2> QED  BY <1>1, <1>3, <1>4, <2>1 DEF Audit!SubmitFilters
<1>5. CASE Audit!ResetFilters
  <2>1. Audit!Settle([s EXCEPT !.draft = NoFilter, !.applied = NoFilter, !.offset = 0])
    BY <1>5 DEF Audit!ResetFilters
  <2>2. NoFilter \in Query /\ 0 \in Nat
    BY DataTypes
  <2> QED  BY <1>3, <2>1, <2>2
<1>6. ASSUME NEW offset \in Nat, Audit!Settle([s EXCEPT !.offset = offset])
      PROVE  AuditInv'
  <2>1. [s EXCEPT !.offset = offset]
          = [s EXCEPT !.draft = s.draft, !.applied = s.applied, !.offset = offset]
    BY <1>1 DEF Audit!State
  <2> QED  BY <1>1, <1>3, <1>6, <2>1
<1>7. CASE Audit!Previous
  <2>1. s.offset - 1 \in Nat /\ Audit!Settle([s EXCEPT !.offset = s.offset - 1])
    BY <1>1, <1>7 DEF Audit!Previous
  <2> QED  BY <1>6, <2>1
<1>8. CASE Audit!Following
  <2>1. s.offset + 1 \in Nat /\ Audit!Settle([s EXCEPT !.offset = s.offset + 1])
    BY <1>1, <1>8 DEF Audit!Following
  <2> QED  BY <1>6, <2>1
<1>9. CASE Audit!Retry
  BY <1>1, <1>9, AuditSettles DEF Audit!Retry
<1>10. ASSUME NEW c \in s.calls, Audit!Loaded(c)
       PROVE  AuditInv'
  <2>1. c.query \in Audit!PageQuery /\ PagesOf[c.query[1]] \in Nat
    BY <1>1, DataTypes DEF Audit!PageQuery
  <2>2. s' \in Audit!State
    BY <1>1, <1>10, <2>1 DEF Audit!Loaded, Audit!State
  <2>3. /\ s'.applied = s.applied /\ s'.offset = s.offset /\ s'.overlapped = s.overlapped
        /\ s'.items = c.query /\ ~s'.loading /\ s'.calls = s.calls \ {c}
    BY <1>1, <1>10 DEF Audit!Loaded, Audit!State
  <2> QED
    BY <2>2, <2>3 DEF AuditInv, Audit!TypeOK, OneLoad, Audit!ShowsWhatIsApplied,
                      Audit!WaitsForCalls
<1>11. ASSUME NEW c \in s.calls, Audit!LoadFailed(c)
       PROVE  AuditInv'
  <2>1. s' \in Audit!State
    BY <1>1, <1>11 DEF Audit!LoadFailed, Audit!State
  <2>2. /\ s'.applied = s.applied /\ s'.offset = s.offset /\ s'.overlapped = s.overlapped
        /\ s'.error /\ ~s'.loading /\ s'.calls = s.calls \ {c}
    BY <1>1, <1>11 DEF Audit!LoadFailed, Audit!State
  <2>3. s'.calls \subseteq s.calls
    BY <2>2
  <2>4. ~s'.overlapped => OneLoad'
    BY <2>2, <2>3 DEF AuditInv, OneLoad
  <2> QED
    BY <2>1, <2>2, <2>4 DEF AuditInv, Audit!TypeOK, Audit!ShowsWhatIsApplied,
                            Audit!WaitsForCalls
<1> QED
  BY <1>2, <1>4, <1>5, <1>7, <1>8, <1>9, <1>10, <1>11 DEF Audit!Next

-----------------------------------------------------------------------------
(* ProfilePage: nothing is saved while the profile is loaded, and one call  *)
(* of each of these kinds is under way at most.                             *)

ProfileInv ==
  /\ Profile!TypeOK
  /\ s.loading => ~s.error
  /\ s.loading \/ s.error => ~s.saving
  /\ \A c \in s.calls : c.op = "load" => s.loading
  /\ \A c \in s.calls : c.op = "load" /\ "profile" \in c.parts => c.value = s.saved
  /\ \A c, d \in s.calls : c.op = "load" /\ d.op = "load" => c = d
  /\ \A c \in s.calls : c.op = "save" => s.saving
  /\ Profile!ProfileIsTheSavedOne
  /\ Profile!FadingRowsGo
  /\ Profile!WaitsForCalls

\* At first the profile is loaded.
LEMMA ProfileStarts ==
  ASSUME Profile!Init PROVE ProfileInv
<1> DEFINE new == [id |-> 1, op |-> "load", parts |-> {}, value |-> None, held |-> {}]
<1>1. 1 \in 1..MaxCalls /\ InitialValue \in Value
  BY BoundTypes, DataTypes
<1>2. new \in Profile!Call /\ new.op = "load" /\ new.parts = {}
  BY <1>1 DEF Profile!Call
<1>3. s = [held |-> Position, saved |-> InitialValue, profile |-> None, rows |-> {},
           loading |-> TRUE, error |-> FALSE, draft |-> None, saving |-> FALSE,
           dialog |-> None, fading |-> {}, timers |-> {}, unsure |-> FALSE,
           calls |-> {new}]
  BY DEF Profile!Init, Profile!NewLoad
<1> HIDE DEF new
<1>4. s \in Profile!State
  BY <1>1, <1>2, <1>3 DEF Profile!State
<1> QED
  BY <1>2, <1>3, <1>4 DEF ProfileInv, Profile!TypeOK, Profile!ProfileIsTheSavedOne,
       Profile!FadingRowsGo, Profile!WaitsForCalls, Profile!Drawn

\* The number of a new call.
LEMMA ProfileNewId ==
  ASSUME Profile!Free # {} PROVE Profile!NewId \in 1..MaxCalls
<1>1. Profile!Free \in SUBSET Nat /\ Profile!Free \subseteq 1..MaxCalls
  BY BoundTypes DEF Profile!Free
<1>2. Profile!NewId \in Profile!Free
  BY <1>1, LeastIsOneOf DEF Profile!NewId
<1> QED  BY <1>1, <1>2

\* What a step does to what is on the screen leaves the invariant to the calls.
LEMMA ProfileStep ==
  ASSUME ProfileInv, Profile!Next
  PROVE  ProfileInv'
<1> DEFINE Load == [id : 1..MaxCalls, op : {"load"}, parts : SUBSET Profile!Part,
                    value : Value \cup {None}, held : SUBSET Position]
           Save == [id : 1..MaxCalls, op : {"save"}, value : Valid]
           Remove == [id : 1..MaxCalls, op : {"remove"}, position : Position]
<1> USE DEF Profile!Drawn, Profile!Clickable
<1>1. /\ s \in Profile!State /\ s.calls \subseteq Load \cup Save \cup Remove
      /\ s.loading \in BOOLEAN /\ s.error \in BOOLEAN /\ s.saving \in BOOLEAN
      /\ s.saved \in Value /\ s.profile \in Value \cup {None} /\ s.held \in SUBSET Position
      /\ s.dialog \in Position \cup {None} /\ s.draft \in Value \cup {None}
      /\ s.unsure \in BOOLEAN
  BY DEF ProfileInv, Profile!TypeOK, Profile!State, Profile!Call
<1>2. CASE Profile!Retry
  <2> DEFINE n == Profile!NewLoad(Profile!NewId)
  <2>1. Profile!NewId \in 1..MaxCalls
    BY <1>2, ProfileNewId DEF Profile!Retry
  <2>2. n \in Profile!Call /\ n.op = "load" /\ n.parts = {}
    BY <2>1 DEF Profile!NewLoad, Profile!Call
  <2>3. s' = [s EXCEPT !.loading = TRUE, !.error = FALSE, !.calls = @ \cup {n}]
        /\ s.error /\ ~s.loading
    BY <1>2 DEF Profile!Retry
  <2> HIDE DEF n
  <2>4. s' \in Profile!State
    BY <1>1, <2>2, <2>3 DEF Profile!State
  <2>5. /\ s'.loading /\ ~s'.error /\ s'.saving = s.saving /\ s'.saved = s.saved
        /\ s'.unsure = s.unsure
        /\ s'.profile = s.profile /\ s'.fading = s.fading /\ s'.held = s.held
        /\ s'.timers = s.timers /\ s'.calls = s.calls \cup {n}
    BY <1>1, <2>3 DEF Profile!State
  <2>6. ~s.saving /\ \A c \in s.calls : c.op # "load" /\ c.op # "save"
    BY <2>3 DEF ProfileInv
  <2> QED
    BY <2>2, <2>4, <2>5, <2>6 DEF ProfileInv, Profile!TypeOK, Profile!ProfileIsTheSavedOne,
         Profile!FadingRowsGo, Profile!WaitsForCalls
<1>3. CASE Profile!Edit \/ Profile!CancelEdit \/ Profile!CancelRemove
           \/ (\E v \in Value : Profile!UpdateDraft(v))
           \/ (\E p \in Position : Profile!RemoveButton(p))
  <2>1. s' \in Profile!State
    BY <1>1, <1>3 DEF Profile!Edit, Profile!CancelEdit, Profile!CancelRemove,
         Profile!UpdateDraft, Profile!RemoveButton, Profile!State
  <2>2. /\ s'.loading = s.loading /\ s'.error = s.error /\ s'.saving = s.saving
        /\ s'.unsure = s.unsure
        /\ s'.saved = s.saved /\ s'.profile = s.profile /\ s'.fading = s.fading
        /\ s'.held = s.held /\ s'.timers = s.timers /\ s'.calls = s.calls
    BY <1>1, <1>3 DEF Profile!Edit, Profile!CancelEdit, Profile!CancelRemove,
         Profile!UpdateDraft, Profile!RemoveButton, Profile!State
  <2> QED
    BY <2>1, <2>2 DEF ProfileInv, Profile!TypeOK, Profile!ProfileIsTheSavedOne,
         Profile!FadingRowsGo, Profile!WaitsForCalls
<1>4. CASE Profile!Save
  <2> DEFINE n == [id |-> Profile!NewId, op |-> "save", value |-> s.draft]
  <2>1. Profile!NewId \in 1..MaxCalls
    BY <1>4, ProfileNewId DEF Profile!Save
  <2>2. n \in Profile!Call /\ n.op = "save"
    BY <1>4, <2>1 DEF Profile!Save, Profile!Call
  <2>3. s' = [s EXCEPT !.saving = TRUE, !.calls = @ \cup {n}]
        /\ ~s.saving /\ ~s.loading /\ ~s.error
    BY <1>4 DEF Profile!Save
  <2> HIDE DEF n
  <2>4. s' \in Profile!State
    BY <1>1, <2>2, <2>3 DEF Profile!State
  <2>5. /\ s'.loading = s.loading /\ s'.error = s.error /\ s'.saving /\ s'.saved = s.saved
        /\ s'.unsure = s.unsure
        /\ s'.profile = s.profile /\ s'.fading = s.fading /\ s'.held = s.held
        /\ s'.timers = s.timers /\ s'.calls = s.calls \cup {n}
    BY <1>1, <2>3 DEF Profile!State
  <2>6. \A c \in s.calls : c.op # "load" /\ c.op # "save"
    BY <2>3 DEF ProfileInv
  <2> QED
    BY <2>2, <2>3, <2>4, <2>5, <2>6 DEF ProfileInv, Profile!TypeOK,
         Profile!ProfileIsTheSavedOne, Profile!FadingRowsGo, Profile!WaitsForCalls
<1>5. CASE Profile!ConfirmRemove
  <2> DEFINE n == [id |-> Profile!NewId, op |-> "remove", position |-> s.dialog]
  <2>1. Profile!NewId \in 1..MaxCalls /\ s.dialog \in Position
    BY <1>1, <1>5, ProfileNewId DEF Profile!ConfirmRemove
  <2>2. n \in Profile!Call /\ n.op = "remove"
    BY <2>1 DEF Profile!Call
  <2>3. s' = [s EXCEPT !.dialog = None, !.calls = @ \cup {n}]
    BY <1>5 DEF Profile!ConfirmRemove
  <2> HIDE DEF n
  <2>4. s' \in Profile!State
    BY <1>1, <2>2, <2>3 DEF Profile!State
  <2>5. /\ s'.loading = s.loading /\ s'.error = s.error /\ s'.saving = s.saving
        /\ s'.unsure = s.unsure
        /\ s'.saved = s.saved /\ s'.profile = s.profile /\ s'.fading = s.fading
        /\ s'.held = s.held /\ s'.timers = s.timers /\ s'.calls = s.calls \cup {n}
    BY <1>1, <2>3 DEF Profile!State
  <2> QED
    BY <2>2, <2>4, <2>5 DEF ProfileInv, Profile!TypeOK, Profile!ProfileIsTheSavedOne,
         Profile!FadingRowsGo, Profile!WaitsForCalls
<1>6. ASSUME NEW c \in s.calls, NEW part \in Profile!Part, Profile!PartLoaded(c, part)
      PROVE  ProfileInv'
  <2> DEFINE n == [c EXCEPT !.parts = {part}, !.value = IF part = "profile" THEN s.saved ELSE None,
                            !.held = IF part = "memberships" THEN s.held ELSE {}]
  <2>1. c \in Load
    BY <1>1, <1>6 DEF Profile!PartLoaded
  <2>2. /\ n \in Load /\ n.op = "load" /\ ("profile" \in n.parts => n.value = s.saved)
    BY <1>1, <2>1
  <2>3. s' = [s EXCEPT !.calls = (@ \ {c}) \cup {n}]
    BY <1>6 DEF Profile!PartLoaded
  <2>4. c.op = "load" /\ \A d \in s.calls : d.op = "load" => d = c
    BY <1>6 DEF Profile!PartLoaded, ProfileInv
  <2>5. n \in Profile!Call
    BY <2>2 DEF Profile!Call
  <2> HIDE DEF n, Load, Save, Remove
  <2>6. s' \in Profile!State
    BY <1>1, <2>5, <2>3 DEF Profile!State
  <2>7. /\ s'.loading = s.loading /\ s'.error = s.error /\ s'.saving = s.saving
        /\ s'.unsure = s.unsure
        /\ s'.saved = s.saved /\ s'.profile = s.profile /\ s'.fading = s.fading
        /\ s'.held = s.held /\ s'.timers = s.timers /\ s'.calls = (s.calls \ {c}) \cup {n}
    BY <1>1, <2>3 DEF Profile!State
  <2> QED
    BY <2>2, <2>4, <2>6, <2>7 DEF ProfileInv, Profile!TypeOK, Profile!ProfileIsTheSavedOne,
         Profile!FadingRowsGo, Profile!WaitsForCalls
<1>7. ASSUME NEW c \in s.calls, Profile!LoadEnds(c)
      PROVE  ProfileInv'
  <2>1. c \in Load /\ c.op = "load"
    BY <1>1, <1>7 DEF Profile!LoadEnds
  <2>2. s.loading /\ ~s.saving /\ \A d \in s.calls : d.op # "save" /\ (d.op = "load" => d = c)
    BY <2>1 DEF ProfileInv
  <2> DEFINE profile == IF "profile" \in c.parts THEN c.value ELSE s.saved
             rows == IF "memberships" \in c.parts THEN c.held ELSE s.held
  <2>3. profile = s.saved /\ rows \in SUBSET Position
    BY <1>1, <2>1 DEF ProfileInv
  <2>4. s' = [s EXCEPT !.profile = profile, !.rows = rows, !.loading = FALSE,
                       !.calls = @ \ {c}]
    BY <1>7 DEF Profile!LoadEnds
  <2> HIDE DEF profile, rows, Load, Save, Remove
  <2>5. s' \in Profile!State
    BY <1>1, <2>3, <2>4 DEF Profile!State
  <2>6. /\ ~s'.loading /\ s'.error = s.error /\ s'.saving = s.saving
        /\ s'.unsure = s.unsure
        /\ s'.saved = s.saved /\ s'.profile = s.saved /\ s'.fading = s.fading
        /\ s'.held = s.held /\ s'.timers = s.timers /\ s'.calls = s.calls \ {c}
    BY <1>1, <2>3, <2>4 DEF Profile!State
  <2> QED
    BY <2>2, <2>5, <2>6 DEF ProfileInv, Profile!TypeOK, Profile!ProfileIsTheSavedOne,
         Profile!FadingRowsGo, Profile!WaitsForCalls
<1>8. ASSUME NEW c \in s.calls, Profile!LoadFails(c)
      PROVE  ProfileInv'
  <2>1. c.op = "load" /\ s' = [s EXCEPT !.error = TRUE, !.loading = FALSE, !.calls = @ \ {c}]
    BY <1>8 DEF Profile!LoadFails
  <2>2. s.loading /\ ~s.saving /\ \A d \in s.calls : d.op # "save" /\ (d.op = "load" => d = c)
    BY <2>1 DEF ProfileInv
  <2> HIDE DEF Load, Save, Remove
  <2>3. s' \in Profile!State
    BY <1>1, <2>1 DEF Profile!State
  <2>4. /\ ~s'.loading /\ s'.error /\ s'.saving = s.saving
        /\ s'.unsure = s.unsure
        /\ s'.saved = s.saved /\ s'.profile = s.profile /\ s'.fading = s.fading
        /\ s'.held = s.held /\ s'.timers = s.timers /\ s'.calls = s.calls \ {c}
    BY <1>1, <2>1 DEF Profile!State
  <2> QED
    BY <2>2, <2>3, <2>4 DEF ProfileInv, Profile!TypeOK, Profile!ProfileIsTheSavedOne,
         Profile!FadingRowsGo, Profile!WaitsForCalls
<1>9. ASSUME NEW c \in s.calls, Profile!Saved(c) \/ Profile!NotSaved(c)
      PROVE  ProfileInv'
  <2>1. c.op = "save" /\ c.value \in Value
    BY <1>1, <1>9, DataTypes DEF Profile!Saved, Profile!NotSaved
  <2>2. ~s.loading /\ \A d \in s.calls : d.op # "load" /\ (d.op = "save" => d = c)
    BY <2>1 DEF ProfileInv, Profile!ProfileIsTheSavedOne
  <2> HIDE DEF Load, Save, Remove
  <2>3. s' \in Profile!State
    <3>1. CASE Profile!Saved(c)
      BY <1>1, <2>1, <3>1 DEF Profile!Saved, Profile!State
    <3>2. CASE s' = [s EXCEPT !.saving = FALSE, !.calls = @ \ {c}]
      BY <1>1, <3>2 DEF Profile!State
    <3>3. CASE s' = [s EXCEPT !.saved = c.value, !.saving = FALSE, !.unsure = TRUE,
                              !.calls = @ \ {c}]
      BY <1>1, <2>1, <3>3 DEF Profile!State
    <3> QED  BY <1>9, <3>1, <3>2, <3>3 DEF Profile!NotSaved
  <2>4. /\ s'.loading = s.loading /\ s'.error = s.error /\ ~s'.saving
        /\ s'.fading = s.fading /\ s'.held = s.held /\ s'.timers = s.timers
        /\ s'.calls = s.calls \ {c}
        /\ \/ s'.saved = c.value /\ s'.profile = c.value
           \/ s'.saved = s.saved /\ s'.profile = s.profile /\ s'.unsure = s.unsure
           \/ s'.unsure
    <3>1. CASE Profile!Saved(c)
      BY <1>1, <3>1 DEF Profile!Saved, Profile!State
    <3>2. CASE s' = [s EXCEPT !.saving = FALSE, !.calls = @ \ {c}]
      BY <1>1, <3>2 DEF Profile!State
    <3>3. CASE s' = [s EXCEPT !.saved = c.value, !.saving = FALSE, !.unsure = TRUE,
                              !.calls = @ \ {c}]
      BY <1>1, <3>3 DEF Profile!State
    <3> QED  BY <1>9, <3>1, <3>2, <3>3 DEF Profile!NotSaved
  <2> QED
    BY <2>2, <2>3, <2>4 DEF ProfileInv, Profile!TypeOK, Profile!ProfileIsTheSavedOne,
         Profile!FadingRowsGo, Profile!WaitsForCalls
<1>10. ASSUME NEW c \in s.calls, Profile!Removed(c) \/ Profile!NotRemoved(c)
       PROVE  ProfileInv'
  <2>1. c.op = "remove" /\ c.position \in Position
    BY <1>1, <1>10 DEF Profile!Removed, Profile!NotRemoved
  <2> HIDE DEF Load, Save, Remove
  <2>2. s' \in Profile!State
    <3>1. CASE Profile!Removed(c)
      BY <1>1, <2>1, <3>1 DEF Profile!Removed, Profile!State
    <3>2. CASE Profile!NotRemoved(c)
      BY <1>1, <3>2 DEF Profile!NotRemoved, Profile!State
    <3> QED  BY <1>10, <3>1, <3>2
  <2>3. /\ s'.loading = s.loading /\ s'.error = s.error /\ s'.saving = s.saving
        /\ s'.unsure = s.unsure
        /\ s'.saved = s.saved /\ s'.profile = s.profile /\ s'.calls = s.calls \ {c}
        /\ \/ s'.fading = s.fading /\ s'.held = s.held /\ s'.timers = s.timers
           \/ /\ s'.fading = s.fading \cup {c.position} /\ s'.held = s.held \ {c.position}
              /\ s'.timers = s.timers \cup {c.position}
    BY <1>1, <1>10 DEF Profile!Removed, Profile!NotRemoved, Profile!State
  <2> QED
    BY <2>1, <2>2, <2>3 DEF ProfileInv, Profile!TypeOK, Profile!ProfileIsTheSavedOne,
         Profile!FadingRowsGo, Profile!WaitsForCalls
<1>11. ASSUME NEW p \in Position, Profile!FadeOut(p) \/ Profile!OtherRemoves(p)
       PROVE  ProfileInv'
  <2> HIDE DEF Load, Save, Remove
  <2>1. s' \in Profile!State
    <3>1. CASE Profile!FadeOut(p)
      BY <1>1, <3>1 DEF Profile!FadeOut, Profile!State
    <3>2. CASE Profile!OtherRemoves(p)
      BY <1>1, <3>2 DEF Profile!OtherRemoves, Profile!State
    <3> QED  BY <1>11, <3>1, <3>2
  <2>2. /\ s'.loading = s.loading /\ s'.error = s.error /\ s'.saving = s.saving
        /\ s'.unsure = s.unsure
        /\ s'.saved = s.saved /\ s'.profile = s.profile /\ s'.calls = s.calls
        /\ \/ s'.fading = s.fading \ {p} /\ s'.held = s.held /\ s'.timers = s.timers \ {p}
           \/ s'.fading = s.fading /\ s'.held = s.held \ {p} /\ s'.timers = s.timers
    BY <1>1, <1>11 DEF Profile!FadeOut, Profile!OtherRemoves, Profile!State
  <2> QED
    BY <2>1, <2>2 DEF ProfileInv, Profile!TypeOK, Profile!ProfileIsTheSavedOne,
         Profile!FadingRowsGo, Profile!WaitsForCalls
<1> QED
  BY <1>2, <1>3, <1>4, <1>5, <1>6, <1>7, <1>8, <1>9, <1>10, <1>11 DEF Profile!Next

-----------------------------------------------------------------------------
(* SessionShell.                                                            *)

\* Calls that open, look for or end a session.
ForSession(c) == c.op \in {"probe", "login", "register", "logout"}

\* Calls have numbers of their own, and that of the form is of its kind.
ShellCallsNumbered ==
  /\ \A c, d \in s.calls : c.id = d.id => c = d
  /\ \A c \in s.calls : c.id = s.form => c.op \in {"login", "register"}

\* Unless two forms have been submitted at once there is one such call at most:
\* a probe is of the cookie, a form is on its screen, a logout on its page.
OneForSession ==
  /\ \A c, d \in s.calls : ForSession(c) /\ ForSession(d) => c = d
  /\ \A c \in s.calls :
       /\ c.op = "probe" => s.booting /\ c.cookie = s.cookie
       /\ c.op \in {"login", "register"} => Shell!AuthScreen
       /\ c.op = "logout" => Shell!Page /\ s.leaving
  /\ Shell!Page /\ ~s.redirecting => s.user = s.cookie /\ s.csrf = s.cookie

\* The number of sessions that have ended.
Ended == s.opened - Cardinality(s.open)

\* A 401 has loaded this page, and its probe is under way.
FreshPage ==
  /\ s.path = AuthRoute /\ s.past = {AuthRoute}
  /\ s.status = "loading" /\ s.booting
  /\ \A c, d \in s.calls : c = d
  /\ \A c \in s.calls : c.op = "probe" /\ (c.open => s.cookie \in s.open /\ c.cookie \in s.open)

\* Whatever may be answered with a 401 that loads the page anew is of an open
\* session, and bears a token.
OpenPage ==
  /\ \A c \in s.calls : c.op \in {"probe", "load", "save", "logout"} => c.cookie \in s.open
  /\ \A c \in s.calls : c.op \in {"save", "logout"} => c.token # 0
  /\ \A c \in s.calls : c.op = "probe" => s.cookie \in s.open
  /\ s.status = "authenticated" => s.cookie \in s.open /\ s.csrf # 0

\* Before a page is left because of a 401, a session of its own has ended.
EachReloadEarned ==
  \/ s.redirects <= Ended
  \/ s.redirects <= Ended + 1 /\ (s.redirecting \/ FreshPage \/ OpenPage)

ShellInv ==
  /\ Shell!TypeOK
  /\ s.open \subseteq 1..s.opened
  /\ ShellCallsNumbered
  /\ Shell!WaitsForCalls
  /\ ~s.overlapped => OneForSession
  /\ EachReloadEarned

\* SessionShell counts as FiniteSets does.
LEMMA ShellCardinality == \A S : Shell!Cardinality(S) = Cardinality(S)
BY DEF Shell!Cardinality, Cardinality

\* What follows for the page and its cookie, and for loading it anew.
LEMMA ShellProperties ==
  ASSUME ShellInv PROVE Shell!PageOfCookie /\ Shell!NoReloadLoop
<1>1. Shell!PageOfCookie
  BY DEF ShellInv, OneForSession, Shell!PageOfCookie
<1>2. IsFiniteSet(s.open) /\ s.opened \in Int /\ s.redirects \in Int
  <2>1. s.open \subseteq 1..MaxSessions /\ IsFiniteSet(1..MaxSessions)
    BY FS_Interval, BoundTypes DEF ShellInv, Shell!TypeOK, Shell!State, Shell!Session
  <2>2. s.opened \in 0..MaxSessions /\ s.redirects \in 0..(MaxSessions + 2)
    BY DEF ShellInv, Shell!TypeOK, Shell!State, Shell!Maybe
  <2>3. MaxSessions \in Nat
    BY BoundTypes
  <2>4. \A n \in 0..MaxSessions : n \in Int
    BY <2>3
  <2>6. \A n \in 0..(MaxSessions + 2) : n \in Int
    BY <2>3
  <2>5. IsFiniteSet(s.open)
    BY <2>1, FS_Subset
  <2> QED  BY <2>2, <2>4, <2>5, <2>6
<1>3. Ended \in Int
  BY <1>2, FS_CardinalityType DEF Ended
<1>4. s.redirects <= Ended + 1
  <2>1. s.redirects <= Ended \/ s.redirects <= Ended + 1
    BY DEF ShellInv, EachReloadEarned
  <2> QED  BY <1>2, <1>3, <2>1
<1>5. Shell!NoReloadLoop
  BY <1>4, ShellCardinality DEF Shell!NoReloadLoop, Ended
<1> QED  BY <1>1, <1>5

-----------------------------------------------------------------------------
(* A step of the shell, in a state of its type.                             *)

\* A state to which a call is added.
LEMMA ShellSend ==
  ASSUME NEW t \in Shell!State, Shell!Free(t) # {},
         NEW op \in {"probe", "login", "register", "logout", "load", "save"}
  PROVE  \E n \in Shell!Call :
           /\ n.id = Shell!NewId(t) /\ n.op = op /\ n.cookie = t.cookie /\ n.token = t.csrf
           /\ n.open = (t.cookie \in t.open)
           /\ \A c \in t.calls : c.id # n.id
           /\ Shell!Send(t, op) = [t EXCEPT !.calls = @ \cup {n}]
<1> DEFINE n == [id |-> Shell!NewId(t), op |-> op, cookie |-> t.cookie,
                 token |-> t.csrf, open |-> t.cookie \in t.open]
<1>1. Shell!Free(t) \in SUBSET Nat /\ Shell!Free(t) \subseteq 1..FewCalls
  BY BoundTypes DEF Shell!Free
<1>2. Shell!NewId(t) \in Shell!Free(t)
  BY <1>1, LeastIsOneOf DEF Shell!NewId
<1>3. Shell!NewId(t) \in 1..FewCalls /\ \A c \in t.calls : c.id # Shell!NewId(t)
  BY <1>1, <1>2 DEF Shell!Free
<1>4. /\ t.cookie \in Shell!Maybe /\ t.csrf \in Shell!Maybe /\ (t.cookie \in t.open) \in BOOLEAN
  BY DEF Shell!State
<1>5. n \in Shell!Call
  BY <1>3, <1>4 DEF Shell!Call
<1>6. Shell!Send(t, op) = [t EXCEPT !.calls = @ \cup {n}]
  BY DEF Shell!Send
<1> QED  BY <1>3, <1>5, <1>6

\* The probe with which a page begins, or which follows a form.
LEMMA ShellBootstrap ==
  ASSUME NEW t \in Shell!State, Shell!Free(t) # {}
  PROVE  \E n \in Shell!Call :
           /\ n.op = "probe" /\ n.cookie = t.cookie /\ n.open = (t.cookie \in t.open)
           /\ \A c \in t.calls : c.id # n.id
           /\ Shell!Bootstrap(t)
                = [t EXCEPT !.booting = TRUE, !.form = 0, !.calls = @ \cup {n}]
<1> DEFINE u == [t EXCEPT !.booting = TRUE, !.form = 0]
<1>1. u \in Shell!State /\ u.calls = t.calls /\ u.cookie = t.cookie /\ u.open = t.open
  <2>1. 0 \in 0..FewCalls
    BY BoundTypes
  <2> QED  BY <2>1 DEF Shell!State
<1>2. Shell!Free(u) # {}
  BY <1>1 DEF Shell!Free
<1>3. Shell!Bootstrap(t) = Shell!Send(u, "probe")
  BY DEF Shell!Bootstrap
<1>4. \A n : [u EXCEPT !.calls = @ \cup {n}]
               = [t EXCEPT !.booting = TRUE, !.form = 0, !.calls = @ \cup {n}]
  OBVIOUS
<1> HIDE DEF u
<1>5. PICK n \in Shell!Call :
           /\ n.op = "probe" /\ n.cookie = u.cookie
           /\ n.open = (u.cookie \in u.open)
           /\ \A c \in u.calls : c.id # n.id
           /\ Shell!Send(u, "probe") = [u EXCEPT !.calls = @ \cup {n}]
  BY <1>1, <1>2, ShellSend
<1> QED  BY <1>1, <1>3, <1>4, <1>5

-----------------------------------------------------------------------------
(* The state of the shell that begins, or begins anew.                      *)

\* The state r of a page that has just been loaded at p, with its probe.
LoadedAs(r, p, cookie, opened, open, redirects) ==
  /\ r \in Shell!State
  /\ r.path = p /\ r.past = {p} /\ r.status = "loading" /\ r.booting /\ ~r.leaving
  /\ r.form = 0 /\ r.cookie = cookie /\ r.opened = opened /\ r.open = open
  /\ r.redirects = redirects /\ ~r.overlapped
  /\ \E n : /\ r.calls = {n} /\ n.op = "probe" /\ n.cookie = cookie
            /\ n.open = (cookie \in open) /\ n.id # 0

\* A page begins with a probe, and with nothing but its cookie.
LEMMA ShellLoads ==
  ASSUME NEW p \in Path, NEW cookie \in Shell!Maybe, NEW opened \in Shell!Maybe,
         NEW open \in SUBSET (1..opened), NEW redirects \in 0..(MaxSessions + 2)
  PROVE  LoadedAs(Shell!Load(p, cookie, opened, open, redirects, FALSE),
                  p, cookie, opened, open, redirects)
<1> DEFINE r == Shell!Load(p, cookie, opened, open, redirects, FALSE)
<1> DEFINE t == [path |-> p, past |-> {p}, status |-> "loading", user |-> 0, booting |-> TRUE,
                 leaving |-> FALSE, csrf |-> 0, redirecting |-> FALSE, tab |-> "login",
                 form |-> 0, cookie |-> cookie, opened |-> opened, open |-> open,
                 redirects |-> redirects, overlapped |-> FALSE, calls |-> {}]
<1>1. 0 \in Shell!Maybe /\ 0 \in 0..FewCalls /\ 1 \in 1..FewCalls /\ 0 \notin 1..FewCalls
  BY BoundTypes DEF Shell!Maybe
<1>2. open \in SUBSET Shell!Session
  <2>1. MaxSessions \in Nat /\ opened \in 0..MaxSessions
    BY BoundTypes DEF Shell!Maybe
  <2>2. \A n \in 1..opened : n \in 1..MaxSessions
    BY <2>1
  <2> QED  BY <2>2 DEF Shell!Session
<1>3. t \in Shell!State
  BY <1>1, <1>2 DEF Shell!State
<1>4. /\ t.path = p /\ t.past = {p} /\ t.status = "loading" /\ ~t.leaving
      /\ t.cookie = cookie /\ t.opened = opened /\ t.open = open
      /\ t.redirects = redirects /\ ~t.overlapped /\ t.calls = {}
  OBVIOUS
<1>5. r = Shell!Bootstrap(t)
  BY DEF Shell!Load
<1> HIDE DEF t
<1> HIDE DEF r
<1>6. 1 \in Shell!Free(t)
  BY <1>1, <1>4 DEF Shell!Free
<1>7. PICK n \in Shell!Call :
           /\ n.op = "probe" /\ n.cookie = t.cookie /\ n.open = (t.cookie \in t.open)
           /\ Shell!Bootstrap(t)
                = [t EXCEPT !.booting = TRUE, !.form = 0, !.calls = @ \cup {n}]
  BY <1>3, <1>6, ShellBootstrap
<1>8. r = [t EXCEPT !.booting = TRUE, !.form = 0, !.calls = {n}]
  <2>1. t.calls \cup {n} = {n}
    BY <1>4
  <2> QED  BY <1>5, <1>7, <2>1
<1>9. r \in Shell!State
  <2>1. {n} \in SUBSET Shell!Call
    OBVIOUS
  <2> QED  BY <1>1, <1>3, <1>8, <2>1 DEF Shell!State
<1>10. /\ r.path = p /\ r.past = {p} /\ r.status = "loading" /\ r.booting /\ ~r.leaving
       /\ r.form = 0 /\ r.cookie = cookie /\ r.opened = opened /\ r.open = open
       /\ r.redirects = redirects /\ ~r.overlapped /\ r.calls = {n}
  BY <1>3, <1>4, <1>8 DEF Shell!State
<1>11. n.id # 0
  BY <1>1 DEF Shell!Call
<1>12. n.op = "probe" /\ n.cookie = cookie /\ n.open = (cookie \in open)
  BY <1>4, <1>7
<1>13. \E m : /\ r.calls = {m} /\ m.op = "probe" /\ m.cookie = cookie
             /\ m.open = (cookie \in open) /\ m.id # 0
  BY <1>10, <1>11, <1>12
<1>14. LoadedAs(r, p, cookie, opened, open, redirects)
  BY <1>9, <1>10, <1>13 DEF LoadedAs
<1> QED
  BY <1>14 DEF r

\* The first page has no session, or one.
LEMMA ShellStarts ==
  ASSUME Shell!Init PROVE ShellInv
<1>1. PICK p \in Path, m \in {0, 1} :
        s = Shell!Load(p, m, m, IF m = 0 THEN {} ELSE {1}, 0, FALSE)
  BY DEF Shell!Init
<1> DEFINE open == IF m = 0 THEN {} ELSE {1}
<1>2. /\ m \in Shell!Maybe /\ open \in SUBSET (1..m) /\ 0 \in 0..(MaxSessions + 2)
  BY BoundTypes DEF Shell!Maybe
<1>3. s = Shell!Load(p, m, m, open, 0, FALSE)
  BY <1>1
<1>4. 0 <= m - Cardinality(open)
  <2>1. Cardinality({}) = 0 /\ Cardinality({1}) = 1
    BY FS_EmptySet, FS_Singleton
  <2>2. CASE m = 0
    BY <2>1, <2>2
  <2>3. CASE m = 1
    BY <2>1, <2>3
  <2> QED  BY <2>2, <2>3
<1> HIDE DEF open
<1>5. LoadedAs(s, p, m, m, open, 0)
  BY <1>2, <1>3, ShellLoads
<1>6. /\ s \in Shell!State
      /\ s.status = "loading" /\ s.booting /\ ~s.leaving
      /\ s.form = 0 /\ s.cookie = m /\ s.opened = m /\ s.open = open
      /\ s.redirects = 0 /\ ~s.overlapped
      /\ \E n : s.calls = {n} /\ n.op = "probe" /\ n.cookie = m /\ n.id # 0
  BY <1>5 DEF LoadedAs
<1>7. EachReloadEarned
  BY <1>4, <1>6 DEF EachReloadEarned, Ended
<1> QED
  BY <1>2, <1>6, <1>7 DEF ShellInv, Shell!TypeOK, ShellCallsNumbered,
       Shell!WaitsForCalls, OneForSession, Shell!Page, ForSession

\* A page that is loaded anew has its probe, and no redirect that is not earned.
LEMMA ShellRedirects ==
  ASSUME ShellInv, Shell!Redirect PROVE ShellInv'
<1>1. /\ s \in Shell!State /\ AuthRoute \in Path /\ s.cookie \in Shell!Maybe
      /\ s.opened \in Shell!Maybe /\ s.open \in SUBSET (1..s.opened)
      /\ s.redirects \in 0..(MaxSessions + 2)
  BY DataTypes DEF ShellInv, Shell!TypeOK, Shell!State
<1>2. s' = Shell!Load(AuthRoute, s.cookie, s.opened, s.open, s.redirects, FALSE)
  BY DEF Shell!Redirect
<1>3. LoadedAs(s', AuthRoute, s.cookie, s.opened, s.open, s.redirects)
  BY <1>1, <1>2, ShellLoads
<1>4. /\ s' \in Shell!State
      /\ s'.path = AuthRoute /\ s'.past = {AuthRoute} /\ s'.status = "loading"
      /\ s'.booting /\ ~s'.leaving
      /\ s'.form = 0 /\ s'.cookie = s.cookie /\ s'.opened = s.opened /\ s'.open = s.open
      /\ s'.redirects = s.redirects /\ ~s'.overlapped
      /\ \E n : /\ s'.calls = {n} /\ n.op = "probe" /\ n.cookie = s.cookie
                /\ n.open = (s.cookie \in s.open) /\ n.id # 0
  BY <1>3 DEF LoadedAs
<1>5. FreshPage' /\ Ended' = Ended
  BY <1>4 DEF FreshPage, Ended
<1>6. EachReloadEarned'
  BY <1>4, <1>5 DEF ShellInv, EachReloadEarned
<1> QED
  BY <1>1, <1>4, <1>6 DEF ShellInv, Shell!TypeOK, ShellCallsNumbered,
       Shell!WaitsForCalls, OneForSession, Shell!Page, ForSession

\* What there is to know of numbers and sets in a state of the shell.
LEMMA ShellFacts ==
  ASSUME ShellInv
  PROVE  /\ s \in Shell!State /\ s.calls \subseteq Shell!Call
         /\ IsFiniteSet(s.open) /\ Ended \in Int /\ s.redirects \in 0..(MaxSessions + 2)
         /\ s.opened \in Nat /\ s.open \subseteq 1..s.opened /\ 0 \notin s.open
         /\ MaxSessions \in Nat /\ \A c \in s.calls : c.id \in 1..FewCalls /\ c.id # 0
<1>1. s \in Shell!State /\ s.open \subseteq 1..s.opened /\ MaxSessions \in Nat
  BY BoundTypes DEF ShellInv, Shell!TypeOK
<1>2. s.opened \in Nat
  BY <1>1 DEF Shell!State, Shell!Maybe
<1>3. IsFiniteSet(s.open)
  <2>1. IsFiniteSet(1..s.opened)
    BY <1>2, FS_Interval
  <2> QED  BY <1>1, <2>1, FS_Subset
<1>4. Ended \in Int
  BY <1>2, <1>3, FS_CardinalityType DEF Ended
<1>5. s.calls \subseteq Shell!Call /\ s.redirects \in 0..(MaxSessions + 2)
  BY <1>1 DEF Shell!State
<1>6. 0 \notin 1..FewCalls /\ 0 \notin 1..s.opened
  BY <1>2, BoundTypes
<1>7. \A c \in s.calls : c.id \in 1..FewCalls
  BY <1>5 DEF Shell!Call
<1> QED  BY <1>1, <1>2, <1>3, <1>4, <1>5, <1>6, <1>7

\* A step that leaves no page because of a 401.
LEMMA ShellEarned ==
  ASSUME ShellInv, s'.redirects = s.redirects, s'.redirecting = s.redirecting,
         Ended' \in Int,
         \/ Ended' >= Ended + 1
         \/ Ended' = Ended /\ (FreshPage \/ OpenPage => FreshPage' \/ OpenPage')
  PROVE  EachReloadEarned'
<1>1. /\ Ended \in Int /\ s.redirects \in Int
  <2>1. \A n \in 0..(MaxSessions + 2) : n \in Int
    BY BoundTypes
  <2> QED  BY <2>1, ShellFacts
<1>2. s.redirects <= Ended \/ s.redirects <= Ended + 1
  BY DEF ShellInv, EachReloadEarned
<1>3. CASE Ended' >= Ended + 1
  <2>1. s'.redirects <= Ended'
    BY <1>1, <1>2, <1>3
  <2> QED  BY <2>1 DEF EachReloadEarned
<1>4. CASE Ended' = Ended /\ (FreshPage \/ OpenPage => FreshPage' \/ OpenPage')
  BY <1>4 DEF ShellInv, EachReloadEarned
<1> QED  BY <1>3, <1>4

\* Other forms and pages come on the screen.
LEMMA ShellScreen ==
  ASSUME ShellInv,
         \/ \E p \in Route : Shell!Navigate(p)
         \/ \E p \in Path : Shell!PopState(p)
         \/ Shell!SwitchTab
  PROVE  ShellInv'
<1> USE DEF Shell!Page, Shell!AuthScreen
<1>1. /\ s \in Shell!State /\ Ended \in Int /\ 0 \in 0..FewCalls /\ Route \subseteq Path
      /\ \A c \in s.calls : c.id # 0
  BY ShellFacts, DataTypes, BoundTypes
<1>2. s' \in Shell!State
  <2>1. CASE \E p \in Route : Shell!Navigate(p)
    <3>1. PICK p \in Path : s' = [s EXCEPT !.path = p, !.past = @ \cup {p}]
      BY <1>1, <2>1 DEF Shell!Navigate
    <3>2. s.past \cup {p} \in SUBSET Path
      BY <1>1 DEF Shell!State
    <3> QED  BY <1>1, <3>1, <3>2 DEF Shell!State
  <2>2. CASE \E p \in Path : Shell!PopState(p)
    BY <1>1, <2>2 DEF Shell!PopState, Shell!State
  <2>3. CASE Shell!SwitchTab
    BY <1>1, <2>3 DEF Shell!SwitchTab, Shell!State
  <2> QED  BY <2>1, <2>2, <2>3
<1>3. /\ s'.status = s.status /\ s'.user = s.user /\ s'.booting = s.booting
      /\ s'.leaving = s.leaving /\ s'.csrf = s.csrf /\ s'.redirecting = s.redirecting
      /\ s'.cookie = s.cookie /\ s'.opened = s.opened /\ s'.open = s.open
      /\ s'.redirects = s.redirects /\ s'.overlapped = s.overlapped /\ s'.calls = s.calls
      /\ s'.form \in {s.form, 0}
  <2>1. CASE \E p \in Route : Shell!Navigate(p)
    BY <1>1, <2>1 DEF Shell!Navigate, Shell!State
  <2>2. CASE \E p \in Path : Shell!PopState(p)
    BY <1>1, <2>2 DEF Shell!PopState, Shell!State
  <2>3. CASE Shell!SwitchTab
    BY <1>1, <2>3 DEF Shell!SwitchTab, Shell!State
  <2> QED  BY <2>1, <2>2, <2>3
<1>4. ~FreshPage
  BY DEF Shell!Navigate, Shell!PopState, Shell!SwitchTab, FreshPage
<1>5. Ended' = Ended /\ (OpenPage => OpenPage')
  BY <1>3 DEF Ended, OpenPage
<1>6. EachReloadEarned'
  BY <1>1, <1>3, <1>4, <1>5, ShellEarned
<1>7. ShellCallsNumbered' /\ Shell!WaitsForCalls'
  BY <1>1, <1>3 DEF ShellInv, ShellCallsNumbered, Shell!WaitsForCalls
<1>8. ~s'.overlapped => OneForSession'
  BY <1>3 DEF ShellInv, OneForSession, ForSession
<1> QED
  BY <1>2, <1>3, <1>6, <1>7, <1>8 DEF ShellInv, Shell!TypeOK

\* A session ends.
LEMMA ShellEndsSession ==
  ASSUME ShellInv, NEW n \in Shell!Session, Shell!EndSession(n)
  PROVE  ShellInv'
<1> USE DEF Shell!Page, Shell!AuthScreen
<1>1. /\ s \in Shell!State /\ Ended \in Int /\ IsFiniteSet(s.open) /\ s.opened \in Nat
  BY ShellFacts
<1>2. n \in s.open /\ s' = [s EXCEPT !.open = @ \ {n}]
  BY DEF Shell!EndSession
<1>3. s' \in Shell!State
  BY <1>1, <1>2 DEF Shell!State
<1>4. /\ s'.status = s.status /\ s'.user = s.user /\ s'.booting = s.booting
      /\ s'.leaving = s.leaving /\ s'.csrf = s.csrf /\ s'.redirecting = s.redirecting
      /\ s'.cookie = s.cookie /\ s'.opened = s.opened /\ s'.open = s.open \ {n}
      /\ s'.redirects = s.redirects /\ s'.overlapped = s.overlapped /\ s'.calls = s.calls
      /\ s'.form = s.form
  BY <1>1, <1>2 DEF Shell!State
<1>5. Ended' = Ended + 1
  <2>1. Cardinality(s.open \ {n}) = Cardinality(s.open) - 1 /\ Cardinality(s.open) \in Nat
    BY <1>1, <1>2, FS_RemoveElement, FS_CardinalityType
  <2> QED  BY <1>1, <1>4, <2>1 DEF Ended
<1>6. EachReloadEarned'
  BY <1>1, <1>4, <1>5, ShellEarned
<1>7. ShellCallsNumbered' /\ Shell!WaitsForCalls'
  BY <1>4 DEF ShellInv, ShellCallsNumbered, Shell!WaitsForCalls
<1>8. ~s'.overlapped => OneForSession'
  BY <1>4 DEF ShellInv, OneForSession, ForSession
<1> QED
  BY <1>3, <1>4, <1>6, <1>7, <1>8 DEF ShellInv, Shell!TypeOK

\* A click that sends a call.
LEMMA ShellCalls ==
  ASSUME ShellInv,
         \/ Shell!SubmitForm
         \/ \E op \in {"load", "save"} : Shell!PageCalls(op)
         \/ Shell!LogoutButton
  PROVE  ShellInv'
<1> USE DEF Shell!Page, Shell!AuthScreen
<1>1. /\ s \in Shell!State /\ Ended \in Int /\ s.tab \in {"login", "register"}
      /\ \A c \in s.calls : c.id # 0
  BY ShellFacts DEF Shell!State
<1>2. PICK op \in {"login", "register", "logout", "load", "save"} :
        \/ op = s.tab /\ Shell!SubmitForm
        \/ op \in {"load", "save"} /\ Shell!PageCalls(op)
        \/ op = "logout" /\ Shell!LogoutButton
  BY <1>1
<1>3. Shell!Free(s) # {}
  BY <1>2 DEF Shell!SubmitForm, Shell!PageCalls, Shell!LogoutButton
<1>4. PICK n \in Shell!Call :
        /\ n.id = Shell!NewId(s) /\ n.op = op /\ n.cookie = s.cookie /\ n.token = s.csrf
        /\ n.open = (s.cookie \in s.open)
        /\ \A c \in s.calls : c.id # n.id
        /\ Shell!Send(s, op) = [s EXCEPT !.calls = @ \cup {n}]
  BY <1>1, <1>3, ShellSend
<1> DEFINE t == [s EXCEPT !.calls = @ \cup {n}]
<1>5. t \in Shell!State /\ t = Shell!Send(s, op)
  BY <1>1, <1>4 DEF Shell!State
<1>6. /\ t.status = s.status /\ t.user = s.user /\ t.booting = s.booting
      /\ t.leaving = s.leaving /\ t.csrf = s.csrf /\ t.redirecting = s.redirecting
      /\ t.cookie = s.cookie /\ t.opened = s.opened /\ t.open = s.open
      /\ t.redirects = s.redirects /\ t.overlapped = s.overlapped /\ t.form = s.form
      /\ t.calls = s.calls \cup {n}
  BY <1>1 DEF Shell!State
<1> DEFINE running == \E c \in s.calls : c.op \in {"probe", "login", "register", "logout"}
<1>7. \/ /\ op = s.tab /\ Shell!AuthScreen /\ s.form = 0
         /\ s' = [t EXCEPT !.form = n.id, !.overlapped = @ \/ running]
      \/ op \in {"load", "save"} /\ Shell!Page /\ s' = t
      \/ op = "logout" /\ Shell!Page /\ ~s.leaving /\ s' = [t EXCEPT !.leaving = TRUE]
  <2>1. CASE op = s.tab /\ Shell!SubmitForm
    BY <1>4, <1>5, <2>1 DEF Shell!SubmitForm
  <2>2. CASE op \in {"load", "save"} /\ Shell!PageCalls(op)
    BY <1>4, <1>5, <2>2 DEF Shell!PageCalls
  <2>3. CASE op = "logout" /\ Shell!LogoutButton
    BY <1>4, <1>5, <2>3 DEF Shell!LogoutButton
  <2> QED  BY <1>2, <2>1, <2>2, <2>3
<1>8. n.id \in 0..FewCalls /\ n.id # 0 /\ running \in BOOLEAN
  <2>1. n.id \in 1..FewCalls
    BY DEF Shell!Call
  <2> QED  BY <2>1, BoundTypes
<1> HIDE DEF t
<1>9. s' \in Shell!State
  <2>1. CASE s' = [t EXCEPT !.form = n.id, !.overlapped = @ \/ running]
    <3>1. (t.overlapped \/ running) \in BOOLEAN
      OBVIOUS
    <3> HIDE DEF running
    <3> QED  BY <1>5, <1>8, <2>1, <3>1 DEF Shell!State
  <2>2. CASE s' = [t EXCEPT !.leaving = TRUE]
    BY <1>5, <2>2 DEF Shell!State
  <2> QED  BY <1>5, <1>7, <2>1, <2>2
<1>10. /\ s'.status = s.status /\ s'.user = s.user /\ s'.booting = s.booting
       /\ s'.csrf = s.csrf /\ s'.redirecting = s.redirecting
       /\ s'.cookie = s.cookie /\ s'.opened = s.opened /\ s'.open = s.open
       /\ s'.redirects = s.redirects /\ s'.calls = s.calls \cup {n}
  <2> HIDE DEF running
  <2>1. CASE s' = [t EXCEPT !.form = n.id, !.overlapped = @ \/ running]
    BY <1>5, <1>6, <2>1 DEF Shell!State
  <2>2. CASE s' = t
    BY <1>6, <2>2
  <2>3. CASE s' = [t EXCEPT !.leaving = TRUE]
    BY <1>5, <1>6, <2>3 DEF Shell!State
  <2> QED  BY <1>7, <2>1, <2>2, <2>3
<1>11. /\ op \in {"login", "register"} => s'.form = n.id /\ s'.leaving = s.leaving
       /\ op \in {"load", "save"} => s'.form = s.form /\ s'.leaving = s.leaving
       /\ op = "logout" => s'.form = s.form /\ s'.leaving
       /\ op \notin {"login", "register"} => s'.overlapped = s.overlapped
       /\ op \in {"login", "register"} => (s'.overlapped <=> s.overlapped \/ running)
  <2>1. CASE op = s.tab /\ s' = [t EXCEPT !.form = n.id, !.overlapped = @ \/ running]
    <3>1. s'.form = t.form \/ s'.form = n.id
      BY <1>5, <2>1 DEF Shell!State
    <3>2. s'.form = n.id /\ s'.leaving = t.leaving /\ s'.overlapped = (t.overlapped \/ running)
      <4> HIDE DEF running
      <4> QED  BY <1>5, <2>1 DEF Shell!State
    <3> HIDE DEF running
    <3> QED  BY <1>1, <1>6, <2>1, <3>2
  <2>2. CASE op \in {"load", "save"} /\ s' = t
    BY <1>6, <2>2
  <2>3. CASE op = "logout" /\ s' = [t EXCEPT !.leaving = TRUE]
    BY <1>5, <1>6, <2>3 DEF Shell!State
  <2> QED  BY <1>7, <2>1, <2>2, <2>3
<1>12. ~FreshPage
  BY <1>7 DEF FreshPage
<1>13. Ended' = Ended /\ (OpenPage => OpenPage')
  <2>1. Ended' = Ended
    BY <1>10 DEF Ended
  <2>2. OpenPage => OpenPage'
    <3>1. op \in {"load", "save", "logout"} => s.status = "authenticated"
      BY <1>1, <1>7
    <3> QED  BY <1>4, <1>10, <3>1 DEF OpenPage
  <2> QED  BY <2>1, <2>2
<1>14. EachReloadEarned'
  BY <1>1, <1>10, <1>12, <1>13, ShellEarned
<1>15. ShellCallsNumbered' /\ Shell!WaitsForCalls'
  <2> HIDE DEF running
  <2>1. ShellCallsNumbered'
    <3>1. s.form # n.id
      BY <1>4, <1>8 DEF ShellInv, Shell!WaitsForCalls
    <3> QED  BY <1>4, <1>10, <1>11, <3>1 DEF ShellInv, ShellCallsNumbered
  <2>2. Shell!WaitsForCalls'
    BY <1>4, <1>8, <1>10, <1>11 DEF ShellInv, Shell!WaitsForCalls
  <2> QED  BY <2>1, <2>2
<1>16. ASSUME ~s'.overlapped
       PROVE  OneForSession'
  <2>1. ~s.overlapped /\ OneForSession
    BY <1>11, <1>16 DEF ShellInv
  <2>2. op \in {"login", "register"} => \A c \in s.calls : ~ForSession(c)
    BY <1>11, <1>16 DEF ForSession
  <2>3. op = "logout" => /\ Shell!Page /\ ~s.leaving
                         /\ \A c \in s.calls : ~ForSession(c)
    BY <1>1, <1>7, <2>1 DEF OneForSession, ForSession
  <2>4. op \in {"login", "register"} => Shell!AuthScreen
    BY <1>1, <1>7
  <2> HIDE DEF running
  <2>5. \A c, d \in s'.calls : ForSession(c) /\ ForSession(d) => c = d
    BY <1>4, <1>10, <2>1, <2>2, <2>3 DEF OneForSession, ForSession
  <2>6. \A c \in s'.calls :
          /\ c.op = "probe" => s'.booting /\ c.cookie = s'.cookie
          /\ c.op \in {"login", "register"} => Shell!AuthScreen'
          /\ c.op = "logout" => Shell!Page' /\ s'.leaving
    BY <1>4, <1>10, <1>11, <2>1, <2>3, <2>4 DEF OneForSession
  <2> QED  BY <1>10, <2>1, <2>5, <2>6 DEF OneForSession
<1> QED
  BY <1>9, <1>10, <1>14, <1>15, <1>16 DEF ShellInv, Shell!TypeOK

-----------------------------------------------------------------------------
(* The answers of the shell.                                                *)

\* The state t in which c has been answered, perhaps with a 401.
AnswerTo(c, t) ==
  /\ t \in Shell!State
  /\ t.path = s.path /\ t.past = s.past /\ t.status = s.status /\ t.user = s.user
  /\ t.booting = s.booting /\ t.leaving = s.leaving /\ t.form = s.form
  /\ t.cookie = s.cookie /\ t.opened = s.opened /\ t.open = s.open
  /\ t.overlapped = s.overlapped /\ t.calls = s.calls \ {c}
  /\ \/ t.csrf = s.csrf /\ t.redirecting = s.redirecting /\ t.redirects = s.redirects
     \/ /\ Shell!Unauthorized(c) /\ t.csrf = 0
        /\ \/ /\ t.redirecting = s.redirecting /\ t.redirects = s.redirects
              /\ s.redirecting \/ (c.op = "probe" /\ s.path = AuthRoute)
           \/ /\ t.redirecting /\ t.redirects \in {s.redirects, s.redirects + 1}
              /\ ~s.redirecting /\ ~(c.op = "probe" /\ s.path = AuthRoute)

\* An answer is one that leaves the page, or is not.
LEMMA ShellAnswers ==
  ASSUME ShellInv, NEW c \in s.calls
  PROVE  /\ AnswerTo(c, Shell!Without(c))
         /\ Shell!Unauthorized(c) => AnswerTo(c, Shell!HandleUnauthorized(Shell!Without(c), c.op))
<1> DEFINE t == Shell!Without(c)
           u == [t EXCEPT !.csrf = 0]
<1>1. s \in Shell!State /\ s.redirects \in 0..(MaxSessions + 2) /\ 0 \in Shell!Maybe
  BY ShellFacts, BoundTypes DEF Shell!Maybe
<1>2. t \in Shell!State
  BY <1>1 DEF Shell!Without, Shell!State
<1>3. /\ t.path = s.path /\ t.past = s.past /\ t.status = s.status /\ t.user = s.user
      /\ t.booting = s.booting /\ t.leaving = s.leaving /\ t.form = s.form
      /\ t.cookie = s.cookie /\ t.opened = s.opened /\ t.open = s.open
      /\ t.overlapped = s.overlapped /\ t.calls = s.calls \ {c}
      /\ t.csrf = s.csrf /\ t.redirecting = s.redirecting /\ t.redirects = s.redirects
  BY <1>1 DEF Shell!Without, Shell!State
<1> HIDE DEF t
<1>4. AnswerTo(c, t)
  BY <1>2, <1>3 DEF AnswerTo
<1>5. /\ u \in Shell!State
      /\ u.path = s.path /\ u.past = s.past /\ u.status = s.status /\ u.user = s.user
      /\ u.booting = s.booting /\ u.leaving = s.leaving /\ u.form = s.form
      /\ u.cookie = s.cookie /\ u.opened = s.opened /\ u.open = s.open
      /\ u.overlapped = s.overlapped /\ u.calls = s.calls \ {c}
      /\ u.csrf = 0 /\ u.redirecting = s.redirecting /\ u.redirects = s.redirects
  BY <1>1, <1>2, <1>3 DEF Shell!State
<1>6. Shell!HandleUnauthorized(t, c.op)
        = IF (c.op = "probe" /\ t.path = AuthRoute) \/ t.redirecting THEN u
          ELSE [u EXCEPT !.redirecting = TRUE,
                         !.redirects = IF @ < MaxSessions + 2 THEN @ + 1 ELSE @]
  BY DEF Shell!HandleUnauthorized
<1> HIDE DEF u
<1>7. ASSUME Shell!Unauthorized(c)
      PROVE  AnswerTo(c, Shell!HandleUnauthorized(t, c.op))
  <2>1. CASE (c.op = "probe" /\ t.path = AuthRoute) \/ t.redirecting
    <3>1. Shell!HandleUnauthorized(t, c.op) = u
      BY <1>6, <2>1
    <3> QED  BY <1>3, <1>5, <1>7, <2>1, <3>1 DEF AnswerTo
  <2>2. CASE ~((c.op = "probe" /\ t.path = AuthRoute) \/ t.redirecting)
    <3> DEFINE more == IF u.redirects < MaxSessions + 2 THEN u.redirects + 1 ELSE u.redirects
               v == [u EXCEPT !.redirecting = TRUE, !.redirects = more]
    <3>1. Shell!HandleUnauthorized(t, c.op) = v
      BY <1>6, <2>2
    <3>2. more \in 0..(MaxSessions + 2) /\ more \in {s.redirects, s.redirects + 1}
      <4>1. MaxSessions \in Nat
        BY BoundTypes
      <4> QED  BY <1>1, <1>5, <4>1
    <3> HIDE DEF more
    <3>3. /\ v \in Shell!State
          /\ v.path = s.path /\ v.past = s.past /\ v.status = s.status /\ v.user = s.user
          /\ v.booting = s.booting /\ v.leaving = s.leaving /\ v.form = s.form
          /\ v.cookie = s.cookie /\ v.opened = s.opened /\ v.open = s.open
          /\ v.overlapped = s.overlapped /\ v.calls = s.calls \ {c}
          /\ v.csrf = 0 /\ v.redirecting /\ v.redirects = more
      BY <1>5, <3>2 DEF Shell!State
    <3> HIDE DEF v
    <3> QED  BY <1>3, <1>7, <2>2, <3>1, <3>2, <3>3 DEF AnswerTo
  <2> QED  BY <2>1, <2>2
<1> QED
  BY <1>4, <1>7 DEF t

\* A 401 leaves the page only if a session has ended that no page was left for.
LEMMA ShellReloads ==
  ASSUME ShellInv, NEW c \in s.calls, Shell!Unauthorized(c),
         c.op \in {"probe", "logout", "load", "save"}, ~(c.op = "probe" /\ s.path = AuthRoute),
         ~s.redirecting, s'.redirecting, s'.redirects \in {s.redirects, s.redirects + 1},
         Ended' = Ended
  PROVE  EachReloadEarned'
<1>1. Ended \in Int /\ s.redirects \in Int
  <2>1. \A n \in 0..(MaxSessions + 2) : n \in Int
    BY BoundTypes
  <2> QED  BY <2>1, ShellFacts
<1>2. ~FreshPage
  BY DEF FreshPage
<1>3. ~OpenPage
  BY DEF OpenPage, Shell!Unauthorized
<1>4. s.redirects <= Ended
  BY <1>2, <1>3 DEF ShellInv, EachReloadEarned
<1>5. s'.redirects <= Ended' + 1
  BY <1>1, <1>4
<1> QED  BY <1>5 DEF EachReloadEarned

\* Whatever the answer, a page that was to be left for a session that has ended
\* already can be left once more.
LEMMA ShellAnsweredEarned ==
  ASSUME ShellInv, NEW c \in s.calls, NEW t, AnswerTo(c, t),
         c.op \in {"probe", "logout", "load", "save"},
         s'.redirecting = t.redirecting, s'.redirects = t.redirects, s'.open = s.open,
         s'.opened = s.opened, FreshPage \/ OpenPage => FreshPage' \/ OpenPage'
  PROVE  EachReloadEarned'
<1>1. Ended' = Ended /\ Ended \in Int
  BY ShellFacts DEF Ended
<1>2. CASE s'.redirecting = s.redirecting /\ s'.redirects = s.redirects
  BY <1>1, <1>2, ShellEarned
<1>3. CASE ~(s'.redirecting = s.redirecting /\ s'.redirects = s.redirects)
  <2>1. /\ Shell!Unauthorized(c) /\ s'.redirecting /\ ~s.redirecting
        /\ s'.redirects \in {s.redirects, s.redirects + 1}
        /\ ~(c.op = "probe" /\ s.path = AuthRoute)
    BY <1>3 DEF AnswerTo
  <2> QED  BY <1>1, <2>1, ShellReloads
<1> QED  BY <1>2, <1>3

\* A call that has been answered is waited for no more.
LEMMA ShellForgets ==
  ASSUME ShellInv, NEW c \in s.calls, s'.calls = s.calls \ {c},
         \/ s'.form = 0
         \/ s'.form = s.form /\ (s.form # c.id \/ c.op \notin {"login", "register"}),
         ~s'.booting \/ (s'.booting = s.booting /\ c.op # "probe"),
         ~s'.leaving \/ (s'.leaving = s.leaving /\ c.op # "logout")
  PROVE  ShellCallsNumbered' /\ Shell!WaitsForCalls'
<1>1. \A d \in s.calls : d.id # 0
  BY ShellFacts
<1>2. ShellCallsNumbered'
  BY <1>1 DEF ShellInv, ShellCallsNumbered
<1>3. s'.form # 0 => \E d \in s'.calls : d.id = s'.form
  BY DEF ShellInv, ShellCallsNumbered, Shell!WaitsForCalls
<1> QED  BY <1>2, <1>3 DEF ShellInv, Shell!WaitsForCalls

\* The probe has found a session.
LEMMA ShellProbeOk ==
  ASSUME ShellInv, NEW c \in s.calls, Shell!ProbeOk(c)
  PROVE  ShellInv'
<1> DEFINE t == Shell!Without(c)
<1>1. /\ c.op = "probe" /\ c.open /\ c \in Shell!Call
      /\ s' = [t EXCEPT !.csrf = c.cookie, !.user = c.cookie,
                        !.status = "authenticated", !.booting = FALSE]
  BY ShellFacts DEF Shell!ProbeOk, Shell!Accepted
<1>2. AnswerTo(c, t)
  BY ShellAnswers
<1> HIDE DEF t
<1>3. s' \in Shell!State
  <2>1. c.cookie \in Shell!Maybe
    BY <1>1 DEF Shell!Call
  <2> QED  BY <1>1, <1>2, <2>1 DEF AnswerTo, Shell!State
<1>4. /\ s'.csrf = c.cookie /\ s'.user = c.cookie /\ s'.status = "authenticated" /\ ~s'.booting
      /\ s'.leaving = s.leaving /\ s'.form = s.form
      /\ s'.cookie = s.cookie /\ s'.opened = s.opened /\ s'.open = s.open
      /\ s'.overlapped = s.overlapped /\ s'.calls = s.calls \ {c}
      /\ s'.redirecting = t.redirecting /\ s'.redirects = t.redirects
  BY <1>1, <1>2 DEF AnswerTo, Shell!State
<1>5. FreshPage \/ OpenPage => OpenPage'
  <2>1. CASE FreshPage
    <3>1. s'.calls = {} /\ s.cookie \in s.open /\ c.cookie \in s.open
      BY <1>1, <1>4, <2>1 DEF FreshPage
    <3>2. c.cookie # 0
      BY <3>1, ShellFacts
    <3> QED  BY <1>4, <3>1, <3>2 DEF OpenPage
  <2>2. CASE OpenPage
    <3>1. s.cookie \in s.open /\ c.cookie \in s.open
      BY <1>1, <2>2 DEF OpenPage
    <3>2. c.cookie # 0
      BY <3>1, ShellFacts
    <3> QED  BY <1>4, <2>2, <3>1, <3>2 DEF OpenPage
  <2> QED  BY <2>1, <2>2
<1>6. EachReloadEarned'
  BY <1>1, <1>2, <1>4, <1>5, ShellAnsweredEarned
<1>7. ShellCallsNumbered' /\ Shell!WaitsForCalls'
  BY <1>1, <1>4, ShellForgets
<1>8. ~s'.overlapped => OneForSession'
  BY <1>1, <1>4 DEF ShellInv, OneForSession, ForSession
<1> QED
  BY <1>3, <1>4, <1>6, <1>7, <1>8 DEF ShellInv, Shell!TypeOK

\* The probe has found none.
LEMMA ShellProbeRefused ==
  ASSUME ShellInv, NEW c \in s.calls, Shell!ProbeRefused(c)
  PROVE  ShellInv'
<1>1. c.op = "probe" /\ 0 \in Shell!Maybe
  BY BoundTypes DEF Shell!ProbeRefused, Shell!Maybe
<1>2. PICK t : AnswerTo(c, t) /\ s' = Shell!NoSession(t)
  BY <1>1, ShellAnswers DEF Shell!ProbeRefused
<1>3. s' \in Shell!State
  BY <1>1, <1>2 DEF AnswerTo, Shell!State, Shell!NoSession, Shell!Anonymous
<1>4. /\ s'.csrf = 0 /\ s'.user = 0 /\ s'.status = "anonymous" /\ ~s'.booting
      /\ s'.leaving = s.leaving /\ s'.form = s.form
      /\ s'.cookie = s.cookie /\ s'.opened = s.opened /\ s'.open = s.open
      /\ s'.overlapped = s.overlapped /\ s'.calls = s.calls \ {c}
      /\ s'.redirecting = t.redirecting /\ s'.redirects = t.redirects
  BY <1>2 DEF AnswerTo, Shell!State, Shell!NoSession, Shell!Anonymous
<1>5. FreshPage \/ OpenPage => OpenPage'
  <2>1. CASE FreshPage
    BY <1>4, <2>1 DEF FreshPage, OpenPage
  <2>2. CASE OpenPage
    BY <1>4, <2>2 DEF OpenPage
  <2> QED  BY <2>1, <2>2
<1>6. EachReloadEarned'
  BY <1>1, <1>2, <1>4, <1>5, ShellAnsweredEarned
<1>7. ShellCallsNumbered' /\ Shell!WaitsForCalls'
  BY <1>1, <1>4, ShellForgets
<1>8. ~s'.overlapped => OneForSession'
  BY <1>1, <1>4 DEF ShellInv, OneForSession, ForSession, Shell!Page
<1> QED
  BY <1>3, <1>4, <1>6, <1>7, <1>8 DEF ShellInv, Shell!TypeOK

\* A login or a registration has failed.
LEMMA ShellNotSignedIn ==
  ASSUME ShellInv, NEW c \in s.calls, Shell!NotSignedIn(c)
  PROVE  ShellInv'
<1> DEFINE t == Shell!Without(c)
<1>1. /\ c.op \in {"login", "register"} /\ 0 \in 0..FewCalls
      /\ s' = [t EXCEPT !.form = IF @ = c.id THEN 0 ELSE @]
  BY BoundTypes DEF Shell!NotSignedIn
<1>2. AnswerTo(c, t) /\ t.csrf = s.csrf /\ t.redirecting = s.redirecting
      /\ t.redirects = s.redirects
  BY ShellAnswers, ShellFacts DEF Shell!Without, Shell!State
<1> HIDE DEF t
<1>3. s' \in Shell!State
  BY <1>1, <1>2 DEF AnswerTo, Shell!State
<1>4. /\ s'.csrf = s.csrf /\ s'.user = s.user /\ s'.status = s.status
      /\ s'.booting = s.booting /\ s'.leaving = s.leaving
      /\ s'.form = (IF s.form = c.id THEN 0 ELSE s.form)
      /\ s'.cookie = s.cookie /\ s'.opened = s.opened /\ s'.open = s.open
      /\ s'.overlapped = s.overlapped /\ s'.calls = s.calls \ {c}
      /\ s'.redirecting = s.redirecting /\ s'.redirects = s.redirects
  BY <1>1, <1>2 DEF AnswerTo, Shell!State
<1>5. Ended' = Ended /\ Ended \in Int /\ ~FreshPage /\ (OpenPage => OpenPage')
  BY <1>1, <1>4, ShellFacts DEF Ended, FreshPage, OpenPage
<1>6. EachReloadEarned'
  BY <1>4, <1>5, ShellEarned
<1>7. ShellCallsNumbered' /\ Shell!WaitsForCalls'
  BY <1>1, <1>4, ShellForgets
<1>8. ~s'.overlapped => OneForSession'
  BY <1>1, <1>4 DEF ShellInv, OneForSession, ForSession, Shell!Page, Shell!AuthScreen
<1> QED
  BY <1>3, <1>4, <1>6, <1>7, <1>8 DEF ShellInv, Shell!TypeOK

\* A session has been ended by its user.
LEMMA ShellLoggedOut ==
  ASSUME ShellInv, NEW c \in s.calls, Shell!LoggedOut(c)
  PROVE  ShellInv'
<1> DEFINE t == Shell!Without(c)
<1>1. /\ c.op = "logout" /\ 0 \in Shell!Maybe
      /\ s' = Shell!Left([t EXCEPT !.open = @ \ {c.cookie}, !.cookie = 0])
  BY BoundTypes DEF Shell!LoggedOut, Shell!Maybe
<1>2. AnswerTo(c, t) /\ t.csrf = s.csrf /\ t.redirecting = s.redirecting
      /\ t.redirects = s.redirects
  BY ShellAnswers, ShellFacts DEF Shell!Without, Shell!State
<1> HIDE DEF t
<1> DEFINE u == [t EXCEPT !.open = @ \ {c.cookie}, !.cookie = 0]
<1>3. /\ u \in Shell!State
      /\ u.booting = s.booting /\ u.form = s.form
      /\ u.cookie = 0 /\ u.opened = s.opened /\ u.open = s.open \ {c.cookie}
      /\ u.overlapped = s.overlapped /\ u.calls = s.calls \ {c}
      /\ u.redirecting = s.redirecting /\ u.redirects = s.redirects
  BY <1>1, <1>2 DEF AnswerTo, Shell!State
<1> HIDE DEF u
<1>4. s' = Shell!Left(u)
  BY <1>1 DEF u
<1>5. s' \in Shell!State
  <2>1. Shell!Anonymous(u) \in Shell!State
    BY <1>1, <1>3 DEF Shell!State, Shell!Anonymous
  <2> QED  BY <1>4, <2>1 DEF Shell!State, Shell!Left
<1>6. /\ s'.status = "anonymous" /\ ~s'.leaving
      /\ s'.booting = s.booting /\ s'.form = s.form
      /\ s'.opened = s.opened /\ s'.open = s.open \ {c.cookie}
      /\ s'.overlapped = s.overlapped /\ s'.calls = s.calls \ {c}
      /\ s'.redirecting = s.redirecting /\ s'.redirects = s.redirects
  BY <1>3, <1>4 DEF Shell!State, Shell!Left, Shell!Anonymous
<1>7. EachReloadEarned'
  <2>1. /\ IsFiniteSet(s.open) /\ s.opened \in Nat /\ Ended \in Int
    BY ShellFacts
  <2>2. Cardinality(s.open) \in Nat
    BY <2>1, FS_CardinalityType
  <2>3. CASE c.cookie \in s.open
    <3>1. Cardinality(s.open \ {c.cookie}) = Cardinality(s.open) - 1
      BY <2>1, <2>3, FS_RemoveElement
    <3>2. Ended' = Ended + 1
      BY <1>6, <2>1, <2>2, <3>1 DEF Ended
    <3> QED  BY <1>6, <2>1, <3>2, ShellEarned
  <2>4. CASE c.cookie \notin s.open
    <3>1. s.open \ {c.cookie} = s.open
      BY <2>4
    <3>2. Ended' = Ended
      BY <1>6, <3>1 DEF Ended
    <3>3. ~FreshPage /\ ~OpenPage
      BY <1>1, <2>4 DEF FreshPage, OpenPage
    <3> QED  BY <1>6, <2>1, <3>2, <3>3, ShellEarned
  <2> QED  BY <2>3, <2>4
<1>8. ShellCallsNumbered' /\ Shell!WaitsForCalls'
  BY <1>1, <1>6, ShellForgets
<1>9. ~s'.overlapped => OneForSession'
  BY <1>1, <1>6 DEF ShellInv, OneForSession, ForSession, Shell!Page
<1> QED
  BY <1>5, <1>6, <1>7, <1>8, <1>9 DEF ShellInv, Shell!TypeOK

\* A logout has failed, or its answer is lost.
LEMMA ShellNotLoggedOut ==
  ASSUME ShellInv, NEW c \in s.calls, Shell!NotLoggedOut(c)
  PROVE  ShellInv'
<1>1. c.op = "logout" /\ 0 \in Shell!Maybe
  BY BoundTypes DEF Shell!NotLoggedOut, Shell!Maybe
<1>2. PICK t : AnswerTo(c, t) /\ s' = Shell!Left(t)
  BY <1>1, ShellAnswers DEF Shell!NotLoggedOut
<1>3. s' \in Shell!State
  BY <1>1, <1>2 DEF AnswerTo, Shell!State, Shell!Left, Shell!Anonymous
<1>4. /\ s'.status = "anonymous" /\ s'.booting = s.booting
      /\ ~s'.leaving /\ s'.form = s.form
      /\ s'.cookie = s.cookie /\ s'.opened = s.opened /\ s'.open = s.open
      /\ s'.overlapped = s.overlapped /\ s'.calls = s.calls \ {c}
      /\ s'.redirecting = t.redirecting /\ s'.redirects = t.redirects
  BY <1>2 DEF AnswerTo, Shell!State, Shell!Left, Shell!Anonymous
<1>5. ~FreshPage /\ (OpenPage => OpenPage')
  BY <1>1, <1>4 DEF FreshPage, OpenPage
<1>6. EachReloadEarned'
  BY <1>1, <1>2, <1>4, <1>5, ShellAnsweredEarned
<1>7. ShellCallsNumbered' /\ Shell!WaitsForCalls'
  BY <1>1, <1>4, ShellForgets
<1>8. ~s'.overlapped => OneForSession'
  BY <1>1, <1>4 DEF ShellInv, OneForSession, ForSession, Shell!Page
<1> QED
  BY <1>3, <1>4, <1>6, <1>7, <1>8 DEF ShellInv, Shell!TypeOK

\* A page has an answer.
LEMMA ShellPageAnswered ==
  ASSUME ShellInv, NEW c \in s.calls, Shell!PageAnswered(c)
  PROVE  ShellInv'
<1>1. c.op \in {"load", "save"}
  BY DEF Shell!PageAnswered
<1>2. AnswerTo(c, s')
  BY <1>1, ShellAnswers DEF Shell!PageAnswered
<1>3. ~FreshPage /\ (OpenPage => OpenPage')
  <2>1. ~FreshPage
    BY <1>1 DEF FreshPage
  <2>2. OpenPage => s'.csrf = s.csrf
    BY <1>1, <1>2 DEF OpenPage, AnswerTo, Shell!Unauthorized
  <2>3. OpenPage => OpenPage'
    BY <1>2, <2>2 DEF OpenPage, AnswerTo
  <2> QED  BY <2>1, <2>3
<1>4. s'.open = s.open /\ s'.opened = s.opened
  BY <1>2 DEF AnswerTo
<1>5. EachReloadEarned'
  BY <1>1, <1>2, <1>3, <1>4, ShellAnsweredEarned
<1>6. ShellCallsNumbered' /\ Shell!WaitsForCalls'
  BY <1>1, <1>2, ShellForgets DEF AnswerTo
<1>7. ~s'.overlapped => OneForSession'
  BY <1>1, <1>2 DEF ShellInv, OneForSession, ForSession, Shell!Page, Shell!AuthScreen, AnswerTo
<1> QED
  BY <1>2, <1>4, <1>5, <1>6, <1>7 DEF ShellInv, Shell!TypeOK, AnswerTo

\* A login or a registration has opened a session, and a probe looks for it.
LEMMA ShellSignedIn ==
  ASSUME ShellInv, NEW c \in s.calls, Shell!SignedIn(c)
  PROVE  ShellInv'
<1> DEFINE t == Shell!Without(c)
           m == s.opened + 1
<1>1. /\ c.op \in {"login", "register"} /\ s.opened < MaxSessions
      /\ s' = Shell!Bootstrap([t EXCEPT !.opened = m, !.open = @ \cup {m}, !.cookie = m])
  BY DEF Shell!SignedIn
<1>2. AnswerTo(c, t) /\ t.csrf = s.csrf /\ t.redirecting = s.redirecting
      /\ t.redirects = s.redirects
  BY ShellAnswers, ShellFacts DEF Shell!Without, Shell!State
<1> HIDE DEF t
<1>3. /\ m \in Shell!Maybe /\ m \in Shell!Session /\ m \notin s.open
      /\ s.open \cup {m} \subseteq 1..m
  <2>1. s.opened \in Nat /\ MaxSessions \in Nat /\ s.open \subseteq 1..s.opened
    BY ShellFacts
  <2>2. m \in 0..MaxSessions /\ m \in 1..MaxSessions /\ m \notin 1..s.opened /\ m \in 1..m
    BY <1>1, <2>1
  <2>3. \A k \in 1..s.opened : k \in 1..m
    BY <2>1
  <2> QED  BY <2>1, <2>2, <2>3 DEF Shell!Maybe, Shell!Session
<1> HIDE DEF m
<1> DEFINE u == [t EXCEPT !.opened = m, !.open = @ \cup {m}, !.cookie = m]
<1>4. /\ u \in Shell!State
      /\ u.status = s.status /\ u.user = s.user /\ u.leaving = s.leaving
      /\ u.csrf = s.csrf /\ u.cookie = m /\ u.opened = m /\ u.open = s.open \cup {m}
      /\ u.overlapped = s.overlapped /\ u.calls = s.calls \ {c}
      /\ u.redirecting = s.redirecting /\ u.redirects = s.redirects
  BY <1>2, <1>3 DEF AnswerTo, Shell!State
<1> HIDE DEF u
<1>5. s' = Shell!Bootstrap(u)
  BY <1>1 DEF u
<1>6. Shell!Free(u) # {}
  <2>1. c.id \in 1..FewCalls
    BY ShellFacts
  <2>2. \A d \in u.calls : d.id # c.id
    BY <1>4 DEF ShellInv, ShellCallsNumbered
  <2> QED  BY <2>1, <2>2 DEF Shell!Free
<1>7. PICK n \in Shell!Call :
           /\ n.op = "probe" /\ n.cookie = u.cookie /\ n.open = (u.cookie \in u.open)
           /\ \A d \in u.calls : d.id # n.id
           /\ Shell!Bootstrap(u)
                = [u EXCEPT !.booting = TRUE, !.form = 0, !.calls = @ \cup {n}]
  BY <1>4, <1>6, ShellBootstrap
<1>8. 0 \in 0..FewCalls /\ n.id # 0
  <2>1. n.id \in 1..FewCalls
    BY DEF Shell!Call
  <2> QED  BY <2>1, BoundTypes
<1>9. s' \in Shell!State
  <2> DEFINE calls == u.calls \cup {n}
  <2>1. calls \in SUBSET Shell!Call
    BY <1>4 DEF Shell!State
  <2>2. s' = [u EXCEPT !.booting = TRUE, !.form = 0, !.calls = calls]
    BY <1>5, <1>7
  <2> HIDE DEF calls
  <2> QED  BY <1>4, <1>8, <2>1, <2>2 DEF Shell!State
<1>10. /\ s'.status = s.status /\ s'.user = s.user /\ s'.leaving = s.leaving
       /\ s'.booting /\ s'.form = 0 /\ s'.csrf = s.csrf /\ s'.cookie = m
       /\ s'.opened = m /\ s'.open = s.open \cup {m} /\ s'.overlapped = s.overlapped
       /\ s'.calls = (s.calls \ {c}) \cup {n}
       /\ s'.redirecting = s.redirecting /\ s'.redirects = s.redirects
  BY <1>4, <1>5, <1>7 DEF Shell!State
<1>11. EachReloadEarned'
  <2>1. /\ IsFiniteSet(s.open) /\ s.opened \in Nat /\ Ended \in Int
    BY ShellFacts
  <2>2. Cardinality(s.open) \in Nat /\ Cardinality(s.open \cup {m}) = Cardinality(s.open) + 1
    BY <1>3, <2>1, FS_CardinalityType, FS_AddElement
  <2>3. Ended' = Ended
    BY <1>10, <2>1, <2>2 DEF Ended, m
  <2>4. ~FreshPage
    BY <1>1 DEF FreshPage
  <2>5. OpenPage => OpenPage'
    BY <1>1, <1>4, <1>7, <1>10 DEF OpenPage
  <2> QED  BY <1>10, <2>1, <2>3, <2>4, <2>5, ShellEarned
<1>12. ShellCallsNumbered'
  BY <1>4, <1>7, <1>8, <1>10, ShellFacts DEF ShellInv, ShellCallsNumbered
<1>13. Shell!WaitsForCalls'
  BY <1>1, <1>7, <1>10 DEF ShellInv, Shell!WaitsForCalls
<1>14. ~s'.overlapped => OneForSession'
  BY <1>1, <1>4, <1>7, <1>10 DEF ShellInv, OneForSession, ForSession, Shell!Page
<1> QED
  BY <1>3, <1>9, <1>10, <1>11, <1>12, <1>13, <1>14 DEF ShellInv, Shell!TypeOK

\* Every step of the shell keeps its invariant.
LEMMA ShellStep ==
  ASSUME ShellInv, Shell!Next PROVE ShellInv'
<1>1. CASE Shell!Redirect
  BY <1>1, ShellRedirects
<1>2. CASE \/ \E p \in Route : Shell!Navigate(p)
           \/ \E p \in Path : Shell!PopState(p)
           \/ Shell!SwitchTab
  BY <1>2, ShellScreen
<1>3. CASE \/ Shell!SubmitForm \/ Shell!LogoutButton
           \/ \E op \in {"load", "save"} : Shell!PageCalls(op)
  BY <1>3, ShellCalls
<1>4. ASSUME NEW c \in s.calls,
             \/ Shell!ProbeOk(c) \/ Shell!ProbeRefused(c)
             \/ Shell!SignedIn(c) \/ Shell!NotSignedIn(c)
             \/ Shell!LoggedOut(c) \/ Shell!NotLoggedOut(c) \/ Shell!PageAnswered(c)
      PROVE  ShellInv'
  BY <1>4, ShellProbeOk, ShellProbeRefused, ShellSignedIn, ShellNotSignedIn,
     ShellLoggedOut, ShellNotLoggedOut, ShellPageAnswered
<1>5. CASE \E n \in Shell!Session : Shell!EndSession(n)
  BY <1>5, ShellEndsSession
<1> QED
  BY <1>1, <1>2, <1>3, <1>4, <1>5 DEF Shell!Next

-----------------------------------------------------------------------------
(* RolesPage.                                                               *)

\* A page that begins at o has a role on it, if there is any.
Reaches(t, o) == o = 0 \/ o < Cardinality(t.roles)

\* Unless it is disturbed: one call at most is under way, a load of a page with
\* a role on it that the roles have not changed since, or a change that knows
\* the page; and when no load is under way the list is a page with a role on it.
PageKept(t) ==
  /\ \A c, d \in t.calls : c = d
  /\ \A c \in t.calls :
       c.op = "load" => Reaches(t, c.at) /\ (c.answer = "ok" => c.seen = t.roles)
  /\ (\A c \in t.calls : c.op # "load") =>
       /\ t.rows = Roles!PageOf(t.roles, t.offset)
       /\ t.total = Cardinality(t.roles)
       /\ Reaches(t, t.offset)
       /\ \A c \in t.calls : c.at = t.offset /\ (c.last <=> Cardinality(t.rows) = 1)

\* A deletion that is waited for is under way, or the load that follows it.
DeletingWaits(t) ==
  t.deleting => \E c \in t.calls : IF c.op = "load" THEN c.flow = "deleted"
                                                   ELSE c.op = "delete"

\* What holds of the calls in t before and after the effects of a step.
RolesKnown(t) ==
  /\ t \in Roles!State
  /\ IsFiniteSet(t.roles)
  /\ \A c \in t.calls : c.op = "load" => IsFiniteSet(c.seen)
  /\ \A c, d \in t.calls : c.id = d.id => c = d
  /\ \A c \in t.calls : c.id = t.form => c.op \in {"create", "edit"}
  /\ t.loading => \E c \in t.calls : c.op = "load"
  /\ t.form # 0 => \E c \in t.calls : c.id = t.form

RolesInv ==
  /\ RolesKnown(s) /\ DeletingWaits(s)
  /\ s.view \in {"details", "edit"} => s.sel \in s.rows
  /\ ~s.disturbed => PageKept(s)

\* What holds in t when only the effects of a step are left.
RolesReady(t) ==
  /\ RolesKnown(t) /\ DeletingWaits(t)
  /\ t.offset = s.offset \/ Roles!Free(t) # {}
  /\ ~t.disturbed => IF t.offset = s.offset THEN PageKept(t)
                     ELSE t.calls = {} /\ Reaches(t, t.offset)

-----------------------------------------------------------------------------
(* Pages of a finite set of numbers.                                        *)

\* RolesPage counts as FiniteSets does.
LEMMA RolesCardinality == \A S : Roles!Cardinality(S) = Cardinality(S)
BY DEF Roles!Cardinality, Cardinality

\* A finite set of numbers that is not empty has a greatest element.
LEMMA GreatestExists ==
  ASSUME NEW S \in SUBSET Nat, IsFiniteSet(S), S # {}
  PROVE  \E n \in S : \A m \in S : m <= n
<1> DEFINE Above(r) == {q \in S : r < q}
           D == {Cardinality(Above(r)) : r \in S}
<1>1. \A r \in S : IsFiniteSet(Above(r)) /\ Cardinality(Above(r)) \in Nat
  <2> TAKE r \in S
  <2>1. Above(r) \in SUBSET S
    OBVIOUS
  <2>2. IsFiniteSet(Above(r))
    BY <2>1, FS_Subset
  <2> QED  BY <2>2, FS_CardinalityType
<1>2. PICK r \in S : \A q \in S : Cardinality(Above(r)) <= Cardinality(Above(q))
  <2>1. D \in SUBSET Nat /\ D # {}
    BY <1>1
  <2>2. PICK d \in D : \A e \in D : d <= e
    <3> HIDE DEF D
    <3> QED  BY <2>1, LeastExists
  <2> QED  BY <2>2
<1>3. ASSUME NEW q \in S, r < q
      PROVE  FALSE
  <2>1. Above(q) \in SUBSET Above(r) /\ q \in Above(r) /\ q \notin Above(q)
    <3>1. r \in Nat /\ q \in Nat
      OBVIOUS
    <3>2. ASSUME NEW p \in S, q < p
          PROVE  r < p
      <4>1. p \in Nat
        OBVIOUS
      <4> QED  BY <1>3, <3>1, <3>2, <4>1
    <3>3. ~(q < q)
      BY <3>1
    <3> QED  BY <1>3, <3>2, <3>3
  <2> HIDE DEF Above
  <2>2. /\ Cardinality(Above(q)) <= Cardinality(Above(r))
        /\ Cardinality(Above(r)) = Cardinality(Above(q)) => Above(r) = Above(q)
    BY <1>1, <2>1, FS_Subset
  <2>3. Cardinality(Above(q)) \in Nat /\ Cardinality(Above(r)) \in Nat
    BY <1>1
  <2>4. Cardinality(Above(r)) <= Cardinality(Above(q))
    BY <1>2
  <2> QED  BY <2>1, <2>2, <2>3, <2>4
<1> QED
  BY <1>3

\* The number of elements before one of them.
Place(S, r) == Cardinality({q \in S : q < r})

\* Places grow with the elements, and are fewer than the elements.
LEMMA PlaceIsLess ==
  ASSUME NEW S \in SUBSET Nat, IsFiniteSet(S), NEW r \in S
  PROVE  /\ Place(S, r) \in Nat /\ Cardinality(S) \in Nat /\ Place(S, r) < Cardinality(S)
         /\ \A q \in S : q < r => Place(S, q) < Place(S, r)
<1> DEFINE Below(q) == {p \in S : p < q}
<1>1. \A q \in S : IsFiniteSet(Below(q)) /\ Cardinality(Below(q)) \in Nat
  <2> TAKE q \in S
  <2>1. Below(q) \in SUBSET S
    OBVIOUS
  <2>2. IsFiniteSet(Below(q))
    BY <2>1, FS_Subset
  <2> QED  BY <2>2, FS_CardinalityType
<1>2. Cardinality(S) \in Nat
  BY FS_CardinalityType
<1>3. Cardinality(Below(r)) < Cardinality(S)
  <2>1. Below(r) \in SUBSET S /\ r \notin Below(r)
    OBVIOUS
  <2> HIDE DEF Below
  <2>2. /\ Cardinality(Below(r)) <= Cardinality(S)
        /\ Cardinality(S) = Cardinality(Below(r)) => S = Below(r)
    BY <2>1, FS_Subset
  <2>3. Cardinality(Below(r)) \in Nat
    BY <1>1
  <2> QED  BY <1>2, <2>1, <2>2, <2>3
<1>4. ASSUME NEW q \in S, q < r
      PROVE  Cardinality(Below(q)) < Cardinality(Below(r))
  <2>1. Below(q) \in SUBSET Below(r) /\ q \in Below(r) /\ q \notin Below(q)
    <3>1. r \in Nat /\ q \in Nat
      OBVIOUS
    <3>2. ASSUME NEW p \in S, p < q
          PROVE  p < r
      <4>1. p \in Nat
        OBVIOUS
      <4> QED  BY <1>4, <3>1, <3>2, <4>1
    <3>3. ~(q < q)
      BY <3>1
    <3> QED  BY <1>4, <3>2, <3>3
  <2> HIDE DEF Below
  <2>2. /\ Cardinality(Below(q)) <= Cardinality(Below(r))
        /\ Cardinality(Below(r)) = Cardinality(Below(q)) => Below(r) = Below(q)
    BY <1>1, <2>1, FS_Subset
  <2>3. Cardinality(Below(q)) \in Nat /\ Cardinality(Below(r)) \in Nat
    BY <1>1
  <2> QED  BY <2>1, <2>2, <2>3
<1>5. \A q : Place(S, q) = Cardinality(Below(q))
  BY DEF Place
<1> HIDE DEF Below
<1> QED
  BY <1>1, <1>2, <1>3, <1>4, <1>5

\* There is an element at every place.
LEMMA PlaceIsTaken ==
  ASSUME NEW S \in SUBSET Nat, IsFiniteSet(S), NEW o \in Nat, o < Cardinality(S)
  PROVE  \E r \in S : Place(S, r) = o
<1> DEFINE T == {r \in S : o <= Place(S, r)}
<1>1. T \in SUBSET Nat
  OBVIOUS
<1>2. T # {}
  <2>1. S # {} /\ Cardinality(S) \in Nat
    BY FS_CardinalityType, FS_EmptySet
  <2>2. PICK n \in S : \A m \in S : m <= n
    BY <2>1, GreatestExists
  <2>3. {q \in S : q < n} = S \ {n}
    <3>1. \A q \in S : q < n <=> q # n
      <4> TAKE q \in S
      <4>1. q \in Nat /\ n \in Nat /\ q <= n
        BY <2>2
      <4> QED  BY <4>1
    <3> QED  BY <3>1
  <2>4. Place(S, n) = Cardinality(S) - 1
    BY <2>3, FS_RemoveElement DEF Place
  <2>5. n \in T
    BY <2>1, <2>4
  <2> QED  BY <2>5
<1>3. PICK r \in T : \A q \in T : r <= q
  <2> HIDE DEF T
  <2> QED  BY <1>1, <1>2, LeastExists
<1>4. r \in S /\ o <= Place(S, r) /\ Place(S, r) \in Nat
  BY <1>3, PlaceIsLess
<1>5. ASSUME o < Place(S, r)
      PROVE  FALSE
  <2> DEFINE B == {q \in S : q < r}
  <2>1. B \in SUBSET Nat /\ IsFiniteSet(B)
    <3>1. B \in SUBSET S
      OBVIOUS
    <3>2. IsFiniteSet(B)
      BY <3>1, FS_Subset
    <3> QED  BY <3>2
  <2>2. B # {}
    BY <1>4, <1>5, FS_EmptySet DEF Place
  <2>3. PICK m \in B : \A p \in B : p <= m
    <3> HIDE DEF B
    <3> QED  BY <2>1, <2>2, GreatestExists
  <2>4. {q \in S : q < m} = B \ {m}
    <3>1. m \in S /\ m < r /\ m \in Nat /\ r \in Nat
      BY <1>4, <2>3
    <3>2. \A q \in S : q < m <=> q < r /\ q # m
      <4> TAKE q \in S
      <4>1. q \in Nat /\ (q < r => q <= m)
        BY <2>3
      <4> QED  BY <3>1, <4>1
    <3> QED  BY <3>2
  <2>5. Cardinality(B \ {m}) = Cardinality(B) - 1
    <3> HIDE DEF B
    <3> QED  BY <2>1, <2>3, FS_RemoveElement
  <2>6. Place(S, m) = Place(S, r) - 1
    BY <2>4, <2>5 DEF Place
  <2>7. m \in T
    BY <1>4, <1>5, <2>3, <2>6
  <2> QED  BY <1>3, <1>4, <2>3, <2>7
<1> QED
  BY <1>4, <1>5

\* A page that begins before the end has a role on it, and one only if it
\* begins at the last.
LEMMA PageHasRole ==
  ASSUME NEW S \in SUBSET Nat, IsFiniteSet(S), NEW o \in Nat, o < Cardinality(S)
  PROVE  /\ Roles!PageOf(S, o) # {}
         /\ o = Cardinality(S) - 1 => Cardinality(Roles!PageOf(S, o)) = 1
<1>1. \A r : r \in Roles!PageOf(S, o) <=> r \in S /\ o <= Place(S, r) /\ Place(S, r) < o + Limit
  BY RolesCardinality DEF Roles!PageOf, Place
<1>2. PICK r \in S : Place(S, r) = o
  BY PlaceIsTaken
<1>3. r \in Roles!PageOf(S, o)
  BY <1>1, <1>2, DataTypes
<1>4. ASSUME o = Cardinality(S) - 1
      PROVE  Roles!PageOf(S, o) = {r}
  <2>1. ASSUME NEW q \in S, o <= Place(S, q)
        PROVE  q = r
    <3>1. /\ Place(S, q) \in Nat /\ Cardinality(S) \in Nat /\ Place(S, q) < Cardinality(S)
          /\ r < q => Place(S, r) < Place(S, q)
          /\ q < r => Place(S, q) < Place(S, r)
      BY <1>2, PlaceIsLess
    <3> QED  BY <1>2, <1>4, <2>1, <3>1
  <2> QED  BY <1>1, <1>3, <2>1
<1>5. Cardinality({r}) = 1
  BY FS_Singleton
<1> QED
  BY <1>3, <1>4, <1>5


-----------------------------------------------------------------------------
(* The calls of the roles page.                                             *)

\* What a call is.
LEMMA RolesCallTypes ==
  ASSUME NEW t \in Roles!State, NEW c \in t.calls
  PROVE  /\ c.id \in 1..FewCalls /\ c.id # 0 /\ c.at \in Nat
         /\ c.op = "load" => c \in Roles!Loads
         /\ c.op # "load" => c \in Roles!Mutations
<1>1. c \in Roles!Loads \cup Roles!Mutations
  BY DEF Roles!State
<1>2. c.id \in 1..FewCalls /\ c.at \in Nat
  BY <1>1 DEF Roles!Loads, Roles!Mutations
<1>3. /\ c.op = "load" => c \in Roles!Loads
      /\ c.op # "load" => c \in Roles!Mutations
  BY <1>1 DEF Roles!Loads, Roles!Mutations
<1>4. \A n \in 1..FewCalls : n # 0
  OBVIOUS
<1> QED  BY <1>2, <1>3, <1>4

\* The number of a new call.
LEMMA RolesNewId ==
  ASSUME NEW t \in Roles!State, Roles!Free(t) # {}
  PROVE  /\ Roles!NewId(t) \in 1..FewCalls /\ Roles!NewId(t) # 0
         /\ Roles!NewId(t) \in 0..FewCalls
         /\ \A c \in t.calls : c.id # Roles!NewId(t)
<1>1. Roles!Free(t) \in SUBSET Nat /\ Roles!Free(t) \subseteq 1..FewCalls
  BY BoundTypes DEF Roles!Free
<1>2. Roles!NewId(t) \in Roles!Free(t)
  BY <1>1, LeastIsOneOf DEF Roles!NewId
<1>3. \A n \in 1..FewCalls : n # 0 /\ n \in 0..FewCalls
  BY BoundTypes
<1> QED
  BY <1>1, <1>2, <1>3 DEF Roles!Free

\* r is t after the start of a load of the page at the offset given.
LoadsFrom(r, t, at) ==
  /\ RolesKnown(r) /\ DeletingWaits(r)
  /\ r.roles = t.roles /\ r.rows = t.rows /\ r.total = t.total /\ r.offset = t.offset
  /\ r.view = t.view /\ r.sel = t.sel /\ r.form = t.form /\ r.disturbed = t.disturbed
  /\ \E n : r.calls = t.calls \cup {n} /\ n.op = "load" /\ n.at = at /\ n.answer = "none"

\* A load begins: it waits under a number of its own.
LEMMA RolesLoad ==
  ASSUME NEW t, RolesKnown(t), Roles!Free(t) # {},
         NEW prefer \in Role \cup {None, Current}, NEW at \in Nat,
         NEW flow \in Roles!Flow, NEW known \in SUBSET Role,
         DeletingWaits(t) \/ flow = "deleted"
  PROVE  LoadsFrom(Roles!Load(t, prefer, at, flow, known), t, at)
<1> DEFINE n == Roles!LoadCall(Roles!NewId(t), prefer, at, flow, known)
           r == Roles!Load(t, prefer, at, flow, known)
<1>1. t \in Roles!State
  BY DEF RolesKnown
<1>2. /\ n.id = Roles!NewId(t) /\ n.op = "load" /\ n.at = at /\ n.flow = flow
      /\ n.answer = "none" /\ n.seen = {}
  BY DEF Roles!LoadCall
<1>3. n \in Roles!Loads
  BY <1>1, RolesNewId DEF Roles!LoadCall, Roles!Loads
<1>4. r = [t EXCEPT !.loading = TRUE, !.error = FALSE, !.calls = @ \cup {n}]
  BY DEF Roles!Load
<1> HIDE DEF n, r
<1> DEFINE calls == t.calls \cup {n}
<1>5. calls \in SUBSET (Roles!Loads \cup Roles!Mutations)
  BY <1>1, <1>3 DEF Roles!State
<1>6. r = [t EXCEPT !.loading = TRUE, !.error = FALSE, !.calls = calls]
  BY <1>4
<1>7. r \in Roles!State
  <2> HIDE DEF calls
  <2> QED  BY <1>1, <1>5, <1>6 DEF Roles!State
<1>8. /\ r.roles = t.roles /\ r.rows = t.rows /\ r.total = t.total /\ r.offset = t.offset
      /\ r.view = t.view /\ r.sel = t.sel /\ r.form = t.form /\ r.disturbed = t.disturbed
      /\ r.deleting = t.deleting /\ r.calls = t.calls \cup {n}
  BY <1>1, <1>6 DEF Roles!State
<1>9. n.id # 0 /\ \A c \in t.calls : c.id # n.id
  BY <1>1, <1>2, RolesNewId
<1>10. IsFiniteSet(n.seen)
  BY <1>2, FS_EmptySet
<1>11. n.id # r.form
  BY <1>8, <1>9 DEF RolesKnown
<1>12. RolesKnown(r)
  <2>1. /\ \A c \in r.calls : c.op = "load" => IsFiniteSet(c.seen)
        /\ \A c, d \in r.calls : c.id = d.id => c = d
    BY <1>8, <1>9, <1>10 DEF RolesKnown
  <2>2. /\ \A c \in r.calls : c.id = r.form => c.op \in {"create", "edit"}
        /\ r.form # 0 => \E c \in r.calls : c.id = r.form
    BY <1>8, <1>11 DEF RolesKnown
  <2>3. r.loading => \E c \in r.calls : c.op = "load"
    BY <1>2, <1>8
  <2>4. IsFiniteSet(r.roles)
    BY <1>8 DEF RolesKnown
  <2> QED  BY <1>7, <2>1, <2>2, <2>3, <2>4 DEF RolesKnown
<1>13. DeletingWaits(r)
  BY <1>2, <1>8 DEF DeletingWaits
<1>14. LoadsFrom(r, t, at)
  BY <1>2, <1>8, <1>12, <1>13 DEF LoadsFrom
<1> QED
  BY <1>14 DEF r

\* The effects of a step complete it.
LEMMA RolesSettles ==
  ASSUME NEW t, RolesReady(t), Roles!Settle(t)
  PROVE  RolesInv'
<1> DEFINE closed == t.view \in {"details", "edit"} /\ t.sel \notin t.rows
           view == IF closed THEN "idle" ELSE t.view
           form == IF closed \/ t.view # s.view THEN 0 ELSE t.form
           u == [t EXCEPT !.view = view, !.form = form]
<1>1. t \in Roles!State
  BY DEF RolesReady, RolesKnown
<1>2. /\ t.view \in {"idle", "details", "create", "edit"} /\ t.form \in 0..FewCalls
      /\ t.offset \in Nat /\ 0 \in 0..FewCalls
  BY <1>1, BoundTypes DEF Roles!State
<1>3. view \in {"idle", "details", "create", "edit"} /\ form \in {0, t.form}
  BY <1>2
<1>4. view \in {"details", "edit"} => t.sel \in t.rows
  OBVIOUS
<1>5. s' = IF t.offset = s.offset THEN u ELSE Roles!Load(u, Current, t.offset, "none", {})
  BY DEF Roles!Settle
<1> HIDE DEF closed, view, form
<1>6. u \in Roles!State
  BY <1>1, <1>2, <1>3 DEF Roles!State
<1>7. /\ u.roles = t.roles /\ u.rows = t.rows /\ u.total = t.total /\ u.offset = t.offset
      /\ u.loading = t.loading /\ u.view = view /\ u.sel = t.sel /\ u.deleting = t.deleting
      /\ u.form = form /\ u.disturbed = t.disturbed /\ u.calls = t.calls
  BY <1>1 DEF Roles!State
<1> HIDE DEF u
<1>8. RolesKnown(u) /\ DeletingWaits(u)
  <2>1. \A c \in t.calls : c.id # 0
    BY <1>1, RolesCallTypes
  <2>2. RolesKnown(u)
    BY <1>3, <1>6, <1>7, <2>1 DEF RolesReady, RolesKnown
  <2>3. DeletingWaits(u)
    BY <1>7 DEF RolesReady, DeletingWaits
  <2> QED  BY <2>2, <2>3
<1>9. CASE t.offset = s.offset
  <2>1. s' = u
    BY <1>5, <1>9
  <2>2. ~u.disturbed => PageKept(u)
    BY <1>7, <1>9 DEF RolesReady, PageKept, Reaches
  <2>3. u.view \in {"details", "edit"} => u.sel \in u.rows
    BY <1>4, <1>7
  <2> QED  BY <1>8, <2>1, <2>2, <2>3 DEF RolesInv
<1>10. CASE t.offset # s.offset
  <2>1. s' = Roles!Load(u, Current, t.offset, "none", {})
    BY <1>5, <1>10
  <2>2. Roles!Free(u) # {}
    BY <1>7, <1>10 DEF RolesReady, Roles!Free
  <2>3. LoadsFrom(s', u, t.offset)
    <3>1. "none" \in Roles!Flow /\ {} \in SUBSET Role
      BY DEF Roles!Flow
    <3> QED  BY <1>2, <1>8, <2>1, <2>2, <3>1, RolesLoad
  <2>4. s'.view \in {"details", "edit"} => s'.sel \in s'.rows
    BY <1>4, <1>7, <2>3 DEF LoadsFrom
  <2>5. ASSUME ~s'.disturbed
        PROVE  PageKept(s')
    <3>1. t.calls = {} /\ Reaches(t, t.offset)
      BY <1>7, <1>10, <2>3, <2>5 DEF RolesReady, LoadsFrom
    <3>2. PICK n : s'.calls = {n} /\ n.op = "load" /\ n.at = t.offset /\ n.answer = "none"
      <4>1. \A n : t.calls \cup {n} = {n}
        BY <3>1
      <4> QED  BY <1>7, <2>3, <4>1 DEF LoadsFrom
    <3>3. s'.roles = t.roles
      BY <1>7, <2>3 DEF LoadsFrom
    <3> QED  BY <3>1, <3>2, <3>3 DEF PageKept, Reaches
  <2> QED  BY <2>3, <2>4, <2>5 DEF RolesInv, LoadsFrom
<1> QED
  BY <1>9, <1>10

-----------------------------------------------------------------------------
(* The steps of the roles page.                                             *)

\* At first the first page of roles is loaded.
LEMMA RolesStarts ==
  ASSUME Roles!Init PROVE RolesInv
<1> DEFINE n == Roles!LoadCall(1, Current, 0, "none", {})
<1>1. s = [roles |-> InitialRoles, rows |-> {}, total |-> 0, offset |-> 0, loading |-> TRUE,
           error |-> FALSE, view |-> "idle", sel |-> None, dialog |-> None,
           deleting |-> FALSE, known |-> {}, form |-> 0, disturbed |-> FALSE,
           calls |-> {n}]
  BY DEF Roles!Init
<1>2. /\ n.id = 1 /\ n.op = "load" /\ n.at = 0 /\ n.answer = "none" /\ n.seen = {}
      /\ n \in Roles!Loads
  <2>1. 1 \in 1..FewCalls
    BY BoundTypes
  <2> QED  BY <2>1 DEF Roles!LoadCall, Roles!Loads, Roles!Flow
<1> HIDE DEF n
<1>3. s \in Roles!State
  <2>1. {n} \in SUBSET (Roles!Loads \cup Roles!Mutations) /\ 0 \in 0..FewCalls
    BY <1>2, BoundTypes
  <2> QED  BY <1>1, <2>1, DataTypes DEF Roles!State
<1>4. IsFiniteSet(s.roles) /\ IsFiniteSet(n.seen)
  BY <1>1, <1>2, DataTypes, FS_EmptySet
<1>5. RolesKnown(s) /\ DeletingWaits(s)
  BY <1>1, <1>2, <1>3, <1>4 DEF RolesKnown, DeletingWaits
<1>6. PageKept(s)
  BY <1>1, <1>2 DEF PageKept, Reaches
<1> QED
  BY <1>1, <1>5, <1>6 DEF RolesInv

\* Clicks that make no call.
LEMMA RolesLooks ==
  ASSUME RolesInv,
         \/ Roles!CreateButton \/ Roles!EditButton \/ Roles!CancelForm \/ Roles!CancelDelete
         \/ \E r \in Role : Roles!SelectRole(r) \/ Roles!DeleteButton(r)
  PROVE  RolesInv'
<1>1. s \in Roles!State
  BY DEF RolesInv, RolesKnown
<1> DEFINE Look(view, sel, dialog, known) ==
             Roles!Settle([s EXCEPT !.view = view, !.sel = sel, !.dialog = dialog,
                                    !.known = known])
           View == {"idle", "details", "create", "edit"}
<1>2. PICK view \in View, sel \in Role \cup {None}, dialog \in Role \cup {None},
           known \in SUBSET Role : Look(view, sel, dialog, known)
  <2>1. /\ s.view \in View /\ s.sel \in Role \cup {None}
        /\ s.dialog \in Role \cup {None} /\ s.known \in SUBSET Role /\ s.rows \in SUBSET Role
    BY <1>1 DEF Roles!State
  <2>2. CASE Roles!CreateButton
    <3>1. [s EXCEPT !.known = s.rows, !.sel = None, !.view = "create"]
            = [s EXCEPT !.view = "create", !.sel = None, !.dialog = s.dialog, !.known = s.rows]
      BY <1>1 DEF Roles!State
    <3>2. Look("create", None, s.dialog, s.rows)
      BY <2>2, <3>1 DEF Roles!CreateButton
    <3> HIDE DEF Look
    <3> QED  BY <2>1, <3>2
  <2>3. CASE Roles!EditButton
    <3>1. [s EXCEPT !.view = "edit"]
            = [s EXCEPT !.view = "edit", !.sel = s.sel, !.dialog = s.dialog, !.known = s.known]
      BY <1>1 DEF Roles!State
    <3>2. Look("edit", s.sel, s.dialog, s.known)
      BY <2>3, <3>1 DEF Roles!EditButton
    <3> HIDE DEF Look
    <3> QED  BY <2>1, <3>2
  <2>4. CASE Roles!CancelForm
    <3> DEFINE back == IF s.view = "edit" THEN "details" ELSE "idle"
    <3>1. [s EXCEPT !.view = back]
            = [s EXCEPT !.view = back, !.sel = s.sel, !.dialog = s.dialog, !.known = s.known]
      BY <1>1 DEF Roles!State
    <3>2. Look(back, s.sel, s.dialog, s.known)
      BY <2>4, <3>1 DEF Roles!CancelForm
    <3>3. back \in View
      OBVIOUS
    <3> HIDE DEF Look, back
    <3> QED  BY <2>1, <3>2, <3>3
  <2>5. CASE Roles!CancelDelete
    <3>1. [s EXCEPT !.dialog = None]
            = [s EXCEPT !.view = s.view, !.sel = s.sel, !.dialog = None, !.known = s.known]
      BY <1>1 DEF Roles!State
    <3>2. Look(s.view, s.sel, None, s.known)
      BY <2>5, <3>1 DEF Roles!CancelDelete
    <3> HIDE DEF Look
    <3> QED  BY <2>1, <3>2
  <2>6. ASSUME NEW r \in Role, Roles!SelectRole(r)
        PROVE  \E view \in View, sel \in Role \cup {None}, dialog \in Role \cup {None},
                  known \in SUBSET Role : Look(view, sel, dialog, known)
    <3>1. [s EXCEPT !.sel = r, !.view = "details"]
            = [s EXCEPT !.view = "details", !.sel = r, !.dialog = s.dialog, !.known = s.known]
      BY <1>1 DEF Roles!State
    <3>2. Look("details", r, s.dialog, s.known)
      BY <2>6, <3>1 DEF Roles!SelectRole
    <3> HIDE DEF Look
    <3> QED  BY <2>1, <3>2
  <2>7. ASSUME NEW r \in Role, Roles!DeleteButton(r)
        PROVE  \E view \in View, sel \in Role \cup {None}, dialog \in Role \cup {None},
                  known \in SUBSET Role : Look(view, sel, dialog, known)
    <3>1. [s EXCEPT !.dialog = r]
            = [s EXCEPT !.view = s.view, !.sel = s.sel, !.dialog = r, !.known = s.known]
      BY <1>1 DEF Roles!State
    <3>2. Look(s.view, s.sel, r, s.known)
      BY <2>7, <3>1 DEF Roles!DeleteButton
    <3> HIDE DEF Look
    <3> QED  BY <2>1, <3>2
  <2> HIDE DEF Look
  <2> QED  BY <2>2, <2>3, <2>4, <2>5, <2>6, <2>7
<1> DEFINE t == [s EXCEPT !.view = view, !.sel = sel, !.dialog = dialog, !.known = known]
<1>3. t \in Roles!State
  BY <1>1 DEF Roles!State
<1>4. /\ t.roles = s.roles /\ t.rows = s.rows /\ t.total = s.total /\ t.offset = s.offset
      /\ t.loading = s.loading /\ t.deleting = s.deleting /\ t.form = s.form
      /\ t.disturbed = s.disturbed /\ t.calls = s.calls
  BY <1>1 DEF Roles!State
<1> HIDE DEF t
<1>5. RolesReady(t)
  BY <1>3, <1>4 DEF RolesReady, RolesInv, RolesKnown, DeletingWaits, PageKept, Reaches
<1> QED
  BY <1>2, <1>5, RolesSettles DEF t

\* A click that makes a call disturbs a page that has one under way.
LEMMA RolesClicked ==
  ASSUME RolesInv
  PROVE  LET t == Roles!Clicked(s) IN
           /\ RolesKnown(t) /\ DeletingWaits(t)
           /\ t.roles = s.roles /\ t.rows = s.rows /\ t.total = s.total
           /\ t.offset = s.offset /\ t.form = s.form /\ t.deleting = s.deleting
           /\ t.loading = s.loading /\ t.calls = s.calls
           /\ t.disturbed <=> s.disturbed \/ s.calls # {}
<1> DEFINE t == Roles!Clicked(s)
           disturbed == s.disturbed \/ s.calls # {}
<1>1. s \in Roles!State
  BY DEF RolesInv, RolesKnown
<1>2. t = [s EXCEPT !.disturbed = disturbed] /\ disturbed \in BOOLEAN
  BY <1>1 DEF Roles!Clicked, Roles!State
<1> HIDE DEF t, disturbed
<1>3. t \in Roles!State
  BY <1>1, <1>2 DEF Roles!State
<1>4. /\ t.roles = s.roles /\ t.rows = s.rows /\ t.total = s.total /\ t.offset = s.offset
      /\ t.form = s.form /\ t.deleting = s.deleting /\ t.loading = s.loading
      /\ t.calls = s.calls /\ t.disturbed = disturbed
  BY <1>1, <1>2 DEF Roles!State
<1>5. RolesKnown(t) /\ DeletingWaits(t)
  BY <1>3, <1>4 DEF RolesInv, RolesKnown, DeletingWaits
<1> QED
  BY <1>4, <1>5 DEF t, disturbed

\* The button that loads the page again.
LEMMA RolesRefreshes ==
  ASSUME RolesInv, Roles!Refresh
  PROVE  RolesInv'
<1> DEFINE t == Roles!Clicked(s)
           r == Roles!Load(t, Current, s.offset, "none", {})
<1>1. Roles!Free(s) # {} /\ Roles!Settle(r)
  BY DEF Roles!Refresh
<1>2. /\ RolesKnown(t) /\ DeletingWaits(t) /\ t.roles = s.roles /\ t.offset = s.offset
      /\ t.calls = s.calls /\ (t.disturbed <=> s.disturbed \/ s.calls # {})
  BY RolesClicked
<1> HIDE DEF t
<1>3. LoadsFrom(r, t, s.offset)
  <2>1. Roles!Free(t) # {}
    BY <1>1, <1>2 DEF Roles!Free
  <2>2. s.offset \in Nat /\ "none" \in Roles!Flow /\ {} \in SUBSET Role
    BY DEF RolesInv, RolesKnown, Roles!State, Roles!Flow
  <2> QED  BY <1>2, <2>1, <2>2, RolesLoad
<1> HIDE DEF r
<1>4. ASSUME ~r.disturbed
      PROVE  PageKept(r)
  <2>1. s.calls = {} /\ Reaches(s, s.offset)
    BY <1>2, <1>3, <1>4 DEF LoadsFrom, RolesInv, PageKept
  <2>2. \E n : r.calls = {n} /\ n.op = "load" /\ n.at = s.offset /\ n.answer = "none"
    <3>1. \A n : t.calls \cup {n} = {n}
      BY <1>2, <2>1
    <3> QED  BY <1>3, <3>1 DEF LoadsFrom
  <2>3. r.roles = s.roles
    BY <1>2, <1>3 DEF LoadsFrom
  <2> QED  BY <2>1, <2>2, <2>3 DEF PageKept, Reaches
<1>5. RolesReady(r)
  BY <1>2, <1>3, <1>4 DEF RolesReady, LoadsFrom
<1> QED
  BY <1>1, <1>5, RolesSettles

\* The buttons for the page before and the page after.
LEMMA RolesGoesToPage ==
  ASSUME RolesInv, NEW d \in {-Limit, Limit}, Roles!GoToPage(s.offset + d)
  PROVE  RolesInv'
<1> DEFINE t == Roles!Clicked(s)
           o == IF s.offset + d < 0 THEN 0 ELSE s.offset + d
           r == [t EXCEPT !.sel = None, !.view = "idle", !.offset = o]
<1>1. /\ Roles!Free(s) # {} /\ Roles!Settle(r)
      /\ IF s.offset + d < s.offset THEN s.offset > 0 ELSE s.offset + d < s.total
  BY DEF Roles!GoToPage
<1>2. s \in Roles!State /\ s.offset \in Nat /\ s.total \in Nat /\ IsFiniteSet(s.roles)
  BY DEF RolesInv, RolesKnown, Roles!State
<1>3. /\ RolesKnown(t) /\ DeletingWaits(t) /\ t.roles = s.roles /\ t.offset = s.offset
      /\ t.form = s.form /\ t.deleting = s.deleting /\ t.loading = s.loading
      /\ t.calls = s.calls /\ (t.disturbed <=> s.disturbed \/ s.calls # {})
  BY RolesClicked
<1> HIDE DEF t
<1>4. /\ o \in Nat /\ o # s.offset
      /\ o = 0 \/ o < s.offset \/ o < s.total
  BY <1>1, <1>2, DataTypes
<1> HIDE DEF o
<1>5. /\ r \in Roles!State
      /\ r.roles = s.roles /\ r.offset = o /\ r.form = s.form /\ r.deleting = s.deleting
      /\ r.loading = s.loading /\ r.calls = s.calls /\ r.disturbed = t.disturbed
  BY <1>3, <1>4 DEF RolesKnown, Roles!State
<1> HIDE DEF r
<1>6. RolesKnown(r) /\ DeletingWaits(r) /\ Roles!Free(r) # {}
  BY <1>1, <1>3, <1>5 DEF RolesInv, RolesKnown, DeletingWaits, Roles!Free
<1>7. ASSUME ~r.disturbed
      PROVE  r.calls = {} /\ Reaches(r, o)
  <2>1. s.calls = {} /\ PageKept(s)
    BY <1>3, <1>5, <1>7 DEF RolesInv
  <2>2. s.total = Cardinality(s.roles) /\ Reaches(s, s.offset)
    BY <2>1 DEF PageKept
  <2> QED  BY <1>2, <1>4, <1>5, <2>1, <2>2 DEF Reaches
<1>8. RolesReady(r)
  BY <1>4, <1>5, <1>6, <1>7 DEF RolesReady
<1> QED
  BY <1>1, <1>8, RolesSettles

\* r is the state after a click that sends a change of the roles, n.
MutatesFrom(r, n, op) ==
  /\ r \in Roles!State /\ n.op = op /\ n.id # 0 /\ \A c \in s.calls : c.id # n.id
  /\ n.at = s.offset /\ (n.last <=> Cardinality(s.rows) = 1)
  /\ r.roles = s.roles /\ r.rows = s.rows /\ r.total = s.total /\ r.offset = s.offset
  /\ r.loading = s.loading /\ r.calls = s.calls \cup {n}
  /\ r.disturbed <=> s.disturbed \/ s.calls # {}

\* A click sends a change, with what it knows of the page.
LEMMA RolesMutate ==
  ASSUME RolesInv, Roles!Free(s) # {}, NEW op \in {"create", "edit", "delete"},
         NEW role \in Role
  PROVE  LET t == Roles!Mutate(op, role)
             n == [id |-> Roles!NewId(s), op |-> op, role |-> role, at |-> s.offset,
                   last |-> Roles!Cardinality(s.rows) = 1]
         IN  /\ MutatesFrom(t, n, op) /\ n.id = Roles!NewId(s)
             /\ t.form = s.form /\ t.deleting = s.deleting
<1> DEFINE t == Roles!Mutate(op, role)
           n == [id |-> Roles!NewId(s), op |-> op, role |-> role, at |-> s.offset,
                 last |-> Roles!Cardinality(s.rows) = 1]
           u == Roles!Clicked(s)
<1>1. s \in Roles!State /\ s.offset \in Nat
  BY DEF RolesInv, RolesKnown, Roles!State
<1>2. /\ RolesKnown(u) /\ u.roles = s.roles /\ u.rows = s.rows /\ u.total = s.total
      /\ u.offset = s.offset /\ u.form = s.form /\ u.deleting = s.deleting
      /\ u.loading = s.loading /\ u.calls = s.calls
      /\ (u.disturbed <=> s.disturbed \/ s.calls # {})
  BY RolesClicked
<1>3. /\ n.id = Roles!NewId(s) /\ n.op = op /\ n.at = s.offset
      /\ n.last <=> Cardinality(s.rows) = 1
  BY RolesCardinality
<1>4. /\ Roles!NewId(s) \in 1..FewCalls /\ Roles!NewId(s) # 0
      /\ \A c \in s.calls : c.id # Roles!NewId(s)
  BY <1>1, RolesNewId
<1>5. n \in Roles!Mutations
  <2>1. (Roles!Cardinality(s.rows) = 1) \in BOOLEAN
    OBVIOUS
  <2> QED  BY <1>1, <1>4, <2>1 DEF Roles!Mutations
<1>6. t = [u EXCEPT !.calls = @ \cup {n}]
  BY DEF Roles!Mutate
<1> HIDE DEF t, n, u
<1>7. u.calls \cup {n} \in SUBSET (Roles!Loads \cup Roles!Mutations)
  BY <1>2, <1>5 DEF RolesKnown, Roles!State
<1>8. t \in Roles!State
  BY <1>2, <1>6, <1>7 DEF RolesKnown, Roles!State
<1>9. /\ t.roles = s.roles /\ t.rows = s.rows /\ t.total = s.total
      /\ t.offset = s.offset /\ t.form = s.form /\ t.deleting = s.deleting
      /\ t.loading = s.loading /\ t.calls = s.calls \cup {n}
      /\ t.disturbed = u.disturbed
  BY <1>2, <1>6 DEF RolesKnown, Roles!State
<1>10. MutatesFrom(t, n, op)
  BY <1>2, <1>3, <1>4, <1>8, <1>9 DEF MutatesFrom
<1> QED
  BY <1>3, <1>9, <1>10 DEF t, n

\* A change that is sent from a page knows the page.
LEMMA RolesMutatesReady ==
  ASSUME RolesInv, NEW r, NEW n, NEW op \in {"create", "edit", "delete"},
         MutatesFrom(r, n, op), DeletingWaits(r),
         \/ r.form = s.form
         \/ r.form = n.id /\ op # "delete"
  PROVE  RolesReady(r)
<1>1. n.id # s.form
  BY DEF MutatesFrom, RolesInv, RolesKnown
<1>2. RolesKnown(r)
  BY <1>1 DEF MutatesFrom, RolesInv, RolesKnown
<1>3. ASSUME ~r.disturbed
      PROVE  PageKept(r)
  <2>1. s.calls = {} /\ PageKept(s)
    BY <1>3 DEF MutatesFrom, RolesInv
  <2>2. /\ s.rows = Roles!PageOf(s.roles, s.offset)
        /\ s.total = Cardinality(s.roles) /\ Reaches(s, s.offset)
    BY <2>1 DEF PageKept
  <2> QED  BY <2>1, <2>2 DEF MutatesFrom, PageKept, Reaches
<1> QED
  BY <1>2, <1>3 DEF RolesReady, MutatesFrom

\* The forms, and the dialog before a deletion.
LEMMA RolesSubmits ==
  ASSUME RolesInv,
         \/ \E r \in Role : Roles!SubmitCreate(r)
         \/ Roles!SubmitEdit
         \/ Roles!ConfirmDelete
  PROVE  RolesInv'
<1>1. s \in Roles!State
  BY DEF RolesInv, RolesKnown
<1>2. ASSUME NEW op \in {"create", "edit"}, NEW role \in Role, Roles!SubmitForm(op, role)
      PROVE  RolesInv'
  <2> DEFINE t == Roles!Mutate(op, role)
             id == Roles!NewId(s)
             r == [t EXCEPT !.form = id]
  <2>1. Roles!Free(s) # {} /\ Roles!Settle(r)
    BY <1>2 DEF Roles!SubmitForm
  <2>2. PICK n : MutatesFrom(t, n, op) /\ n.id = id /\ t.deleting = s.deleting
    BY <2>1, RolesMutate
  <2>3. id \in 0..FewCalls
    BY <1>1, <2>1, RolesNewId
  <2> HIDE DEF t, id
  <2>4. r \in Roles!State
    BY <2>2, <2>3 DEF MutatesFrom, Roles!State
  <2>5. /\ r.roles = t.roles /\ r.rows = t.rows /\ r.total = t.total /\ r.offset = t.offset
        /\ r.loading = t.loading /\ r.calls = t.calls /\ r.disturbed = t.disturbed
        /\ r.deleting = t.deleting /\ r.form = id
    BY <2>2 DEF MutatesFrom, Roles!State
  <2> HIDE DEF r
  <2>6. MutatesFrom(r, n, op)
    BY <2>2, <2>4, <2>5 DEF MutatesFrom
  <2>7. DeletingWaits(r)
    BY <2>2, <2>5, <2>6 DEF MutatesFrom, DeletingWaits, RolesInv
  <2>8. RolesReady(r)
    BY <2>2, <2>5, <2>6, <2>7, RolesMutatesReady
  <2> QED  BY <2>1, <2>8, RolesSettles
<1>3. CASE Roles!ConfirmDelete
  <2> DEFINE t == Roles!Mutate("delete", s.dialog)
             r == [t EXCEPT !.deleting = TRUE]
  <2>1. Roles!Free(s) # {} /\ Roles!Settle(r) /\ s.dialog \in Role
    BY <1>1, <1>3 DEF Roles!ConfirmDelete, Roles!State
  <2>2. PICK n : MutatesFrom(t, n, "delete") /\ t.form = s.form
    BY <2>1, RolesMutate
  <2> HIDE DEF t
  <2>4. r \in Roles!State
    BY <2>2 DEF MutatesFrom, Roles!State
  <2>5. /\ r.roles = t.roles /\ r.rows = t.rows /\ r.total = t.total /\ r.offset = t.offset
        /\ r.loading = t.loading /\ r.calls = t.calls /\ r.disturbed = t.disturbed
        /\ r.form = t.form
    BY <2>2 DEF MutatesFrom, Roles!State
  <2> HIDE DEF r
  <2>6. MutatesFrom(r, n, "delete")
    BY <2>2, <2>4, <2>5 DEF MutatesFrom
  <2>7. DeletingWaits(r)
    BY <2>6 DEF MutatesFrom, DeletingWaits
  <2>8. RolesReady(r)
    BY <2>2, <2>5, <2>6, <2>7, RolesMutatesReady
  <2> QED  BY <2>1, <2>8, RolesSettles
<1>4. CASE Roles!SubmitEdit
  <2>1. s.sel \in Role /\ Roles!SubmitForm("edit", s.sel)
    BY <1>1, <1>4 DEF Roles!SubmitEdit, RolesInv, Roles!State
  <2> QED  BY <1>2, <2>1
<1>5. CASE \E r \in Role : Roles!SubmitCreate(r)
  BY <1>2, <1>5 DEF Roles!SubmitCreate
<1> QED
  BY <1>3, <1>4, <1>5

\* The server answers a load.
LEMMA RolesAnswers ==
  ASSUME RolesInv, NEW c \in s.calls, NEW answer \in {"ok", "failed"}, Roles!Answer(c, answer)
  PROVE  RolesInv'
<1> DEFINE n == [c EXCEPT !.answer = answer, !.seen = s.roles]
<1>1. s \in Roles!State /\ IsFiniteSet(s.roles) /\ s.roles \in SUBSET Role
  BY DEF RolesInv, RolesKnown, Roles!State
<1>2. c.op = "load" /\ c.answer = "none" /\ c \in Roles!Loads
  BY <1>1, RolesCallTypes DEF Roles!Answer
<1>3. /\ n \in Roles!Loads /\ n.id = c.id /\ n.op = "load" /\ n.at = c.at
      /\ n.flow = c.flow /\ n.seen = s.roles
  BY <1>1, <1>2 DEF Roles!Loads
<1>4. s' = [s EXCEPT !.calls = (@ \ {c}) \cup {n}]
  BY DEF Roles!Answer
<1> HIDE DEF n
<1>5. s' \in Roles!State
  <2>1. (s.calls \ {c}) \cup {n} \in SUBSET (Roles!Loads \cup Roles!Mutations)
    BY <1>1, <1>3 DEF Roles!State
  <2> QED  BY <1>1, <1>4, <2>1 DEF Roles!State
<1>6. /\ s'.roles = s.roles /\ s'.rows = s.rows /\ s'.total = s.total /\ s'.offset = s.offset
      /\ s'.loading = s.loading /\ s'.deleting = s.deleting /\ s'.form = s.form
      /\ s'.view = s.view /\ s'.sel = s.sel /\ s'.disturbed = s.disturbed
      /\ s'.calls = (s.calls \ {c}) \cup {n}
  BY <1>1, <1>4 DEF Roles!State
<1>7. RolesKnown(s')
  BY <1>1, <1>2, <1>3, <1>5, <1>6 DEF RolesInv, RolesKnown
<1>8. DeletingWaits(s')
  BY <1>2, <1>3, <1>6 DEF RolesInv, DeletingWaits
<1>9. ASSUME ~s'.disturbed
      PROVE  PageKept(s')
  <2>1. PageKept(s)
    BY <1>6, <1>9 DEF RolesInv
  <2>2. s'.calls = {n} /\ Reaches(s, c.at)
    BY <1>2, <1>6, <2>1 DEF PageKept
  <2> QED  BY <1>3, <1>6, <2>2 DEF PageKept, Reaches
<1> QED
  BY <1>6, <1>7, <1>8, <1>9 DEF RolesInv

-----------------------------------------------------------------------------
(* The answers of the roles page.                                           *)

\* A call that has been answered leaves its number, and is waited for no more.
LEMMA RolesForgets ==
  ASSUME RolesInv, NEW c \in s.calls, NEW t \in Roles!State, t.calls = s.calls \ {c},
         IsFiniteSet(t.roles),
         \/ t.form = 0
         \/ t.form = s.form /\ (s.form # c.id \/ c.op \notin {"create", "edit"}),
         ~t.loading \/ (t.loading = s.loading /\ c.op # "load")
  PROVE  RolesKnown(t) /\ Roles!Free(t) # {}
<1>1. s \in Roles!State
  BY DEF RolesInv, RolesKnown
<1>2. /\ \A d \in s.calls : d.id # 0
      /\ c.id \in 1..FewCalls
  BY <1>1, RolesCallTypes
<1>3. RolesKnown(t)
  <2>1. t.form # 0 => \E d \in t.calls : d.id = t.form
    BY DEF RolesInv, RolesKnown
  <2>2. t.loading => \E d \in t.calls : d.op = "load"
    BY DEF RolesInv, RolesKnown
  <2> QED  BY <1>2, <2>1, <2>2 DEF RolesInv, RolesKnown
<1>4. \A d \in t.calls : d.id # c.id
  BY DEF RolesInv, RolesKnown
<1> QED
  BY <1>2, <1>3, <1>4 DEF Roles!Free

\* The state without a call and with the roles given.
LEMMA RolesWithout ==
  ASSUME RolesInv, NEW c \in s.calls, NEW roles \in SUBSET Role
  PROVE  LET t == Roles!Without(c, roles) IN
           /\ t \in Roles!State
           /\ t.roles = roles /\ t.rows = s.rows /\ t.total = s.total /\ t.offset = s.offset
           /\ t.loading = s.loading /\ t.deleting = s.deleting /\ t.form = s.form
           /\ t.view = s.view /\ t.sel = s.sel /\ t.disturbed = s.disturbed
           /\ t.calls = s.calls \ {c}
BY DEF RolesInv, RolesKnown, Roles!Without, Roles!State

\* A change that has failed has changed nothing, or the list counts as disturbed.
LEMMA RolesRefused ==
  ASSUME RolesInv, NEW c \in s.calls, Roles!NotSaved(c) \/ Roles!NotDeleted(c)
  PROVE  RolesInv'
<1> DEFINE u(S) == [Roles!Without(c, S) EXCEPT
                      !.form = IF @ = c.id THEN 0 ELSE @, !.disturbed = @ \/ S # s.roles]
           v(S) == [Roles!Without(c, S) EXCEPT
                      !.deleting = FALSE, !.disturbed = @ \/ S # s.roles]
<1>1. PICK roles \in Roles!AfterFailure(c) :
        \/ Roles!Settle(u(roles)) /\ c.op \in {"create", "edit"}
        \/ Roles!Settle(v(roles)) /\ c.op = "delete"
  BY DEF Roles!NotSaved, Roles!NotDeleted
<1>2. /\ roles \in SUBSET Role /\ IsFiniteSet(roles) /\ 0 \in 0..FewCalls
      /\ c.op \in {"create", "edit", "delete"}
  <2>1. s \in Roles!State /\ s.roles \in SUBSET Role /\ IsFiniteSet(s.roles)
    BY DEF RolesInv, RolesKnown, Roles!State
  <2>2. c.role \in Role
    BY <1>1, <2>1, RolesCallTypes DEF Roles!Mutations
  <2>3. roles \in {s.roles, s.roles \cup {c.role}, s.roles \ {c.role}}
    BY <1>1 DEF Roles!AfterFailure
  <2> QED  BY <1>1, <2>1, <2>2, <2>3, BoundTypes, FS_AddElement, FS_RemoveElement
<1> DEFINE t == Roles!Without(c, roles)
<1>3. /\ t \in Roles!State
      /\ t.roles = roles /\ t.rows = s.rows /\ t.total = s.total /\ t.offset = s.offset
      /\ t.loading = s.loading /\ t.deleting = s.deleting /\ t.form = s.form
      /\ t.disturbed = s.disturbed /\ t.calls = s.calls \ {c}
  BY <1>2, RolesWithout
<1> DEFINE form == IF t.form = c.id THEN 0 ELSE t.form
           disturbed == t.disturbed \/ roles # s.roles
<1>4. PICK r : /\ Roles!Settle(r)
               /\ \/ /\ r = [t EXCEPT !.form = form, !.disturbed = disturbed]
                     /\ c.op \in {"create", "edit"}
                  \/ /\ r = [t EXCEPT !.deleting = FALSE, !.disturbed = disturbed]
                     /\ c.op = "delete"
  BY <1>1
<1> HIDE DEF t, u, v
<1>5. /\ form \in 0..FewCalls /\ (form = 0 \/ (form = s.form /\ s.form # c.id))
      /\ disturbed \in BOOLEAN /\ (~disturbed => ~s.disturbed /\ roles = s.roles)
  <2>1. form \in 0..FewCalls
    <3>1. t.form \in 0..FewCalls
      BY <1>3 DEF Roles!State
    <3> QED  BY <1>2, <3>1
  <2>2. form = 0 \/ (form = s.form /\ s.form # c.id)
    <3>1. CASE t.form = c.id
      BY <3>1
    <3>2. CASE t.form # c.id
      BY <1>3, <3>2
    <3> QED  BY <3>1, <3>2
  <2>3. disturbed \in BOOLEAN
    OBVIOUS
  <2>4. ~disturbed => ~s.disturbed /\ roles = s.roles
    BY <1>3
  <2> QED  BY <2>1, <2>2, <2>3, <2>4
<1> HIDE DEF form, disturbed
<1>6. /\ r \in Roles!State
      /\ r.roles = roles /\ r.rows = s.rows /\ r.total = s.total /\ r.offset = s.offset
      /\ r.loading = s.loading /\ r.calls = s.calls \ {c}
      /\ ~r.disturbed => ~s.disturbed /\ roles = s.roles
  <2>1. CASE c.op \in {"create", "edit"}
    <3>1. r = [t EXCEPT !.form = form, !.disturbed = disturbed]
      BY <1>4, <2>1
    <3> QED  BY <1>3, <1>5, <3>1 DEF Roles!State
  <2>2. CASE c.op = "delete"
    <3>1. r = [t EXCEPT !.deleting = FALSE, !.disturbed = disturbed]
      BY <1>4, <2>2
    <3> QED  BY <1>3, <1>5, <3>1 DEF Roles!State
  <2> QED  BY <1>2, <2>1, <2>2
<1>7. /\ \/ r.form = 0
         \/ r.form = s.form /\ (s.form # c.id \/ c.op = "delete")
      /\ ~r.deleting \/ (r.deleting = s.deleting /\ c.op \in {"create", "edit"})
  <2>1. CASE c.op \in {"create", "edit"}
    <3>1. r = [t EXCEPT !.form = form, !.disturbed = disturbed]
      BY <1>4, <2>1
    <3> QED  BY <1>3, <1>5, <2>1, <3>1 DEF Roles!State
  <2>2. CASE c.op = "delete"
    <3>1. r = [t EXCEPT !.deleting = FALSE, !.disturbed = disturbed]
      BY <1>4, <2>2
    <3> QED  BY <1>3, <2>2, <3>1 DEF Roles!State
  <2> QED  BY <1>2, <2>1, <2>2
<1>8. RolesKnown(r)
  BY <1>2, <1>6, <1>7, RolesForgets
<1>9. DeletingWaits(r)
  BY <1>6, <1>7 DEF RolesInv, DeletingWaits
<1>10. ~r.disturbed => PageKept(r)
  BY <1>2, <1>6 DEF RolesInv, PageKept, Reaches
<1> QED
  BY <1>4, <1>6, <1>8, <1>9, <1>10, RolesSettles DEF RolesReady

\* What a handler does that has waited for a load.
LEMMA RolesContinues ==
  ASSUME NEW t \in Roles!State, NEW c \in Roles!Loads, NEW rows \in SUBSET Role
  PROVE  LET r == Roles!Continue(t, c, rows) IN
           /\ r \in Roles!State
           /\ r.roles = t.roles /\ r.rows = t.rows /\ r.total = t.total /\ r.offset = t.offset
           /\ r.loading = t.loading /\ r.form = t.form /\ r.disturbed = t.disturbed
           /\ r.calls = t.calls
           /\ ~r.deleting \/ (r.deleting = t.deleting /\ c.flow # "deleted")
<1> DEFINE fresh == rows \ c.known
           chosen == CASE c.flow = "created" -> IF fresh # {} THEN Roles!First(fresh)
                                                 ELSE Roles!First(rows)
                       [] OTHER -> IF c.prefer \in rows THEN c.prefer ELSE None
           view == IF chosen = None THEN "idle" ELSE "details"
           r == Roles!Continue(t, c, rows)
<1>1. chosen \in Role \cup {None}
  <2>1. ASSUME NEW S \in SUBSET Role
        PROVE  Roles!First(S) \in Role \cup {None}
    <3>1. CASE S = {}
      BY <3>1 DEF Roles!First
    <3>2. CASE S # {}
      <4>1. S \in SUBSET Nat
        BY DataTypes
      <4>2. (CHOOSE k \in S : \A q \in S : k <= q) \in S
        BY <3>2, <4>1, LeastIsOneOf
      <4> QED  BY <3>2, <4>2 DEF Roles!First
    <3> QED  BY <3>1, <3>2
  <2>2. rows \in SUBSET Role /\ fresh \in SUBSET Role
    OBVIOUS
  <2> QED  BY <2>1, <2>2
<1>2. r = IF c.flow \in {"created", "edited"} THEN [t EXCEPT !.sel = chosen, !.view = view]
          ELSE IF c.flow = "deleted" THEN [t EXCEPT !.deleting = FALSE] ELSE t
  BY DEF Roles!Continue
<1>3. view \in {"idle", "details"}
  OBVIOUS
<1> HIDE DEF r, chosen, view
<1>4. CASE c.flow \in {"created", "edited"}
  <2>1. r = [t EXCEPT !.sel = chosen, !.view = view] /\ c.flow # "deleted"
    BY <1>2, <1>4
  <2>2. r \in Roles!State
    BY <1>1, <1>3, <2>1 DEF Roles!State
  <2>3. /\ r.roles = t.roles /\ r.rows = t.rows /\ r.total = t.total /\ r.offset = t.offset
        /\ r.loading = t.loading /\ r.form = t.form /\ r.disturbed = t.disturbed
        /\ r.calls = t.calls /\ r.deleting = t.deleting
    BY <2>1 DEF Roles!State
  <2> QED  BY <2>1, <2>2, <2>3 DEF r
<1>5. CASE c.flow = "deleted"
  <2>1. r = [t EXCEPT !.deleting = FALSE]
    BY <1>2, <1>5
  <2>2. r \in Roles!State
    BY <2>1 DEF Roles!State
  <2>3. /\ r.roles = t.roles /\ r.rows = t.rows /\ r.total = t.total /\ r.offset = t.offset
        /\ r.loading = t.loading /\ r.form = t.form /\ r.disturbed = t.disturbed
        /\ r.calls = t.calls /\ ~r.deleting
    BY <2>1 DEF Roles!State
  <2> QED  BY <2>2, <2>3 DEF r
<1>6. CASE c.flow \notin {"created", "edited", "deleted"}
  <2>1. r = t
    BY <1>2, <1>6
  <2> QED  BY <1>6, <2>1 DEF r
<1> QED
  BY <1>4, <1>5, <1>6

\* A load has brought a page.
LEMMA RolesLoaded ==
  ASSUME RolesInv, NEW c \in s.calls, Roles!Loaded(c)
  PROVE  RolesInv'
<1> DEFINE rows == Roles!PageOf(c.seen, c.at)
           wanted == IF c.prefer = Current THEN s.sel ELSE c.prefer
           sel == IF wanted \in rows THEN wanted ELSE None
           total == Roles!Cardinality(c.seen)
           w == Roles!Without(c, s.roles)
           t == [w EXCEPT !.rows = rows, !.total = total, !.offset = c.at,
                          !.loading = FALSE, !.sel = sel]
           r == Roles!Continue(t, c, rows)
<1>1. c.op = "load" /\ c.answer = "ok" /\ Roles!Settle(r)
  BY DEF Roles!Loaded
<1>2. /\ c \in Roles!Loads /\ c.at \in Nat /\ c.seen \in SUBSET Role /\ IsFiniteSet(c.seen)
      /\ s.roles \in SUBSET Role /\ IsFiniteSet(s.roles)
  <2>1. s \in Roles!State /\ IsFiniteSet(c.seen) /\ IsFiniteSet(s.roles)
    BY <1>1 DEF RolesInv, RolesKnown
  <2>2. c \in Roles!Loads
    BY <1>1, <2>1, RolesCallTypes
  <2> QED  BY <2>1, <2>2 DEF Roles!Loads, Roles!State
<1>3. /\ rows \in SUBSET Role /\ sel \in Role \cup {None}
      /\ total = Cardinality(c.seen) /\ total \in Nat
  <2>1. rows \in SUBSET Role
    BY <1>2 DEF Roles!PageOf
  <2>2. total = Cardinality(c.seen)
    BY RolesCardinality
  <2>3. Cardinality(c.seen) \in Nat
    BY <1>2, FS_CardinalityType
  <2> HIDE DEF rows, total
  <2> QED  BY <2>1, <2>2, <2>3
<1>4. /\ w \in Roles!State
      /\ w.roles = s.roles /\ w.form = s.form /\ w.deleting = s.deleting
      /\ w.disturbed = s.disturbed /\ w.calls = s.calls \ {c}
  BY <1>2, RolesWithout
<1> HIDE DEF w, sel, total
<1>5. /\ t \in Roles!State
      /\ t.roles = s.roles /\ t.rows = rows /\ t.total = total /\ t.offset = c.at
      /\ ~t.loading /\ t.deleting = s.deleting /\ t.form = s.form
      /\ t.disturbed = s.disturbed /\ t.calls = s.calls \ {c}
  <2> HIDE DEF rows
  <2> QED  BY <1>2, <1>3, <1>4 DEF Roles!State
<1> HIDE DEF t
<1>6. /\ r \in Roles!State
      /\ r.roles = s.roles /\ r.rows = rows /\ r.total = total /\ r.offset = c.at
      /\ ~r.loading /\ r.form = s.form /\ r.disturbed = s.disturbed
      /\ r.calls = s.calls \ {c}
      /\ ~r.deleting \/ (r.deleting = s.deleting /\ c.flow # "deleted")
  <2> HIDE DEF rows
  <2> QED  BY <1>2, <1>3, <1>5, RolesContinues
<1> HIDE DEF r
<1>7. RolesKnown(r) /\ Roles!Free(r) # {}
  BY <1>1, <1>2, <1>6, RolesForgets
<1>8. DeletingWaits(r)
  BY <1>1, <1>6 DEF RolesInv, DeletingWaits
<1>9. ASSUME ~r.disturbed
      PROVE  PageKept(r) /\ r.calls = {} /\ Reaches(r, r.offset)
  <2>1. PageKept(s)
    BY <1>6, <1>9 DEF RolesInv
  <2>2. r.calls = {} /\ Reaches(s, c.at) /\ c.seen = s.roles
    BY <1>1, <1>6, <2>1 DEF PageKept
  <2> QED  BY <1>3, <1>6, <2>2 DEF PageKept, Reaches
<1>10. RolesReady(r)
  BY <1>7, <1>8, <1>9 DEF RolesReady
<1> QED
  BY <1>1, <1>10, RolesSettles

\* A load has failed.
LEMMA RolesLoadFailed ==
  ASSUME RolesInv, NEW c \in s.calls, Roles!LoadFailed(c)
  PROVE  RolesInv'
<1> DEFINE w == Roles!Without(c, s.roles)
           t == [w EXCEPT !.error = TRUE, !.loading = FALSE, !.disturbed = TRUE]
           r == Roles!Continue(t, c, {})
<1>1. c.op = "load" /\ Roles!Settle(r)
  BY DEF Roles!LoadFailed
<1>2. /\ c \in Roles!Loads /\ s.roles \in SUBSET Role /\ IsFiniteSet(s.roles)
  <2>1. s \in Roles!State /\ IsFiniteSet(s.roles)
    BY DEF RolesInv, RolesKnown
  <2> QED  BY <1>1, <2>1, RolesCallTypes DEF Roles!State
<1>3. /\ w \in Roles!State
      /\ w.roles = s.roles /\ w.offset = s.offset /\ w.form = s.form
      /\ w.deleting = s.deleting /\ w.calls = s.calls \ {c}
  BY <1>2, RolesWithout
<1> HIDE DEF w
<1>4. /\ t \in Roles!State
      /\ t.roles = s.roles /\ t.offset = s.offset /\ ~t.loading /\ t.deleting = s.deleting
      /\ t.form = s.form /\ t.disturbed /\ t.calls = s.calls \ {c}
  BY <1>3 DEF Roles!State
<1> HIDE DEF t
<1>5. /\ r \in Roles!State
      /\ r.roles = s.roles /\ r.offset = s.offset /\ ~r.loading /\ r.form = s.form
      /\ r.disturbed /\ r.calls = s.calls \ {c}
      /\ ~r.deleting \/ (r.deleting = s.deleting /\ c.flow # "deleted")
  <2>1. {} \in SUBSET Role
    OBVIOUS
  <2> QED  BY <1>2, <1>4, <2>1, RolesContinues
<1> HIDE DEF r
<1>6. RolesKnown(r)
  BY <1>1, <1>2, <1>5, RolesForgets
<1>7. DeletingWaits(r)
  BY <1>1, <1>5 DEF RolesInv, DeletingWaits
<1> QED
  BY <1>1, <1>5, <1>6, <1>7, RolesSettles DEF RolesReady

\* A change that has been made is followed by a load of a page with a role on it.
LEMMA RolesReloads ==
  ASSUME RolesInv, NEW c \in s.calls, c.op # "load", NEW t, NEW r, NEW at,
         t.calls = s.calls \ {c}, t.offset = s.offset, t.disturbed = s.disturbed,
         LoadsFrom(r, t, at), ~s.disturbed => Reaches(t, at)
  PROVE  RolesReady(r)
<1>1. ASSUME ~r.disturbed
      PROVE  PageKept(r)
  <2>1. PageKept(s) /\ Reaches(t, at)
    BY <1>1 DEF LoadsFrom, RolesInv
  <2>2. t.calls = {}
    BY <2>1 DEF PageKept
  <2>3. PICK n : r.calls = t.calls \cup {n} /\ n.op = "load" /\ n.at = at /\ n.answer = "none"
    BY DEF LoadsFrom
  <2>4. r.calls = {n} /\ r.roles = t.roles
    BY <2>2, <2>3 DEF LoadsFrom
  <2> QED  BY <2>1, <2>3, <2>4 DEF PageKept, Reaches
<1> QED
  BY <1>1 DEF RolesReady, LoadsFrom

\* A role has been created or edited.
LEMMA RolesSaved ==
  ASSUME RolesInv, NEW c \in s.calls, Roles!Created(c) \/ Roles!Edited(c)
  PROVE  RolesInv'
<1> DEFINE roles == IF c.op = "create" THEN s.roles \cup {c.role} ELSE s.roles
           w == Roles!Without(c, roles)
           form == IF s.form = c.id THEN 0 ELSE s.form
           t == [w EXCEPT !.form = form]
<1>1. s \in Roles!State /\ IsFiniteSet(s.roles) /\ s.known \in SUBSET Role
      /\ s.sel \in Role \cup {None}
  BY DEF RolesInv, RolesKnown, Roles!State
<1>2. c.op \in {"create", "edit"} /\ c.at \in Nat /\ c.role \in Role
  <2>1. c.op \in {"create", "edit"}
    BY DEF Roles!Created, Roles!Edited
  <2> QED  BY <1>1, <2>1, RolesCallTypes DEF Roles!Mutations
<1>3. roles \in SUBSET Role /\ IsFiniteSet(roles)
  <2>1. IsFiniteSet(s.roles \cup {c.role})
    BY <1>1, FS_AddElement
  <2> QED  BY <1>1, <1>2, <2>1 DEF Roles!State
<1>4. /\ w \in Roles!State /\ w.form = s.form
      /\ w.roles = roles /\ w.offset = s.offset /\ w.loading = s.loading
      /\ w.deleting = s.deleting /\ w.disturbed = s.disturbed /\ w.calls = s.calls \ {c}
  BY <1>3, RolesWithout
<1>5. PICK prefer \in Role \cup {None, Current}, flow \in Roles!Flow,
           known \in SUBSET Role, at \in Nat :
        /\ Roles!Settle(Roles!Load(t, prefer, at, flow, known))
        /\ at = 0 \/ (at = c.at /\ c.op = "edit")
  <2>1. {"created", "edited"} \subseteq Roles!Flow /\ {} \in SUBSET Role
    BY DEF Roles!Flow
  <2> DEFINE Loading(prefer, flow, known, at) ==
               Roles!Settle(Roles!Load(t, prefer, at, flow, known))
  <2>2. CASE Roles!Created(c)
    <3>1. roles = s.roles \cup {c.role}
      BY <2>2 DEF Roles!Created
    <3> HIDE DEF roles
    <3>2. [Roles!Without(c, s.roles \cup {c.role}) EXCEPT !.form = IF @ = c.id THEN 0 ELSE @] = t
      BY <1>4, <3>1
    <3> HIDE DEF t
    <3>3. Loading(Current, "created", s.known, 0)
      BY <2>2, <3>2 DEF Roles!Created
    <3> HIDE DEF Loading
    <3>4. \E prefer \in Role \cup {None, Current}, flow \in Roles!Flow,
             known \in SUBSET Role, at \in Nat :
            Loading(prefer, flow, known, at) /\ at = 0
      BY <1>1, <2>1, <3>3
    <3> QED  BY <3>4 DEF Loading
  <2>3. CASE Roles!Edited(c)
    <3>1. roles = s.roles /\ c.op = "edit"
      BY <2>3 DEF Roles!Edited
    <3> HIDE DEF roles
    <3>2. [Roles!Without(c, s.roles) EXCEPT !.form = IF @ = c.id THEN 0 ELSE @] = t
      BY <1>4, <3>1
    <3> HIDE DEF t
    <3>3. Loading(s.sel, "edited", {}, c.at)
      BY <2>3, <3>2 DEF Roles!Edited
    <3> HIDE DEF Loading
    <3>4. \E prefer \in Role \cup {None, Current}, flow \in Roles!Flow,
             known \in SUBSET Role, at \in Nat :
            Loading(prefer, flow, known, at) /\ at = c.at
      BY <1>1, <1>2, <2>1, <3>3
    <3> QED  BY <3>1, <3>4 DEF Loading
  <2> QED  BY <2>2, <2>3
<1>6. c.op = "edit" => roles = s.roles
  OBVIOUS
<1> HIDE DEF w, roles
<1>7. form \in 0..FewCalls /\ form \in {0, s.form} /\ form # c.id
  <2>1. 0 \in 0..FewCalls /\ s.form \in 0..FewCalls /\ c.id # 0
    BY <1>1, BoundTypes, RolesCallTypes DEF Roles!State
  <2> QED  BY <2>1
<1> HIDE DEF form
<1>8. /\ t \in Roles!State /\ t.form = form
      /\ t.roles = roles /\ t.offset = s.offset /\ t.loading = s.loading
      /\ t.deleting = s.deleting /\ t.disturbed = s.disturbed /\ t.calls = s.calls \ {c}
  BY <1>4, <1>7 DEF Roles!State
<1> HIDE DEF t
<1>9. RolesKnown(t) /\ Roles!Free(t) # {}
  BY <1>2, <1>3, <1>7, <1>8, RolesForgets
<1>10. DeletingWaits(t)
  BY <1>2, <1>8 DEF RolesInv, DeletingWaits
<1> DEFINE r == Roles!Load(t, prefer, at, flow, known)
<1>11. LoadsFrom(r, t, at)
  BY <1>9, <1>10, RolesLoad
<1>12. ASSUME ~s.disturbed
       PROVE  Reaches(t, at)
  <2>1. CASE at = 0
    BY <2>1 DEF Reaches
  <2>2. CASE at = c.at /\ c.op = "edit"
    <3>1. PageKept(s)
      BY <1>12 DEF RolesInv
    <3>2. \A d \in s.calls : d.op # "load"
      BY <1>2, <3>1 DEF PageKept
    <3>3. Reaches(s, s.offset) /\ c.at = s.offset
      BY <3>1, <3>2 DEF PageKept
    <3> QED  BY <1>6, <1>8, <2>2, <3>3 DEF Reaches
  <2> QED  BY <1>5, <2>1, <2>2
<1> HIDE DEF r
<1>13. RolesReady(r)
  BY <1>2, <1>8, <1>11, <1>12, RolesReloads
<1> QED
  BY <1>5, <1>13, RolesSettles DEF r

\* A role has been deleted.
LEMMA RolesDeleted ==
  ASSUME RolesInv, NEW c \in s.calls, Roles!Deleted(c)
  PROVE  RolesInv'
<1> DEFINE roles == s.roles \ {c.role}
           w == Roles!Without(c, roles)
           t == [w EXCEPT !.dialog = None, !.sel = None, !.view = "idle"]
           at == Roles!OffsetAfterDelete(c)
           r == Roles!Load(t, None, at, "deleted", {})
<1>1. c.op = "delete" /\ c.role \in s.roles /\ Roles!Settle(r)
  BY DEF Roles!Deleted
<1>2. s \in Roles!State /\ IsFiniteSet(s.roles) /\ s.roles \in SUBSET Role
  BY DEF RolesInv, RolesKnown, Roles!State
<1>3. /\ roles \in SUBSET Role /\ IsFiniteSet(roles)
      /\ Cardinality(roles) = Cardinality(s.roles) - 1 /\ Cardinality(s.roles) \in Nat
  BY <1>1, <1>2, FS_RemoveElement, FS_CardinalityType
<1>4. /\ w \in Roles!State /\ w.form = s.form
      /\ w.roles = roles /\ w.offset = s.offset /\ w.loading = s.loading
      /\ w.disturbed = s.disturbed /\ w.calls = s.calls \ {c}
  BY <1>3, RolesWithout
<1> HIDE DEF w, roles
<1>5. /\ t \in Roles!State /\ t.form = s.form
      /\ t.roles = roles /\ t.offset = s.offset /\ t.loading = s.loading
      /\ t.disturbed = s.disturbed /\ t.calls = s.calls \ {c}
  BY <1>4 DEF Roles!State
<1> HIDE DEF t
<1>6. RolesKnown(t) /\ Roles!Free(t) # {}
  BY <1>1, <1>3, <1>5, RolesForgets
<1>7. c.at \in Nat /\ at = (IF ~c.last THEN c.at ELSE IF c.at < Limit THEN 0 ELSE c.at - Limit)
  BY <1>2, RolesCallTypes DEF Roles!OffsetAfterDelete
<1> HIDE DEF at
<1>8. at \in Nat
  BY <1>7, DataTypes
<1>9. LoadsFrom(r, t, at)
  <2>1. "deleted" \in Roles!Flow /\ {} \in SUBSET Role
    BY DEF Roles!Flow
  <2> QED  BY <1>6, <1>8, <2>1, RolesLoad
<1>10. ASSUME ~s.disturbed
       PROVE  Reaches(t, at)
  <2>1. PageKept(s)
    BY <1>10 DEF RolesInv
  <2>2. \A d \in s.calls : d.op # "load"
    BY <1>1, <2>1 DEF PageKept
  <2>3. /\ s.rows = Roles!PageOf(s.roles, c.at)
        /\ c.at = 0 \/ c.at < Cardinality(s.roles)
        /\ c.last <=> Cardinality(s.rows) = 1
    BY <2>1, <2>2 DEF PageKept, Reaches
  <2>4. CASE c.last
    BY <1>3, <1>5, <1>7, <2>3, <2>4, DataTypes DEF Reaches
  <2>5. CASE ~c.last /\ c.at # 0
    <3>1. c.at < Cardinality(s.roles)
      BY <2>3, <2>5
    <3>2. c.at # Cardinality(s.roles) - 1
      <4>1. s.roles \in SUBSET Nat
        BY <1>2, DataTypes
      <4> QED  BY <1>2, <1>7, <2>3, <2>5, <3>1, <4>1, PageHasRole
    <3> QED  BY <1>3, <1>5, <1>7, <2>5, <3>1, <3>2 DEF Reaches
  <2>6. CASE ~c.last /\ c.at = 0
    BY <1>7, <2>6 DEF Reaches
  <2> QED  BY <2>4, <2>5, <2>6
<1> HIDE DEF r
<1>11. RolesReady(r)
  BY <1>1, <1>5, <1>9, <1>10, RolesReloads
<1> QED
  BY <1>1, <1>11, RolesSettles

\* Every step of the roles page keeps its invariant.
LEMMA RolesStep ==
  ASSUME RolesInv, Roles!Next PROVE RolesInv'
<1>1. CASE \/ Roles!CreateButton \/ Roles!EditButton \/ Roles!CancelForm \/ Roles!CancelDelete
           \/ \E r \in Role : Roles!SelectRole(r) \/ Roles!DeleteButton(r)
  BY <1>1, RolesLooks
<1>2. CASE Roles!Refresh
  BY <1>2, RolesRefreshes
<1>3. CASE \E d \in {-Limit, Limit} : Roles!GoToPage(s.offset + d)
  BY <1>3, RolesGoesToPage
<1>4. CASE \/ \E r \in Role : Roles!SubmitCreate(r)
           \/ Roles!SubmitEdit \/ Roles!ConfirmDelete
  BY <1>4, RolesSubmits
<1>5. ASSUME NEW c \in s.calls,
             \/ \E answer \in {"ok", "failed"} : Roles!Answer(c, answer)
             \/ Roles!Loaded(c) \/ Roles!LoadFailed(c)
             \/ Roles!Created(c) \/ Roles!Edited(c) \/ Roles!NotSaved(c)
             \/ Roles!Deleted(c) \/ Roles!NotDeleted(c)
      PROVE  RolesInv'
  BY <1>5, RolesAnswers, RolesLoaded, RolesLoadFailed, RolesSaved, RolesDeleted, RolesRefused
<1> QED
  BY <1>1, <1>2, <1>3, <1>4, <1>5 DEF Roles!Next

\* The list that has settled.
LEMMA RolesProperties ==
  ASSUME RolesInv PROVE Roles!ListIsAPage /\ Roles!WaitsForCalls
<1>1. Roles!WaitsForCalls
  BY DEF RolesInv, RolesKnown, DeletingWaits, Roles!WaitsForCalls
<1>2. ASSUME ~s.disturbed, s.calls = {}
      PROVE  s.rows = Roles!PageOf(s.roles, s.offset) /\ (s.rows = {} => s.roles = {})
  <2>1. s.rows = Roles!PageOf(s.roles, s.offset) /\ Reaches(s, s.offset)
    BY <1>2 DEF RolesInv, PageKept
  <2>2. /\ s.roles \in SUBSET Nat /\ IsFiniteSet(s.roles) /\ s.offset \in Nat
    BY DataTypes DEF RolesInv, RolesKnown, Roles!State
  <2>3. CASE s.roles # {}
    <3>1. s.offset < Cardinality(s.roles)
      BY <2>1, <2>2, <2>3, FS_CardinalityType, FS_EmptySet DEF Reaches
    <3> QED  BY <2>1, <2>2, <3>1, PageHasRole
  <2> QED  BY <2>1, <2>3
<1> QED
  BY <1>1, <1>2 DEF Roles!ListIsAPage

-----------------------------------------------------------------------------
(* The parts together.                                                      *)

PagesInv ==
  \/ mounted = "search"   /\ SearchInv
  \/ mounted = "audit"    /\ AuditInv
  \/ mounted = "roles"    /\ RolesInv
  \/ mounted = "profile"  /\ ProfileInv
  \/ mounted = "panel"    /\ PanelInv
  \/ mounted = "viewport" /\ ViewportInv
  \/ mounted = "shell"    /\ ShellInv
  \/ mounted = "corner"   /\ CornerInv

\* Each part starts in its invariant.
LEMMA PagesStart ==
  ASSUME Init PROVE PagesInv
BY SearchStarts, AuditStarts, RolesStarts, ProfileStarts, PanelStarts, ViewportStarts,
   ShellStarts, CornerStarts DEF Init, PagesInv

\* Each part keeps its invariant, and nothing else moves.
LEMMA PagesStep ==
  ASSUME PagesInv, [Next]_vars PROVE PagesInv'
<1>1. CASE UNCHANGED vars
  <2>1. mounted' = mounted /\ s' = s
    BY <1>1 DEF vars
  <2>2. SearchInv => SearchInv'
    BY <2>1 DEF SearchInv, Search!TypeOK, OneSearch, Search!ResultsOfLastSearch,
         Search!DetailsOfSelected, Search!WaitsForCalls
  <2>3. AuditInv => AuditInv'
    BY <2>1 DEF AuditInv, Audit!TypeOK, OneLoad, Audit!ShowsWhatIsApplied,
         Audit!WaitsForCalls
  <2>4. RolesInv => RolesInv'
    BY <2>1 DEF RolesInv
  <2>5. ProfileInv => ProfileInv'
    BY <2>1 DEF ProfileInv, Profile!TypeOK, Profile!ProfileIsTheSavedOne,
         Profile!Drawn, Profile!FadingRowsGo, Profile!WaitsForCalls
  <2>6. PanelInv => PanelInv'
    BY <2>1 DEF PanelInv, Panel!TypeOK, Panel!ShowsWhatIsGiven, Panel!WaitsForCalls
  <2>7. ViewportInv => ViewportInv'
    BY <2>1 DEF ViewportInv, Viewport!TypeOK
  <2>8. ShellInv => ShellInv'
    BY <2>1 DEF ShellInv, Shell!TypeOK, ShellCallsNumbered, Shell!WaitsForCalls,
         OneForSession, EachReloadEarned, Ended, FreshPage, OpenPage,
         Shell!Page, Shell!AuthScreen
  <2>9. CornerInv => CornerInv'
    BY <2>1 DEF CornerInv, Corner!TypeOK, Corner!ToastsGo
  <2> QED
    BY <2>1, <2>2, <2>3, <2>4, <2>5, <2>6, <2>7, <2>8, <2>9 DEF PagesInv
<1>2. CASE Next
  BY <1>2, SearchStep, AuditStep, RolesStep, ProfileStep, PanelStep, ViewportStep, ShellStep,
     CornerStep DEF Next, PagesInv
<1> QED  BY <1>1, <1>2

\* Every part of the frontend that is mounted keeps the invariant of that part.
THEOREM PagesInvariant == Spec => []PagesInv
<1>1. Init => PagesInv
  BY PagesStart
<1>2. PagesInv /\ [Next]_vars => PagesInv'
  BY PagesStep
<1> QED  BY <1>1, <1>2, PTL DEF Spec

\* What the invariant says of the part that is mounted.
LEMMA PagesProperties ==
  ASSUME PagesInv
  PROVE  /\ TypeOK /\ ShowsWhatIsAsked /\ WaitsForCalls /\ AgreesWithServer
         /\ PutOffIsDoneOnce /\ PageOfCookie /\ NoReloadLoop
<1> USE DEF TypeOK, ShowsWhatIsAsked, WaitsForCalls, AgreesWithServer, PutOffIsDoneOnce,
            PageOfCookie, NoReloadLoop
<1>1. CASE mounted = "search" /\ SearchInv
  BY <1>1 DEF SearchInv
<1>2. CASE mounted = "audit" /\ AuditInv
  BY <1>2 DEF AuditInv
<1>3. CASE mounted = "roles" /\ RolesInv
  <2>1. Roles!TypeOK
    BY <1>3 DEF RolesInv, RolesKnown, Roles!TypeOK
  <2> QED  BY <1>3, <2>1, RolesProperties
<1>4. CASE mounted = "profile" /\ ProfileInv
  BY <1>4 DEF ProfileInv
<1>5. CASE mounted = "panel" /\ PanelInv
  BY <1>5 DEF PanelInv
<1>6. CASE mounted = "viewport" /\ ViewportInv
  <2>1. Viewport!TypeOK
    BY <1>6 DEF ViewportInv
  <2> QED  BY <1>6, <2>1, ViewportProperties
<1>7. CASE mounted = "shell" /\ ShellInv
  <2>1. Shell!TypeOK /\ Shell!WaitsForCalls
    BY <1>7 DEF ShellInv
  <2> QED  BY <1>7, <2>1, ShellProperties
<1>8. CASE mounted = "corner" /\ CornerInv
  BY <1>8 DEF CornerInv
<1> HIDE DEF TypeOK, ShowsWhatIsAsked, WaitsForCalls, AgreesWithServer, PutOffIsDoneOnce,
             PageOfCookie, NoReloadLoop
<1> QED
  BY <1>1, <1>2, <1>3, <1>4, <1>5, <1>6, <1>7, <1>8 DEF PagesInv

\* The state of every part has its type, whichever calls fail and in whatever
\* order they are answered.
THEOREM PagesTypes == Spec => []TypeOK
BY PagesInvariant, PagesProperties, PTL

\* What is shown when nothing is under way is what was asked for: an abort never
\* takes the last load with it (executeSearch, loadData, the effects on what is
\* selected, load of the audit log, the layout of the tree).
THEOREM ShowsHolds == Spec => []ShowsWhatIsAsked
BY PagesInvariant, PagesProperties, PTL

\* Spinners, disabled buttons and submitting forms wait for a call that is under
\* way, in each of the pages and in SessionGate.
THEOREM WaitsHolds == Spec => []WaitsForCalls
BY PagesInvariant, PagesProperties, PTL

\* The roles listed are a page of those there are, with a role on it if there is
\* any (handleDelete, loadRoles), and the profile is the one saved last
\* (handleSaveProfile).
THEOREM AgreesHolds == Spec => []AgreesWithServer
BY PagesInvariant, PagesProperties, PTL

\* Rows that fade go, toasts go, and the view is fitted once (handleRemove,
\* dismissToast, InitialTreeFit).
THEOREM PutOffHolds == Spec => []PutOffIsDoneOnce
BY PagesInvariant, PagesProperties, PTL

\* A page is of the user of the cookie, and its calls bear the token of that
\* session, for any number of sessions (SessionGate, buildHeaders).
THEOREM PageOfCookieHolds == Spec => []PageOfCookie
BY PagesInvariant, PagesProperties, PTL

\* The page is left once for a session that has ended, and once if there was
\* none (handleUnauthorizedResponse).
THEOREM NoReloadLoopHolds == Spec => []NoReloadLoop
BY PagesInvariant, PagesProperties, PTL

-----------------------------------------------------------------------------
(* The parts that load details implement LatestAnswer.                      *)

\* The memberships that come are those of the user selected just then.
LEMMA SearchOvertakes ==
  ASSUME SearchInv, Search!Next
  PROVE  s'.owner \in {s.owner, None} \/ (s'.owner = s.sel /\ s'.sel = s.sel)
<1>1. s \in Search!State
  BY DEF SearchInv, Search!TypeOK
<1>2. ASSUME NEW c \in s.calls, Search!DetailsLoaded(c)
      PROVE  s'.owner = s.sel /\ s'.sel = s.sel
  <2>1. c.arg = s.sel
    BY <1>2 DEF Search!DetailsLoaded, SearchInv
  <2> QED  BY <1>1, <1>2, <2>1 DEF Search!DetailsLoaded, Search!State
<1>3. ASSUME NEW payload, NEW retried, Search!ExecuteSearch(payload, retried)
      PROVE  s'.owner = None
  BY <1>1, <1>3 DEF Search!ExecuteSearch, Search!State
<1>4. ASSUME \/ Search!DismissBanner
             \/ \E u \in User : Search!SelectUser(u)
             \/ \E c \in s.calls : \/ Search!Found(c) \/ Search!DetailsFailed(c)
                                   \/ \E banner \in {"plain", "retry"} :
                                        Search!SearchFailed(c, banner)
      PROVE  s'.owner = s.owner
  <2>1. CASE Search!DismissBanner
    BY <1>1, <2>1 DEF Search!DismissBanner, Search!State
  <2>2. CASE \E u \in User : Search!SelectUser(u)
    BY <1>1, <2>2 DEF Search!SelectUser, Search!State
  <2>3. CASE \E c \in s.calls : Search!Found(c)
    BY <1>1, <2>3 DEF Search!Found, Search!State
  <2>4. CASE \E c \in s.calls : Search!DetailsFailed(c)
    BY <1>1, <2>4 DEF Search!DetailsFailed, Search!State
  <2>5. CASE \E c \in s.calls, banner \in {"plain", "retry"} : Search!SearchFailed(c, banner)
    BY <1>1, <2>5 DEF Search!SearchFailed, Search!State
  <2> QED  BY <1>4, <2>1, <2>2, <2>3, <2>4, <2>5
<1> QED
  BY <1>2, <1>3, <1>4 DEF Search!Next, Search!Submit, Search!GoToPage,
     Search!RetryLastSearch, Search!BannerRetry

\* The positions and profiles that come are those of what is given just then,
\* and no step brings both.
LEMMA PanelOvertakes ==
  ASSUME PanelInv, Panel!Next
  PROVE  \/ s'.rows \in {s.rows, None} /\ s'.profiles \in {s.profiles, None}
         \/ /\ s'.rows = s.division /\ s'.division = s.division
            /\ s'.profiles = s.profiles /\ s'.members = s.members
         \/ /\ s'.rows = s.rows /\ s'.division = s.division
            /\ s'.profiles = s.members /\ s'.members = s.members
<1>1. s \in Panel!State
  BY DEF PanelInv, Panel!TypeOK
<1>2. ASSUME NEW c \in s.calls, Panel!Loaded(c)
      PROVE  /\ s'.rows = s.division /\ s'.division = s.division
             /\ s'.profiles = s.profiles /\ s'.members = s.members
  <2>1. c.of = s.division
    BY <1>2 DEF Panel!Loaded, PanelInv
  <2> QED  BY <1>1, <1>2, <2>1 DEF Panel!Loaded, Panel!State
<1>3. ASSUME NEW c \in s.calls, Panel!ProfilesSettled(c)
      PROVE  /\ s'.rows = s.rows /\ s'.division = s.division
             /\ s'.profiles = s.members /\ s'.members = s.members
  <2>1. c.of = s.members
    BY <1>3 DEF Panel!ProfilesSettled, PanelInv
  <2> QED  BY <1>1, <1>3, <2>1 DEF Panel!ProfilesSettled, Panel!State
<1>4. ASSUME \/ \E d \in Division : Panel!ShowDivision(d)
             \/ Panel!Retry
             \/ \E p \in Position \cup {None} : Panel!GiveMembers(p)
             \/ \E c \in s.calls : Panel!LoadFailed(c)
      PROVE  s'.rows = s.rows /\ s'.profiles \in {s.profiles, None}
  <2>1. ASSUME NEW d, Panel!Load(d)
        PROVE  s'.rows = s.rows /\ s'.profiles = s.profiles
    BY <1>1, <2>1 DEF Panel!Load, Panel!State
  <2>2. CASE \E p \in Position \cup {None} : Panel!GiveMembers(p)
    BY <1>1, <2>2 DEF Panel!GiveMembers, Panel!State
  <2>3. CASE \E c \in s.calls : Panel!LoadFailed(c)
    BY <1>1, <2>3 DEF Panel!LoadFailed, Panel!State
  <2> QED  BY <1>4, <2>1, <2>2, <2>3 DEF Panel!ShowDivision, Panel!Retry
<1> QED
  BY <1>2, <1>3, <1>4 DEF Panel!Next

\* The layout that is drawn is that of the tree there is.
LEMMA ViewportOvertakes ==
  ASSUME ViewportInv, Viewport!Next
  PROVE  s'.graph \in {s.graph, None} \/ (s'.graph = s.shape /\ s'.shape = s.shape)
<1>1. s \in Viewport!State
  BY DEF ViewportInv, Viewport!TypeOK
<1>2. ASSUME NEW c \in s.calls, NEW fallback \in BOOLEAN, Viewport!Draw(c, fallback)
      PROVE  s'.graph = s.shape /\ s'.shape = s.shape
  <2> DEFINE t == [s EXCEPT !.graph = c.shape, !.fallback = fallback, !.calls = @ \ {c}]
  <2>1. c.shape = s.shape /\ c.shape \in Shape
    BY <1>1, <1>2 DEF Viewport!Draw, ViewportInv, Viewport!State
  <2>2. t \in Viewport!State /\ t.graph = s.shape /\ t.shape = s.shape
    BY <1>1, <2>1 DEF Viewport!State
  <2>3. s' = t \/ s' = [t EXCEPT !.fit = TRUE, !.frame = TRUE]
    BY <1>2 DEF Viewport!Draw, Viewport!FitOnce
  <2> HIDE DEF t
  <2> QED  BY <2>2, <2>3 DEF Viewport!State
<1>3. ASSUME NEW shape \in Shape, Viewport!Remount(shape)
      PROVE  s'.graph = None
  BY <1>3 DEF Viewport!Remount, Viewport!Mounted
<1>4. ASSUME \/ \E shape \in Shape : Viewport!Reshape(shape)
             \/ \E c \in s.calls : Viewport!Dropped(c)
             \/ Viewport!Frame \/ Viewport!Move
      PROVE  s'.graph = s.graph
  <2>1. CASE \E shape \in Shape : Viewport!Reshape(shape)
    BY <1>1, <2>1 DEF Viewport!Reshape, Viewport!State
  <2>2. CASE \E c \in s.calls : Viewport!Dropped(c)
    BY <1>1, <2>2 DEF Viewport!Dropped, Viewport!State
  <2>3. CASE Viewport!Frame \/ Viewport!Move
    BY <1>1, <2>3 DEF Viewport!Frame, Viewport!Move, Viewport!State
  <2> QED  BY <1>4, <2>1, <2>2, <2>3
<1> QED
  BY <1>2, <1>3, <1>4
  DEF Viewport!Next, Viewport!Laid, Viewport!LayoutFailed

\* What is asked for are things, or nothing.
AskedTypes == Asked \in [Slot -> User \cup Division \cup Position \cup Shape \cup {None}]

\* Only things are asked for.
LEMMA AsksForThings ==
  ASSUME PagesInv PROVE AskedTypes
<1> DEFINE T == User \cup Division \cup Position \cup Shape \cup {None}
<1>1. mounted = "search" => s.sel \in T
  BY DEF PagesInv, SearchInv, Search!TypeOK, Search!State
<1>2. mounted = "panel" => s.division \in T /\ s.members \in T
  BY DEF PagesInv, PanelInv, Panel!TypeOK, Panel!State
<1>3. mounted = "viewport" => s.shape \in T
  BY DEF PagesInv, ViewportInv, Viewport!TypeOK, Viewport!State
<1>4. None \in T
  OBVIOUS
<1> HIDE DEF T
<1>5. Asked \in [Slot -> T]
  BY <1>1, <1>2, <1>3, <1>4 DEF Asked, Slot
<1> QED  BY <1>5 DEF T, AskedTypes

\* At first nothing is shown.
LEMMA LatestStarts ==
  ASSUME Init PROVE Latest!Init
<1>1. mounted = "search" => s.owner = None
  BY DEF Init, Search!Init
<1>2. mounted = "panel" => s.rows = None /\ s.profiles = None
  BY DEF Init, Panel!Init
<1>3. mounted = "viewport" => s.graph = None
  BY DEF Init, Viewport!Init, Viewport!Mounted
<1>4. Shown = [k \in Slot |-> None]
  BY <1>1, <1>2, <1>3 DEF Shown, Slot
<1>5. Asked \in [Slot -> User \cup Division \cup Position \cup Shape \cup {None}]
  BY PagesStart, AsksForThings DEF AskedTypes
<1> QED  BY <1>4, <1>5 DEF Latest!Init

\* Each step asks, shows what is asked for, or does neither.
LEMMA LatestStep ==
  ASSUME PagesInv, AskedTypes', [Next]_vars
  PROVE  [Latest!Next]_<<Asked, Shown>>
<1>1. CASE UNCHANGED vars
  BY <1>1 DEF vars, Asked, Shown
<1>2. ASSUME mounted' = mounted, mounted \notin {"search", "panel", "viewport"}
      PROVE  UNCHANGED <<Asked, Shown>>
  BY <1>2 DEF Asked, Shown
<1>3. ASSUME \A k \in Slot : Shown'[k] \in {Shown[k], None}
      PROVE  Latest!Next
  BY <1>3 DEF AskedTypes, Latest!Next, Latest!Ask
<1>4. ASSUME NEW k \in Slot, Asked' = Asked, Shown' = [Shown EXCEPT ![k] = Asked[k]]
      PROVE  Latest!Next
  BY <1>4 DEF Latest!Next, Latest!Show
<1>5. CASE mounted = "search" /\ mounted' = mounted /\ Search!Next
  <2>1. SearchInv
    BY <1>5 DEF PagesInv
  <2>2. CASE s'.owner \in {s.owner, None}
    BY <1>3, <1>5, <2>2 DEF Shown, Slot
  <2>3. CASE s'.owner = s.sel /\ s'.sel = s.sel
    <3>1. "details" \in Slot /\ Asked' = Asked
      BY <1>5, <2>3 DEF Asked, Slot
    <3>2. Shown' = [Shown EXCEPT !["details"] = Asked["details"]]
      BY <1>5, <2>3 DEF Asked, Shown
    <3> QED  BY <1>4, <3>1, <3>2
  <2> QED  BY <1>5, <2>1, <2>2, <2>3, SearchOvertakes
<1>6. CASE mounted = "panel" /\ mounted' = mounted /\ Panel!Next
  <2>1. PanelInv
    BY <1>6 DEF PagesInv
  <2>2. CASE s'.rows \in {s.rows, None} /\ s'.profiles \in {s.profiles, None}
    BY <1>3, <1>6, <2>2 DEF Shown, Slot
  <2>3. CASE /\ s'.rows = s.division /\ s'.division = s.division
             /\ s'.profiles = s.profiles /\ s'.members = s.members
    <3>1. "positions" \in Slot /\ Asked' = Asked
      BY <1>6, <2>3 DEF Asked, Slot
    <3>2. Shown' = [Shown EXCEPT !["positions"] = Asked["positions"]]
      BY <1>6, <2>3 DEF Asked, Shown
    <3> QED  BY <1>4, <3>1, <3>2
  <2>4. CASE /\ s'.rows = s.rows /\ s'.division = s.division
             /\ s'.profiles = s.members /\ s'.members = s.members
    <3>1. "profiles" \in Slot /\ Asked' = Asked
      BY <1>6, <2>4 DEF Asked, Slot
    <3>2. Shown' = [Shown EXCEPT !["profiles"] = Asked["profiles"]]
      BY <1>6, <2>4 DEF Asked, Shown
    <3> QED  BY <1>4, <3>1, <3>2
  <2> QED  BY <1>6, <2>1, <2>2, <2>3, <2>4, PanelOvertakes
<1>7. CASE mounted = "viewport" /\ mounted' = mounted /\ Viewport!Next
  <2>1. ViewportInv
    BY <1>7 DEF PagesInv
  <2>2. CASE s'.graph \in {s.graph, None}
    BY <1>3, <1>7, <2>2 DEF Shown, Slot
  <2>3. CASE s'.graph = s.shape /\ s'.shape = s.shape
    <3>1. "tree" \in Slot /\ Asked' = Asked
      BY <1>7, <2>3 DEF Asked, Slot
    <3>2. Shown' = [Shown EXCEPT !["tree"] = Asked["tree"]]
      BY <1>7, <2>3 DEF Asked, Shown
    <3> QED  BY <1>4, <3>1, <3>2
  <2> QED  BY <1>7, <2>1, <2>2, <2>3, ViewportOvertakes
<1> QED
  BY <1>1, <1>2, <1>5, <1>6, <1>7 DEF Next

\* SearchUserDetailsPanel, PositionListPanel, PositionMembersList and
\* DivisionTreeViewport implement LatestAnswer: an answer that has been overtaken
\* is never shown, for any number of calls under way.
THEOREM ImplementsLatestAnswer == Spec => OnlyLatestAnswers
<1>1. Init => Latest!Init
  BY LatestStarts
<1>2. PagesInv => AskedTypes
  BY AsksForThings
<1>3. PagesInv /\ AskedTypes' /\ [Next]_vars => [Latest!Next]_<<Asked, Shown>>
  BY LatestStep
<1> QED
  BY <1>1, <1>2, <1>3, PagesInvariant, PTL DEF Spec, Latest!Spec, OnlyLatestAnswers

=============================================================================
