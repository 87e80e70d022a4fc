-------------------------------- MODULE Pages --------------------------------
(***************************************************************************)
(* The parts of the frontend of which one is on the screen at a time, or   *)
(* which have no state in common: each is mounted, and runs by itself.     *)
(* What a part does after it is unmounted is nothing: React drops it.      *)
(***************************************************************************)
EXTENDS Integers, FiniteSets

CONSTANTS
  Query, NoFilter, PagesOf,            \* of SearchPage and AuditLogPage
  User, Division, Position, Shape,     \* what is shown in details
  Role, InitialRoles, Limit, Current,  \* of RolesPage
  Value, Valid, InitialValue,          \* of ProfilePage
  Path, AuthRoute, Route, MaxSessions, \* of SessionShell
  MaxToasts, MaxShown,                 \* of Toasts
  None,                                \* null
  MaxCalls, FewCalls                   \* bounds: calls under way at one time

ASSUME DataTypes ==
  /\ NoFilter \in Query /\ PagesOf \in [Query -> Nat]
  /\ Role \subseteq Nat /\ InitialRoles \subseteq Role /\ IsFiniteSet(InitialRoles)
  /\ Limit \in Nat \ {0}
  /\ InitialValue \in Valid /\ Valid \subseteq Value
  /\ AuthRoute \in Route /\ Route \subseteq Path
  /\ MaxToasts \in Nat \ {0}
ASSUME NoneIsNothing ==
  /\ None \notin Query \cup User \cup Division \cup Position \cup Shape \cup Value \cup Role
  /\ Current \notin Role \cup {None}
ASSUME BoundTypes ==
  {MaxCalls, FewCalls, MaxSessions} \subseteq Nat \ {0} /\ MaxShown \in Nat

VARIABLES
  mounted,  \* the part that is mounted
  s         \* its state

vars == <<mounted, s>>

Search   == INSTANCE SearchPage
Audit    == INSTANCE AuditLogPage WITH Filter <- Query, EntriesOf <- PagesOf
Roles    == INSTANCE RolesPage WITH Initial <- InitialRoles, MaxCalls <- FewCalls
Profile  == INSTANCE ProfilePage WITH Initial <- InitialValue
Panel    == INSTANCE PositionPanel
Viewport == INSTANCE TreeViewport WITH MaxLayouts <- MaxCalls
Shell    == INSTANCE SessionShell WITH MaxCalls <- FewCalls
Corner   == INSTANCE Toasts

Init ==
  \/ mounted = "search"   /\ Search!Init
  \/ mounted = "audit"    /\ Audit!Init
  \/ mounted = "roles"    /\ Roles!Init
  \/ mounted = "profile"  /\ Profile!Init
  \/ mounted = "panel"    /\ Panel!Init
  \/ mounted = "viewport" /\ Viewport!Init
  \/ mounted = "shell"    /\ Shell!Init
  \/ mounted = "corner"   /\ Corner!Init

Next ==
  /\ UNCHANGED mounted
  /\ \/ mounted = "search"   /\ Search!Next
     \/ mounted = "audit"    /\ Audit!Next
     \/ mounted = "roles"    /\ Roles!Next
     \/ mounted = "profile"  /\ Profile!Next
     \/ mounted = "panel"    /\ Panel!Next
     \/ mounted = "viewport" /\ Viewport!Next
     \/ mounted = "shell"    /\ Shell!Next
     \/ mounted = "corner"   /\ Corner!Next

Spec == Init /\ [][Next]_vars

-----------------------------------------------------------------------------
(* The parts that load details implement LatestAnswer.                      *)

Slot == {"details", "positions", "profiles", "tree"}

Asked ==
  [details   |-> IF mounted = "search" THEN s.sel ELSE None,
   positions |-> IF mounted = "panel" THEN s.division ELSE None,
   profiles  |-> IF mounted = "panel" THEN s.members ELSE None,
   tree      |-> IF mounted = "viewport" THEN s.shape ELSE None]

Shown ==
  [details   |-> IF mounted = "search" THEN s.owner ELSE None,
   positions |-> IF mounted = "panel" THEN s.rows ELSE None,
   profiles  |-> IF mounted = "panel" THEN s.profiles ELSE None,
   tree      |-> IF mounted = "viewport" THEN s.graph ELSE None]

Latest == INSTANCE LatestAnswer WITH
            Thing <- User \cup Division \cup Position \cup Shape,
            Nothing <- None, asked <- Asked, shown <- Shown

\* An answer that a later selection, division, position or tree has overtaken
\* is never shown, in the order of answers and aborts that suits it worst
\* (SearchUserDetailsPanel, PositionListPanel, PositionMembersList and
\* DivisionTreeViewport implement LatestAnswer).
OnlyLatestAnswers == Latest!Spec

\* Once nothing is under way and nothing has failed, what is shown is what is
\* asked for: in the same four no abort has taken the last load with it; the
\* search page shows the results of its last search (executeSearch), and the
\* audit log the filters applied at the page its footer names (load).
ShowsWhatIsAsked ==
  /\ mounted = "search" => Search!DetailsOfSelected /\ Search!ResultsOfLastSearch
  /\ mounted = "panel" => Panel!ShowsWhatIsGiven
  /\ mounted = "viewport" => Viewport!DrawsTheTree
  /\ mounted = "audit" => Audit!ShowsWhatIsApplied

-----------------------------------------------------------------------------
(* The properties of the parts.                                             *)

TypeOK ==
  CASE mounted = "search"   -> Search!TypeOK
    [] mounted = "audit"    -> Audit!TypeOK
    [] mounted = "roles"    -> Roles!TypeOK
    [] mounted = "profile"  -> Profile!TypeOK
    [] mounted = "panel"    -> Panel!TypeOK
    [] mounted = "viewport" -> Viewport!TypeOK
    [] mounted = "shell"    -> Shell!TypeOK
    [] mounted = "corner"   -> Corner!TypeOK

\* Spinners, disabled buttons and submitting forms (isLoading, isDeleting,
\* isSaving, isSubmitting, isBootstrapping, isLoggingOut) wait for a call
\* that is under way, whichever calls fail or are aborted.
WaitsForCalls ==
  /\ mounted = "search"  => Search!WaitsForCalls
  /\ mounted = "audit"   => Audit!WaitsForCalls
  /\ mounted = "roles"   => Roles!WaitsForCalls
  /\ mounted = "profile" => Profile!WaitsForCalls
  /\ mounted = "panel"   => Panel!WaitsForCalls
  /\ mounted = "shell"   => Shell!WaitsForCalls

\* Changes that are made on a page, and answered, are seen on it: the roles
\* listed are a page of those there are, also when the last of a page is deleted
\* (handleDelete, loadRoles), and the profile is the one saved last
\* (handleSaveProfile).
AgreesWithServer ==
  /\ mounted = "roles" => Roles!ListIsAPage
  /\ mounted = "profile" => Profile!ProfileIsTheSavedOne

\* What is put off to a timer or a frame is done, and done once: a row that
\* fades goes (handleRemove), every toast goes (showToast, dismissToast), and
\* the view is not fitted again while it is mounted (InitialTreeFit).
PutOffIsDoneOnce ==
  /\ mounted = "profile" => Profile!FadingRowsGo
  /\ mounted = "corner" => Corner!ToastsGo
  /\ mounted = "viewport" => Viewport!FittedOnce

\* What a page asks for goes by the session it is of (SessionGate).
PageOfCookie == mounted = "shell" => Shell!PageOfCookie

\* No 401 makes the page reload for ever (handleUnauthorizedResponse).
NoReloadLoop == mounted = "shell" => Shell!NoReloadLoop

=============================================================================
