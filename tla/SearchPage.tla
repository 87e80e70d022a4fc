------------------------------ MODULE SearchPage ------------------------------
(***************************************************************************)
(* The search for users and the details of the user selected in its        *)
(* results.  A search is not aborted by a later one: buttons are disabled   *)
(* while it runs, except the one of the banner above the page.  The load of *)
(* the details is aborted when the selection changes, and its finally       *)
(* clause runs before anything else does.                                   *)
(*                                                                         *)
(* A query stands for the fields of the form as submitted, a page number   *)
(* for the offset; the details are the memberships of a user.              *)
(***************************************************************************)
EXTENDS Integers

CONSTANTS
  Query,    \* what the form may ask for
  PagesOf,  \* query -> number of pages it finds; 0: it finds nobody
  User,     \* users found
  None,     \* null
  MaxCalls  \* bound: calls under way at one time

VARIABLE s  \* the state of SearchPage and SearchUserDetailsPanel

Payload == Query \X Nat

Call == [id : 1..MaxCalls, op : {"search"}, arg : Payload]
          \cup [id : 1..MaxCalls, op : {"details"}, arg : User]

\* last: lastPayloadRef.  items: the payload the items are the answer to.
\* owner: membershipsUserId.  busy, failed: isLoading and errorMessage of the
\* details.  retried is history: the banner's button was used during a search.
State == [last : Payload \cup {None}, items : Payload \cup {None}, total : Nat,
          offset : Nat, loading : BOOLEAN, error : BOOLEAN,
          banner : {"none", "plain", "retry"}, sel : User \cup {None},
          owner : User \cup {None}, busy : BOOLEAN, failed : BOOLEAN,
          retried : BOOLEAN, calls : SUBSET Call]

TypeOK == s \in State

Init ==
  s = [last |-> None, items |-> None, total |-> 0, offset |-> 0, loading |-> FALSE,
       error |-> FALSE, banner |-> "none", sel |-> None, owner |-> None,
       busy |-> FALSE, failed |-> FALSE, retried |-> FALSE, calls |-> {}]

-----------------------------------------------------------------------------

Free == {n \in 1..MaxCalls : \A c \in s.calls : c.id # n}

NewCall(op, arg) ==
  [id |-> CHOOSE n \in Free : \A m \in Free : n <= m, op |-> op, arg |-> arg]

\* Mutant: the effect of the details has no clean-up.
KeepDetails(C) == C

AbortDetails(C) == {c \in C : c.op # "details"}

DetailsRun == \E c \in s.calls : c.op = "details"

\* executeSearch up to its await, and the effect of the lost selection.
ExecuteSearch(payload, retried) ==
  /\ Free # {}
  /\ s' = [s EXCEPT !.last = payload, !.loading = TRUE, !.error = FALSE,
                    !.sel = None, !.owner = None, !.busy = FALSE, !.failed = FALSE,
                    !.retried = @ \/ retried,
                    !.calls = AbortDetails(@) \cup {NewCall("search", payload)}]

\* Mutant: the button is not disabled.
SubmitAtAnyTime(q) == ExecuteSearch(<<q, 0>>, FALSE)

Submit(q) == ~s.loading /\ ExecuteSearch(<<q, 0>>, FALSE)

\* Mutant: the button for the previous page is there on the first one.
GoToPageBeforeFirst(o) ==
  /\ s.last # None /\ ~s.loading
  /\ o < s.total
  /\ ExecuteSearch(<<s.last[1], o>>, FALSE)

GoToPage(o) ==
  /\ s.last # None /\ ~s.loading
  /\ IF o < s.offset THEN o >= 0 ELSE o < s.total
  /\ ExecuteSearch(<<s.last[1], o>>, FALSE)

RetryLastSearch == s.error /\ ExecuteSearch(s.last, FALSE)

\* The banner outlives the start of another search.
BannerRetry == s.banner = "retry" /\ ExecuteSearch(s.last, s.loading)

DismissBanner == s.banner # "none" /\ s' = [s EXCEPT !.banner = "none"]

\* Results are shown; clicks do not reach them while they are refreshed.  The
\* finally clause of a load that is aborted clears the flag of the new one.
SelectUser(u) ==
  /\ s.items # None /\ s.total > 0 /\ ~s.error /\ ~s.loading
  /\ u # s.sel
  /\ Free # {}
  /\ s' = [s EXCEPT !.sel = u, !.busy = ~DetailsRun, !.failed = FALSE,
                    !.calls = AbortDetails(@) \cup {NewCall("details", u)}]

-----------------------------------------------------------------------------

Done(c) == s.calls \ {c}

Found(c) ==
  /\ c.op = "search"
  /\ s' = [s EXCEPT !.banner = "none", !.items = c.arg, !.total = PagesOf[c.arg[1]],
                    !.offset = c.arg[2], !.loading = FALSE, !.calls = Done(c)]

SearchFailed(c, banner) ==
  /\ c.op = "search"
  /\ s' = [s EXCEPT !.banner = banner, !.items = None, !.total = 0, !.error = TRUE,
                    !.loading = FALSE, !.calls = Done(c)]

DetailsLoaded(c) ==
  /\ c.op = "details"
  /\ s' = [s EXCEPT !.owner = c.arg, !.busy = FALSE, !.calls = Done(c)]

\* The memberships of the user selected before stay.
DetailsFailed(c) ==
  /\ c.op = "details"
  /\ s' = [s EXCEPT !.failed = TRUE, !.busy = FALSE, !.calls = Done(c)]

Next ==
  \/ \E q \in Query : Submit(q)
  \/ \E d \in {-1, 1} : GoToPage(s.offset + d)
  \/ RetryLastSearch \/ BannerRetry \/ DismissBanner
  \/ \E u \in User : SelectUser(u)
  \/ \E c \in s.calls :
       \/ Found(c) \/ \E banner \in {"plain", "retry"} : SearchFailed(c, banner)
       \/ DetailsLoaded(c) \/ DetailsFailed(c)

-----------------------------------------------------------------------------
(* Properties.                                                              *)

\* Unless the banner's button was used during a search, what is shown when
\* the page has settled is the answer to the last search, at its page.
ResultsOfLastSearch ==
  ~s.retried /\ ~s.loading /\ s.last # None /\ ~s.error
    => s.items = s.last /\ s.offset = s.last[2]

\* When no load is under way and none has failed, the memberships shown are
\* those of the selected user, whichever loads were aborted before.
DetailsOfSelected ==
  s.sel # None /\ ~s.failed /\ (\A c \in s.calls : c.op # "details") => s.owner = s.sel

\* The page never waits for a call that has ended.
WaitsForCalls ==
  /\ s.loading => \E c \in s.calls : c.op = "search"
  /\ s.busy => \E c \in s.calls : c.op = "details"

=============================================================================
