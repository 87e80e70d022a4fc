----------------------------- MODULE AuditLogPage -----------------------------
(***************************************************************************)
(* The audit log: its filters, its pages and the loads that follow them.   *)
(* An effect loads whenever the query changes; no load is aborted, and     *)
(* nothing but the first screen waits for one.                             *)
(***************************************************************************)
EXTENDS Integers

CONSTANTS
  Filter,   \* what the filters may hold, trimmed
  NoFilter, \* DEFAULT_FILTERS
  EntriesOf,\* filter -> number of pages of entries
  None,     \* null
  MaxCalls  \* bound: calls under way at one time

VARIABLE s  \* the state of AuditLogPage

PageQuery == Filter \X Nat

\* items: the query the items are the answer to.  overlapped is history: a
\* load began while another was under way.
State == [draft : Filter, applied : Filter, offset : Nat,
          items : PageQuery \cup {None}, total : Nat, loaded : BOOLEAN,
          loading : BOOLEAN, error : BOOLEAN, overlapped : BOOLEAN,
          calls : SUBSET [id : 1..MaxCalls, query : PageQuery]]

TypeOK == s \in State

Init ==
  s = [draft |-> NoFilter, applied |-> NoFilter, offset |-> 0, items |-> None,
       total |-> 0, loaded |-> FALSE, loading |-> TRUE, error |-> FALSE,
       overlapped |-> FALSE, calls |-> {[id |-> 1, query |-> <<NoFilter, 0>>]}]

-----------------------------------------------------------------------------

Free == {n \in 1..MaxCalls : \A c \in s.calls : c.id # n}

\* load, in the state t a click has made of s.
Load(t) ==
  /\ Free # {}
  /\ s' = [t EXCEPT !.loading = TRUE, !.error = FALSE,
                    !.overlapped = @ \/ s.calls # {},
                    !.calls = @ \cup {[id |-> CHOOSE n \in Free : \A m \in Free : n <= m,
                                       query |-> <<t.applied, t.offset>>]}]

\* Mutant: the offset is forgotten among the dependencies of the effect.
SettleOnFilters(t) == IF t.applied = s.applied THEN s' = t ELSE Load(t)

\* The effect runs if the query string is another one.
Settle(t) ==
  IF t.applied = s.applied /\ t.offset = s.offset THEN s' = t ELSE Load(t)

UpdateDraft(f) == f # s.draft /\ s' = [s EXCEPT !.draft = f]

SubmitFilters == Settle([s EXCEPT !.offset = 0, !.applied = s.draft])

ResetFilters ==
  /\ s.draft # NoFilter
  /\ Settle([s EXCEPT !.draft = NoFilter, !.applied = NoFilter, !.offset = 0])

Previous == s.offset > 0 /\ Settle([s EXCEPT !.offset = @ - 1])

Following == s.offset + 1 < s.total /\ Settle([s EXCEPT !.offset = @ + 1])

NoRows == s.items = None \/ s.items[2] >= s.total

\* The button is on the first screen, or in place of an empty table.
Retry ==
  /\ s.error
  /\ IF s.loaded THEN NoRows ELSE ~s.loading
  /\ Load(s)

Loaded(c) ==
  s' = [s EXCEPT !.items = c.query, !.total = EntriesOf[c.query[1]], !.loaded = TRUE,
                 !.loading = FALSE, !.calls = @ \ {c}]

LoadFailed(c) == s' = [s EXCEPT !.error = TRUE, !.loading = FALSE, !.calls = @ \ {c}]

Next ==
  \/ \E f \in Filter : UpdateDraft(f)
  \/ SubmitFilters \/ ResetFilters \/ Previous \/ Following \/ Retry
  \/ \E c \in s.calls : Loaded(c) \/ LoadFailed(c)

-----------------------------------------------------------------------------
(* Properties.                                                              *)

\* Unless loads have overlapped, the page that has settled without an error
\* shows the entries of the filters applied, at the page its footer names.
ShowsWhatIsApplied ==
  ~s.overlapped /\ s.calls = {} /\ ~s.error => s.items = <<s.applied, s.offset>>

\* The page never waits for a load that has ended.
WaitsForCalls == s.loading => s.calls # {}

=============================================================================
