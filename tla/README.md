# activist: a TLA+ model of its core

activist keeps the structure of an organisation: a tree of divisions, positions
in them, users who hold positions, roles that give positions permissions, and a
log of who changed what. A Go server (`src/backend`) answers a React client
(`src/frontend`) from one PostgreSQL database. Its business rules are checked in
Go, on rows read by separate statements, and its guarantees under concurrency
rest on a few row locks, constraints and transactions at PostgreSQL's default
isolation level, READ COMMITTED. That is what the modules of the server are about: every request is a process,
and a step is one SQL statement (or the wait for one row of it).

The client is written in React: what is on the screen is state, and the calls it
makes are answered in any order, late, or not at all. The modules of the client
are about that: a step is one event (a click, an answer, a timer) with everything
React does before the next one. A script (`src/scripts/seed`) fills the database
for a demonstration, through the same API.

## Inventory

| component | state | operations | hard behaviours | what makes it correct |
|---|---|---|---|---|
| memberships (`transport/http/membership`, `application/membership`, `membership_repository.go`) | `memberships` rows | assign (row lock, count, check, insert), remove (check, delete) | concurrent assignments, removal against archive | `max_count` is never exceeded; an assignment only to an open position; the log does not claim memberships that are gone |
| positions (`transport/http/position`, `position_repository.go`) | `positions` rows: division, `max_count`, `is_archived` | create, archive (delete memberships, archive) | handler checks before the transaction | an archived position is empty and stays archived |
| division tree (`transport/http/division`, `application/division`, `domain/division`) | `divisions` rows: `parent_id`, `is_archived` | create, PATCH (edit and move), tree and children queries | reads and the write are separate statements, whole rows are written back | one root, no cycle, no active child under an archived parent |
| archive cascade (`division_repository.go:179`) | all three tables and the log | delete memberships, archive positions, children, root | snapshots of five statements, row locks in scan order, deadlock | the whole subtree or nothing; one entry with exact counts |
| command service (`application/eventlog/command_service.go`, `tx_manager.go`) | an open transaction | begin, mutate, insert the entry, commit, roll back | failure at every point, lost acknowledgement | a change and its entry are committed together or not at all |
| event log (`application/eventlog/eventlog.go`) | `event_log`, append-only, listed by timestamp | insert, list page by page | stamped before the write and committed after it; entries committed while a reader pages | the order listed is that of the changes; no entry twice, none skipped |
| login and limiter (`application/auth`) | users, in-memory map of failures | register, login | clock read before the lock, two critical sections, user and session in two statements | parallel attempts exceed `maxFailures` by their number at most; a block is earned and short |
| sessions (`application/auth/service.go`, `transport/http/session`) | `sessions` rows | create, look up and touch, expire, log out, log out everywhere | touches out of clock order, revocation against touch | a revoked session never comes back; use prolongs a session, within its absolute lifetime |
| roles (`transport/http/role`, `application/role`, `domain/role`) | `roles` rows | create, edit, delete | read, edit and overwrite; delete while in use | no lost edit, no dangling role |
| authorization (`application/authorization`, `domain/membership/permissions.go`) | none of its own | effective permissions of a user for a division, a user, globally | decided before the transaction that relies on it | equals the declarative definition of inherited grants |
| user profiles (`transport/http/user`) | `users` rows | view, patch | read, edit and overwrite | no lost edit |
| search (`application/search`) | none | query | none | read only |
| division explorer (`features/divisions`, `explorerReducer.ts`) | reducer, tree, members, flags, abort controller, request number | load, select, edit, create, archive, pick a position, assign | answers out of order, aborts, forms that are gone when they are answered | panel, members and tree belong together; every flag is cleared |
| position panel, tree viewport (`PositionListPanel`, `PositionMembersList`, `DivisionTreeViewport`) | rows, profiles, the graph drawn | load, lay out, fit the view | loads and layouts that are overtaken | what is shown is what is asked for |
| session gate, API client (`features/auth`, `shared/api`) | session, CSRF token, redirect flag, route | probe, login, register, logout, request, 401 | many 401 at once and late, forms submitted twice | one redirect; the page is of the cookie's session |
| search, audit, roles, profile pages | results, filters, pages, drafts, dialogs | search, page, filter, save, delete | answers out of order, handlers that wait for a load | results of the last query; the list is a page of what there is; the saved profile is shown |
| toasts (`ToastProvider`) | toasts, timers, a reference that lags | show, close, time out, remove | decisions between two renderings | every toast goes |
| demo seed (`scripts/seed/demo-seed.ts`) | what a run remembers; the database | ensure roles, divisions, users, positions, memberships | cut off anywhere and run again, lost and late calls | a run that completes leaves the demo; nothing twice |

How they interact: a page of the frontend calls the API client; the session
middleware authenticates the request and touches the session; the handler reads
what it needs, resolves permissions, calls a pure function of `application/`
to decide, and then either writes one row (division create and PATCH, roles,
profiles) or hands a closure to the command service, which runs it and the
insert of its log entry in one transaction (memberships, positions, division
archive). The script is another client of the same handlers; before its first call
it creates an administrator by SQL.

## Modules

| module | models |
|---|---|
| `Hierarchy` | the recursive SQL queries over `parent_id`: descendants, ancestors, and whether a walk ends |
| `Personnel` | assign, remove, create position, archive position, archive division, with the command service's transaction around each |
| `PositionSeats` | abstract: what the store promises about who holds which position |
| `MCPersonnel` | a small organisation for TLC |
| `Personnel_proofs` | theorems about `Personnel`: capacity and the seats; the event log |
| `DivisionTree` | create, PATCH and archive of divisions, deadlock detection |
| `MCDivisionTree` | small trees for TLC |
| `DivisionTree_proofs`, `DivisionTreeSerial_proofs` | theorems about `DivisionTree`, for any overlap and for `OneAtATime` |
| `Session` | register, login, the session middleware, logout and logout everywhere |
| `MCSession`, `Session_proofs` | an instance for TLC, theorems |
| `LoginLimiter` | the in-memory login limiter and the attempts that call it |
| `MCLoginLimiter`, `LoginLimiter_proofs` | an instance for TLC, theorems |
| `Explorer`, `MCExplorer`, `Explorer_proofs` | the division explorer with the server it calls; an instance, theorems |
| `SearchPage`, `AuditLogPage`, `RolesPage`, `ProfilePage` | the other pages |
| `PositionPanel`, `TreeViewport`, `Toasts` | parts of the screen with calls, layouts and timers of their own |
| `SessionShell` | session gate, authentication forms, API client and the browser's history |
| `LatestAnswer` | abstract: what places that show details promise about answers |
| `Pages`, `MCPages`, `Pages_proofs` | one of the parts above at a time, the refinement of `LatestAnswer`; an instance, theorems |
| `DemoSeed`, `MCDemoSeed`, `DemoSeed_proofs` | the demo script over several runs; an instance; proofs |

### Personnel

`home`, `archivedPos`, `archivedDiv`, `members` and `eventLog` are the committed
tables. A request r is at statement `pc[r]`, was asked for `arg[r]`, has read
`seen[r]` and has written, but not committed, `tx[r]`. `posLock` and `divLock`
are row locks; a membership row is locked while it is in somebody's
`tx[_].delete`.

* A `Begin...` action is the handler up to `Begin` of the transaction: its guard is
  what the handler's reads let through. Authorization is left out: the models
  are of permitted users.
* `LockPosition` waits for the row lock and reads the newest committed row, as
  `SELECT ... FOR UPDATE` does. Plain reads see the committed tables of their
  moment.
* `DELETE` and the archive `UPDATE`s are a scan and then one step per row: the scan
  takes a snapshot (`DeleteMemberships`, `ScanPositions`, `ScanChildren`); each row is
  then waited for, and its condition on that row is looked at again, which is what
  READ COMMITTED does. That a transaction may lock rows in any order covers every
  plan of the database.
* `ReadClock` is `nowFn()`, the timestamp of the entry, where each operation reads it: assign and remove
  between their checks and their writes, create in the handler, the archives after their last statement. Of
  times only the order matters, so that a reading is the newest time kept anywhere (two readings may be
  equal) or one later (`Clock`). The clock is one for all instances and does not go back.
* `InsertEvent` and `Commit` are the end of `ExecuteWithEvent`. `Commit` publishes
  the buffer at once. `eventLog` is in the order of the commits, which no column of the table records:
  the properties of the log use the timestamps and how many entries there are, never this order. A refusal, `errDivisionArchiveNoop` and `Fail` roll back. `Fail` may
  strike before any statement and the commit: an error of the database, a
  cancelled request, a dead connection, or the choice as a deadlock's victim.

The division tree is a constant here: `Personnel` is about what hangs off it.

### DivisionTree

`parent` is `Absent` for a row that does not exist and `Top` for the root.
`BeginCreate` reads the parent, `InsertDivision` inserts: two statements. PATCH is
`BeginPatch` (the row as read), `ReadParent`, `ReadAncestors`, and
`UpdateDivision`, which writes every column of the row as read. `to = None` is a PATCH
without `parent_id`. The recursive queries use `UNION ALL` and do not return on a
cycle: `ReadAncestors`, `ListSubtree` and `ScanChildren` are then disabled for good.
The cascade's statements on divisions are those of `Personnel`, over a tree that
other requests change. `WaitsFor` and `AbortVictim` are PostgreSQL's wait-for graph
and deadlock detector. With `OneAtATime` a request begins only when none is under way, or
when it and all that are under way are archives past their first reads: creations and PATCHes
then have the system to themselves.

### Session

Every statement is a transaction of its own here. A request with a session is
`Lookup` (the row as read), `Check` (the clock is read and the row judged), then
`Touch` or `Expire`, then its handler: `Served`, `Logout`, or `ScanSessions` and
`LogoutAll`, the snapshot and the effect of one UPDATE of many rows. `Register` is
`BeginRegister`, `CreateUser` and the two steps of `createSession`, `Stamp` (clock) and
`CreateSession`; `Login` joins at `Stamp`. `Fail` ends a request between any two
statements, and nothing is undone. `Service.GetSession` repeats the middleware and is
not modelled twice; the clock is that of all instances together. `ended`, and `past`
and `own` of a request, are history, for `LogoutIsFinal`. The query that deletes expired
sessions is called by nothing in the repository.

The use of a session by several requests at once is told apart by `Current(r)`: no other
request has used it since r looked it up. `UseProlongs` and `ExpiryIsJustified` are about
such requests; see "Neighbours" below for the others.

### LoginLimiter

`entries` is the map; a key without an entry has the zero entry, which is what
reading the Go map gives. Each method of the limiter is one step, under its mutex.
`Begin` reads the clock, `Allow` or `Refuse` is the check, and after the database lookup and
the password hash `Reject` (RegisterFailure), `Accept` (Reset) or `Fail` follows with the
old reading. `Restart` loses the map and the attempts. `strikes` is history: failures
since the entry was last deleted.

### Explorer

One variable for each group of `useState` and `useRef` of `DivisionExplorer` (`view` is the state of
the reducer), `calls` for what is under way, and `org` for the divisions of the server, to which
others may do something (`OtherArchive`). `loadFullTree` is `LoadTree` up to its `await` and
`TreeLoaded`, `TreeFailed` or `TreeAborted` after it; what its caller does next (`save-success`, the
success toast, the `finally` clause) is part of that step, by the call's `flow`. An abort is heard of in
a step of its own, at any time later, which covers the order of microtasks of any browser. A version counts the
changes to the divisions: `tree.v` is the one the screen shows, `acked` the last this page was told of.

### Pages

Each of the eight parts has one variable `s`, a record of its `useState` and `useRef` and of its calls;
`Pages` mounts one at a time (`INSTANCE`), since they share nothing but the API and the
session, and a page that is left loses its state. History fields (`retried`, `overlapped`, `disturbed`,
`unsure`, `moved`) exclude what the code does not guard against, which is listed under "Neighbours".

* `SearchPage` is the page and `SearchUserDetailsPanel`; a query is opaque, a payload is a query
  and a page. `Submit` and `GoToPage` have the guards of their buttons.
* `AuditLogPage`: an effect loads whenever filters or offset differ from what they were (`Settle`).
* `RolesPage`: a role is its place in the order of names. `Settle` is what the effects do after any step;
  `Continue` is the handler that waits for a load. A change that fails has been made or not (`AfterFailure`): its answer
  may be lost, after which the list counts as `disturbed`.
* `ProfilePage`: `Promise.all` of two requests is `PartLoaded` and `LoadEnds`; removing a membership starts
  a timer (`FadeOut`). A save may be made and its answer lost (`NotSaved`); the page then shows the old profile, and `unsure`
  says so until a save is answered.
* `PositionPanel`: loading positions aborts the load before; profiles are loaded with `allSettled`.
* `TreeViewport`: layouts computed in the background, drawn if not overtaken; the frame that fits the view.
* `Toasts`: queued changes, and `toastsRef`, which `Commit` (rendering and its effects) brings up to date.
* `SessionShell`: `HandleUnauthorized` is the client's answer to a 401, `Redirect` the page loaded anew, on which
  nothing is known but the cookie.

`LatestAnswer` says that an answer that has been overtaken is never shown. `Pages!Asked` and `Shown` map
the details of the search page, both lists of the position panel and the viewport to it.

### DemoSeed

`script` is where a run is and what it remembers, `call` what it waits for. `Serve` is the server,
reduced to what the script can see: names that are unique (roles, logins), seats that are taken, rows that are
archived. The bootstrap gives the script's first role its permissions, so that the script finds it as it wants
it. An organisation that was there at first has the role the script lists last, without them. `CutOff` ends a
run before any step and may leave its call under way, which `ServeLate` serves in a later run.
`requestAllowing` is `Refused`'s exception: a conflict counts as done.

## Runs

Passing runs:

| run | instance | shows |
|---|---|---|
| `personnel` | 3 requests, 2 users, 3 positions (one seat; unlimited, with both users in it; not yet created), 2 divisions, at most 3 entries, 3 times | `MaxCountRespected`, the log never overstates who holds what (`LoggedHoldersHold`), one entry per archived division (`DivisionArchivedOnce`), payload counts are what the commit changed (`CountsAreExact`), and `PositionSeats` is implemented (`SeatsSpec`) |
| `division_tree` | 2 requests, 3 divisions, empty at the start, all operations, 2 archives | `OneRoot`, `ArchivalIsLogged` |
| `division_tree_serial` | 2 requests of which only archives overlap, a chain of three and a division to create, 2 archives | the code's checks suffice then: `Acyclic`, `ArchivedAreClosed`, `ArchiveIsFinal`, and every request is answered, also after a deadlock (`RequestsEnd`) |
| `session` | 2 requests, 1 user, 2 sessions, idle 2 and absolute 3 units of time | `LogoutIsFinal` (no request that begins after a logout gets in), `RevocationIsFinal`, `LifetimeIsBounded`, use prolongs a session (`UseProlongs`), and it expires only when unused or old (`ExpiryIsJustified`) |
| `login_limiter` | 3 attempts, 2 keys, 2 failures block for 2 units | `GuessesAreBounded`, `LockoutIsEarned` |
| `explorer` | 2 divisions, one of them to be created, 2 positions, 4 calls, 3 versions | `PanelFollowsSelection`, `MembersOfNamedPosition`, `TreeNeverGoesBack`, `TreeShowsOwnChanges`, `WaitsForCalls` |
| `pages` | 2 queries of two pages and one, 2 roles on pages of one, 2 users, positions and trees, 3 divisions, 2 sessions, 2 toasts on the screen of 4, 2 or 3 calls at once | what is shown is what was asked for last (`OnlyLatestAnswers`, `ShowsWhatIsAsked`), changes are seen (`AgreesWithServer`), `WaitsForCalls`, `PutOffIsDoneOnce`, `PageOfCookie`, `NoReloadLoop` |
| `demo_seed` | 2 roles, divisions, people and positions, 3 runs | `DemoIsInPlace` after a run that completes, `NothingIsLeftTwice`, `RefusedOnlyByLateCalls` |

Runs that find what a document or a test of the repository rules out, each with a
finding in `PROJECT.json`:

| run | property | what happens |
|---|---|---|
| `archive_assign_race` | `ArchivedPositionIsVacant` | archiving deletes the memberships it sees, then waits for the position lock an assignment holds; the assignment's row survives |
| `move_cycle` | `Acyclic` | two siblings are moved below each other |
| `division_revived` | `ArchiveIsFinal` | a PATCH writes the `is_archived = false` it read before the archive |
| `toast_without_save` | `ToastMeansSaved` | a refused save returns normally, and the form announces success |

### Neighbours

The runs keep one interleaving of each kind. These are steps of the same models, reachable, and have no
run of their own:

* a position created in a division, or a child below a parent, that is archived between the handler's
  read and the insert (as `move_cycle`: a decision on what was read without a lock);
* an edit without `parent_id` that undoes a concurrent move (as `division_revived`);
* two removals of one membership that both pass the check: the second may delete no row, answers 204 and is
  logged; two archive requests of one position, which are both logged;
* a log whose last entry is wrong: a removal stamps its entry and waits, another removal and an assignment commit,
  and the first then deletes the new row. The log is listed `ORDER BY timestamp DESC`, so the assignment is its
  last entry, and the user holds nothing;
* division create and PATCH add no log entry, although `docs/RDP.md` 7.6 asks for one: `InsertDivision` and
  `UpdateDivision` leave `eventLog` alone;
* uses of a session that overlap: a touch with an older clock reading written after a newer one, and a
  request that judges the row it read before another prolonged it, and ends it;
* the explorer: "+ Подразделение" clears the members and leaves the position selected, so that after cancelling an
  empty list stands under its name; rows of the division shown before stay clickable after quick changes;
* overlapping loads of the audit log, whose last answer stays; overlapping loads of two pages of roles, which
  set the page back for each other; the banner of the search page, whose retry is enabled during a search;
* a form submitted, the tab changed and the other form submitted: the page may be of one session and the
  cookie of the other; a logout that fails and leaves the session open behind the login form;
* two runs of the demo script at once, which both look before either creates.

Hazards of parts that are not modelled: overwriting edits of roles and profiles (as `division_revived`), a
role deleted while a position is created with it (decided by the foreign key), permissions read before the
transaction that relies on them, a commit whose acknowledgement is lost, and keys of the limiter that are never
used again and stay in its map.

### Bounds

* Requests: three in `personnel`, since the deepest interleavings found are of two
  writers on one row and a third that made the row they read stale. Two elsewhere: two cascades
  are enough to wait for each other, and every counterexample of the tree takes two.
* `MaxEvents` bounds the entries, and through them the requests that ever start a
  transaction (`Start`, `BeginArchive`): in `personnel` three, of one request after the other
  or of three at once; since both users hold a position at the
  start, a membership can be removed, assigned again and archived, or removed twice around an assignment. `MaxTime` bounds the times
  `Personnel` tells apart, one for each entry. These are the only bounds in `Personnel` and `DivisionTree`; everything else
  is the size of the constants. PATCH and create of divisions are not bounded: they add no entry.
* `MaxTime` stops the clock of `Session` and `LoginLimiter`: after the absolute expiry of a
  session, and after a block and a second one. Two requests are what the session races
  take; three attempts let two be verifying when the third starts a block.
* `MaxCalls` and `MaxVersion` bound the calls ever made by `Explorer`: the first load, a change, the load that
  follows it and one more call to cross them. A change to a division keeps one call for its load.
* `MaxCalls` and `FewCalls` bound the calls under way at once in `Pages`, `MaxLayouts` the layouts, `MaxShown` and
  `MaxSessions` the toasts and sessions there ever are. Two or three at once are a call, the one that overtakes
  it, and one of another kind. Three divisions let a panel go to another division and on while loading.
* `MaxRuns` of the script: one that is cut off, one in which its late call is served, and one that
  completes after both.
* Users and requests are symmetric in `personnel`, requests in the safety runs of
  `DivisionTree`. No run with a liveness property uses symmetry.

### Fairness

Only `RequestsEnd` needs it (the client promises nothing of calls that are never answered, so that
`WaitsForCalls` is the safety half: what waits has a call to wait for), under `FairSpec` of `DivisionTree`. Weak fairness of
`AbortVictim`: the deadlock detector runs after `deadlock_timeout`. Strong fairness of
`Step(r)`: a handler's goroutine keeps running, and a waiter gets a row lock that
is released again and again, because PostgreSQL queues waiters. `Fail` has none: nothing
is promised to fail. With an idle `Quiet` step the system may rest when no request
is in flight; a deadlock of requests would still be reported.

## Proofs

`Personnel_proofs` is checked by TLAPS for any sets of requests, users, positions and
divisions, any tree, any limits, and any bounds on entries and times. The
assumptions are those named in `Personnel`: `NULL` is no identifier, users and
positions are finite, and the tables start within their limits.

* `TypeCorrect`: `Spec => []TypeOK`, by `TypeInv`, which adds `ControlInv`: at each
  statement the arguments it will use are there (an assignment has a user and a
  position, and so on).
* `CapacityHolds`: `Spec => []MaxCountRespected`.
* `ImplementsSeats`: `Spec => Seats!Spec`, an assignment taking effect at its
  `Commit`.

`MaxCountRespected` is not inductive: the insert happens after the check, and
the commit after that. `SeatInv` strengthens it with what the code relies on between
them. For each request that is past `LockPosition` (`Owner`), it owns the
position's lock; after the count (`Reader`), the count it has read is at least the number of
committed holders, because nobody else can commit an insert for this position while
the lock is held, and removals only lower the number; after the check (`Writer`), the position
is unlimited or that count is below the limit, the position is not archived (nobody
can archive it without the lock), and the buffer holds this one row at most. So a
commit adds one row to a position with a seat left. Every action of another
request keeps this because it neither owns the lock nor, by `Owner`, has a row of
this position in its insert buffer. TLC checked `SeatInv` as an invariant of
the same instance before it was proved.

The log, in the same module: `HoldersAreLogged`, `ArchivedOnceLogged` and `PayloadsAreExact`, from the same assumptions. What the
log says of the tables is broken, if at all, by what a transaction has in its buffer when it commits, so `LogInv` says of
every request (`Ledger`): the buffer has exactly the entry of the operation when it is ready to commit (`Logs`); a position
being created is new and nobody else works on it (`Creates`); the rows it deletes are rows its operation is about
(`Deletes`), and no other transaction deletes them (`DeletesAlone`, the row locks); and what a cascade archives is
locked by it and was not archived before (`Archives`). With `LoggedAreArchived` the entry of a second cascade for one division
is impossible, and with `SeatInv` nobody is assigned to what is being archived.

`LoggedHoldersHold` reads the log as it is stored. A removal can be listed before the assignment it undoes ("Neighbours"), so that
the last entry says nothing; what can be relied on is that the user was given the position more often than removed from it,
and that no archive is stamped at or after the assignment. `HoldInv` is the argument. `Balance`: entries of removals are at least as many as assignments given, or one
fewer while the user holds the position. The insert finds no row (the primary key), so that there is no second assignment before the
first was taken away, and what takes a row away is a removal, which has its entry, or an archive. After an archive the count says nothing,
and `Taken` has to: the position is archived, no assignment to it follows (`SeatInv`), and the entry of the archive is not stamped before
any assignment. For that, an archive under way keeps that the positions of the rows it deletes are archived by it or going to be
(`Closes`), and that its reading of the clock, taken after its last statement, is not before the assignments of those rows (`Dated`). An
assignment that the archive's DELETE did not see keeps its row (`archive_assign_race`), as the property wants.

`LoginLimiter_proofs`: `GuessBudget`, `LockoutEarned` and `LimiterTypes`, for any number n of
attempts, any keys and any configuration. The budget `maxFailures - 1 + n` is not
inductive: what bounds the failures after a block has begun is that nobody new passes
`Allow`, so the invariant counts the attempts in verification. `BlockIsTight` says that
strikes and those attempts together stay below `maxFailures + n` while there is a block,
`CounterIsExact` that without one the counter is the number of strikes, and
`ReadingsArePast` that no reading of the clock is in the future. A block is not taken
away by time but by an attempt that finds it over, and then `strikes` starts anew.

`Session_proofs`: `LogoutHolds`, `RevocationHolds`, `LifetimeHolds` and `SessionTypes`, for any
number of requests, users and sessions. `SessionInv` says that `ended` sessions are
revoked; that the row a request has read has the lifetime of the row in the table, and
is revoked if the session had ended before (so `Check` refuses it); that what `Check` let
through was alive by its reading; and that what `LogoutAll` has not found to revoke was
revoked already (`SweepIsComplete`). `RowsOnlyEnd`, which every step satisfies, carries these
over the steps of other requests.

Expiry, in the same module: `UseHolds` and `ExpiryHolds`, on top of `SessionInv`. The verdict and the write of a request rest on a
reading of the clock that may be long past, so `ExpiryInv` bounds both by that reading: no session lives on unused for more
than `IdleTTL` (`IdleIsNear`), the row that passed `Check` ends at most `IdleTTL` after the reading, and the one that did
not is refused by it (`JudgedByReading`). With the idle expiry within the absolute one (`SessionInv`),
`NextIdleExpiry` is then never before what the row had.

`DivisionTree_proofs`: `TreeTypes`, `AlwaysOneRoot` and `EveryArchivalIsLogged`, for any requests, divisions,
tree at the start and overlap. `OneRoot` says nothing of requests that have decided and not yet written; `TreeInv`
adds what they have in hand: a creation has an id nobody else works on and a parent that exists (`Creating`); what a PATCH will write as
`parent_id` is NULL exactly if its division is the root (`WritesRootBack`), which no step of others can change, since no
step turns a division into a root or a root into another division (`RowsStay`); and what a transaction has archived is locked
by it and not archived (`Locked`), so that its commit is the one that archives it.

`DivisionTreeSerial_proofs`: `SerialTreeIsAcyclic`, `SerialArchivedAreClosed` and `SerialArchiveIsFinal`, under the assumption
`OneAtATime`, which the runs `move_cycle` and `division_revived` show is needed. `SerialInv` says that whoever may
write a row is alone, that its checks still hold of the tables (`ChecksHold`), and that a cascade has archived, or is
going to, all that is below its division (`CascadeCovers`). The lemmas on `Descendants` (`SubtreeLeast`, `SubtreeParent`, ...)
work from its definition as a least set, without induction; `MovingIsSafe` is the argument for `ValidateMove`: were there a
cycle after a move, the new parent would have been in the subtree of what was moved. TLC checked both invariants on the instances of
the runs first.

`Explorer_proofs`: every safety property of `Explorer`, for any divisions, positions, tree and bounds. `ExplorerInv` gives `ExplorerTypes`,
`PanelHolds` and `TreeHolds`: each call is about a thing of its kind (`CallIsAbout`, without which a handler would put
a position where a division belongs), the functions of the reducer keep panel and selection together (`PanelOf`, one lemma for
each group), numbers are given once (`CallsNumbered`), all loads but the current one are aborted (`OneLoad`), and the tree is
no newer than what the current load may bring (`TreeIsBehind`). `PageInv` adds what the page waits for: the numbers it keeps are of calls of the
right kind (`HandlesInv`: an aborted call is a load, the call of `busy` is that of a form that is open), and a change the page
was told of is in the tree, or in the answer to a load under way, or a load has failed (`AckInv`). It gives `MembersHold`,
`OwnChangesHold` and `WaitsHold`. `From` says how the calls after a step come from those before it, so that each action needs
to show only what it drops and what it adds.

`Pages_proofs`: every safety property of `Pages` and the refinement of `LatestAnswer`, for any queries, roles, users,
positions, divisions, shapes and bounds (`DataTypes` and `BoundTypes` of `Pages`: the roles at the start are finitely many, the bounds on
calls and sessions are at least one). `PagesInv` is the invariant of the part that is mounted. Each is its own argument:

* `SearchInv`, `PanelInv`, `ViewportInv`, `AuditInv`: as in `Explorer_proofs`, a call that can still change what is shown is the one
  asked for last; what an effect has aborted is only ever dropped. For the viewport it also matters that no frame that would
  fit the view is left when the view has been fitted.
* `ProfileInv` ties `saving` and `loading` to one call each, and a fading row to its timer; `CornerInv` ties each toast that is closing to
  the timer that removes it, also while `toastsRef` lags.
* `ShellInv`: `PageOfCookie` needs that, unless two forms overlap, one call at most opens, looks for or ends a
  session (`OneForSession`). `NoReloadLoop` bounds all reloads by the sessions that have ended plus one; inductive is
  `EachReloadEarned`: the spare one is used up only if the page is already being left, is fresh from a 401 with its probe under way
  (`FreshPage`), or holds a session that is still open (`OpenPage`). On any of these no 401 reloads again before a session ends.
* `RolesInv`: `PageKept` says that unless disturbed one call at most is under way, which is a load of a page that has a role, or a change that knows
  the page and whether its role is the last one there. A step is a handler and then its effects (`Settle`), so lemmas on handlers end in
  `RolesReady`, what holds between the two. That there is a role on a page which begins below the number of roles is counting:
  `GreatestExists`, `PlaceIsLess` and `PlaceIsTaken` get it from the theorems on finite sets and the well-foundedness of the order.
* `ImplementsLatestAnswer`: each step of the four parts with details asks, shows what is asked for, or stutters; all other parts
  stutter.

TLC checked all the invariants on the instance of `pages` first.

`DemoSeed_proofs`: every property of `DemoSeed`, for any lists of the script and any number of runs. Two assumptions are about
the lists, as those in `demo-seed.ts` are: parents come before their children and an assignment names a person and a division of the
script (`ScriptAssumption`); the temporary group has names of its own, and no two people are assigned to one title in one division
(`NamesAreApart`, lines 225-240 and 646-653 of the script).

* `SeedInv` gives `SeedTypes`, `DemoHolds` and `RefusalHolds`. A late call may be served at any point of a later run, so the argument is
  about what no request undoes (`Grows`): rows stay, and a membership of a position that is not the temporary one stays. What a run
  remembers (`Remembers`), has ensured (`Reached`), waits for (`Asks`) and was told (`Answered`) speaks of such things only, and
  one lemma for each carries it over any request of any run that makes sense (`Sound`, `EffectKeeps`). `TablesInv` adds that only what is
  temporary is ever archived, and that a position has no member but the one it is meant for; so an assignment
  finds its position vacant or held by its own person, and 422 is never answered (`NeverFull`). The one conflict the script does not
  allow is a role that appears between the look and the create: `RoleIsNew`, until a late call disturbs it.
* `CountInv` gives `LeftOnceHolds`. `NothingIsLeftTwice` says nothing of the moment between the look and the create, when a place has to
  be kept free: `OneOfEach` counts the rows of a name against the creates that were cut off and are no longer on their way, and one
  more unless the run is about to create it (`Creating`). `TempsAccounted` counts open temporary groups, those a late call
  may still open, and one for a run under way whose own is not open (`Credit`), against the runs that did not complete;
  `ArchivedAtTheEnd` is what the last step needs. Each request adds one row at most, so the rest is the cardinality of a set with
  one element added or removed.

TLC checked both on the instance of `demo_seed` first. The proof showed that two arms of `AnswerTo` overlapped, in which TLC takes the
first; the second now excludes the first.

Only model-checked: liveness (`RequestsEnd`), since temporal reasoning about fairness and ENABLED is beyond the prover; and the four runs
that find a violation. Every other property of a passing run is stated by a theorem.

## Not modelled

* Authorization (a permitted user throughout), roles and profiles on the server: one read and one statement
  each, whose races are of the kinds above. Search and the listing of the event log only read.
* The texts of entities, validation of request bodies, formatting, CORS and configuration; in the client what is
  typed in forms, layout and styling, the level of detail of the tree, and wording of errors. `ProfileForm.tsx`
  is used by nothing.
* Isolation levels other than the one the code uses. In `Personnel` a row `FOR KEY SHARE` lock taken by a foreign
  key is left out: it conflicts with no statement modelled.
* Several tabs of a browser with one cookie, and two runs of the script at once.

## Plan

Done: `Personnel`, `PositionSeats`, `DivisionTree`, `Hierarchy`, `LoginLimiter` and `Session`; the client
(`Explorer`, `Pages` and its parts, `LatestAnswer`) and `DemoSeed`; the proofs above.

Left: `RequestsEnd`, which stays with TLC, and what is listed under "Not modelled". Further theorems worth stating are the ones
under which the violated properties do hold, as `DivisionTreeSerial_proofs` does for those of the tree: an archived position
without members when assignments and archivals do not overlap, and a log whose last entry is right when no two removals of
one membership do.
