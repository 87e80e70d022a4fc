----------------------------- MODULE SessionShell -----------------------------
(***************************************************************************)
(* The session as the frontend knows it: SessionGate with its probe of the *)
(* session, the forms of AuthScreen, logging out, the CSRF token kept by   *)
(* the API client, and its answer to a 401, which loads the page anew.     *)
(*                                                                         *)
(* A session stands for its user, its cookie and its CSRF token; 0 is none *)
(* of them.  The server may end a session at any time.  What the pages ask *)
(* for is a "load" (GET) or a "save".  There is one tab.                   *)
(***************************************************************************)
EXTENDS Integers, FiniteSets

CONSTANTS
  Path,        \* window.location.pathname
  AuthRoute,   \* AUTH_ROUTE_PATH
  Route,       \* the paths that navigate pushes
  MaxSessions, \* bound: sessions ever opened
  MaxCalls     \* bound: calls under way at one time

VARIABLE s  \* the state of SessionGate, AuthScreen and the client, and the sessions

Session == 1..MaxSessions
Maybe   == 0..MaxSessions

\* cookie and token as they were sent; open: the session was open then.
Call == [id : 1..MaxCalls, op : {"probe", "login", "register", "logout", "load", "save"},
         cookie : Maybe, token : Maybe, open : BOOLEAN]

\* past: paths of the entries of the history that this document has made.
\* user: of the session that the last probe has found.  form: the call of the
\* form on the screen, or 0.  opened, open: number of sessions ever opened, and
\* those not ended.  redirects and overlapped are history: pages left because
\* of a 401; a form was submitted while another call for a session was under way.
State == [path : Path, past : SUBSET Path,
          status : {"loading", "anonymous", "authenticated"}, user : Maybe,
          booting : BOOLEAN, leaving : BOOLEAN, csrf : Maybe, redirecting : BOOLEAN,
          tab : {"login", "register"}, form : 0..MaxCalls, cookie : Maybe,
          opened : Maybe, open : SUBSET Session, redirects : 0..(MaxSessions + 2),
          overlapped : BOOLEAN, calls : SUBSET Call]

TypeOK == s \in State

-----------------------------------------------------------------------------

Free(t) == {n \in 1..MaxCalls : \A c \in t.calls : c.id # n}
NewId(t) == CHOOSE n \in Free(t) : \A m \in Free(t) : n <= m

\* request, up to its await; buildHeaders adds the token there is.
Send(t, op) ==
  [t EXCEPT !.calls = @ \cup {[id |-> NewId(t), op |-> op, cookie |-> t.cookie,
                               token |-> t.csrf, open |-> t.cookie \in t.open]}]

\* bootstrapSession; the spinner takes the place of a form.
Bootstrap(t) == Send([t EXCEPT !.booting = TRUE, !.form = 0], "probe")

\* A page loaded at p knows nothing but its cookie.
Load(p, cookie, opened, open, redirects, overlapped) ==
  Bootstrap([path |-> p, past |-> {p}, status |-> "loading", user |-> 0, booting |-> TRUE,
             leaving |-> FALSE, csrf |-> 0, redirecting |-> FALSE, tab |-> "login",
             form |-> 0, cookie |-> cookie, opened |-> opened, open |-> open,
             redirects |-> redirects, overlapped |-> overlapped, calls |-> {}])

Init == \E p \in Path, n \in {0, 1} : s = Load(p, n, n, IF n = 0 THEN {} ELSE {1}, 0, FALSE)

\* The browser loads AuthRoute; what was under way is lost.
Redirect ==
  /\ s.redirecting
  /\ s' = Load(AuthRoute, s.cookie, s.opened, s.open, s.redirects, FALSE)

-----------------------------------------------------------------------------
(* Clicks.                                                                  *)

AuthScreen == s.status = "anonymous" /\ ~s.booting
Page == s.status = "authenticated" /\ ~s.booting

Navigate(p) == Page /\ p # s.path /\ s' = [s EXCEPT !.path = p, !.past = @ \cup {p}]

\* The back button.
PopState(p) == p \in s.past \ {s.path} /\ s' = [s EXCEPT !.path = p]

\* The other form is mounted, and this one forgets that it is submitting.
SwitchTab ==
  /\ AuthScreen
  /\ s' = [s EXCEPT !.tab = IF @ = "login" THEN "register" ELSE "login", !.form = 0]

SubmitForm ==
  /\ AuthScreen /\ s.form = 0 /\ Free(s) # {}
  /\ s' = [Send(s, s.tab) EXCEPT
             !.form = NewId(s),
             !.overlapped = @ \/ \E c \in s.calls : c.op \in {"probe", "login", "register", "logout"}]

\* A page makes a call.
PageCalls(op) == Page /\ Free(s) # {} /\ s' = Send(s, op)

LogoutButton ==
  /\ Page /\ ~s.leaving /\ Free(s) # {}
  /\ s' = [Send(s, "logout") EXCEPT !.leaving = TRUE]

-----------------------------------------------------------------------------
(* Answers.                                                                 *)

Without(c) == [s EXCEPT !.calls = @ \ {c}]

\* What the middleware makes of a call.
Accepted(c) == c.open /\ (c.op \in {"save", "logout"} => c.token = c.cookie)
Unauthorized(c) == c.cookie \notin s.open \/ (c.op \in {"save", "logout"} /\ c.token = 0)

\* Mutant: a probe loads the page anew like any other call.
UnauthorizedAlways(t, op) ==
  LET u == [t EXCEPT !.csrf = 0] IN
  IF t.redirecting THEN u
  ELSE [u EXCEPT !.redirecting = TRUE,
                 !.redirects = IF @ < MaxSessions + 2 THEN @ + 1 ELSE @]

\* Mutant: on AuthRoute no call loads the page anew.
UnauthorizedOnAuthRoute(t, op) ==
  LET u == [t EXCEPT !.csrf = 0] IN
  IF t.path = AuthRoute \/ t.redirecting THEN u
  ELSE [u EXCEPT !.redirecting = TRUE,
                 !.redirects = IF @ < MaxSessions + 2 THEN @ + 1 ELSE @]

\* handleUnauthorizedResponse.
HandleUnauthorized(t, op) ==
  LET u == [t EXCEPT !.csrf = 0] IN
  IF (op = "probe" /\ t.path = AuthRoute) \/ t.redirecting THEN u
  ELSE [u EXCEPT !.redirecting = TRUE,
                 !.redirects = IF @ < MaxSessions + 2 THEN @ + 1 ELSE @]

ProbeOk(c) ==
  /\ c.op = "probe" /\ Accepted(c)
  /\ s' = [Without(c) EXCEPT !.csrf = c.cookie, !.user = c.cookie,
                             !.status = "authenticated", !.booting = FALSE]

Anonymous(t) == [t EXCEPT !.csrf = 0, !.status = "anonymous", !.user = 0]

NoSession(t) == [Anonymous(t) EXCEPT !.booting = FALSE]

ProbeRefused(c) ==
  /\ c.op = "probe"
  /\ \/ Unauthorized(c) /\ s' = NoSession(HandleUnauthorized(Without(c), "probe"))
     \/ s' = NoSession(Without(c))

\* A login or a registration: the answer brings the cookie of a new session.
SignedIn(c) ==
  /\ c.op \in {"login", "register"} /\ s.opened < MaxSessions
  /\ LET n == s.opened + 1 IN
       s' = Bootstrap([Without(c) EXCEPT !.opened = n, !.open = @ \cup {n}, !.cookie = n])

\* The refusal of a login is a 401 too, of which the client takes no notice.
NotSignedIn(c) ==
  /\ c.op \in {"login", "register"}
  /\ s' = [Without(c) EXCEPT !.form = IF @ = c.id THEN 0 ELSE @]

\* The finally clause of handleLogout.
Left(t) == [Anonymous(t) EXCEPT !.leaving = FALSE]

LoggedOut(c) ==
  /\ c.op = "logout" /\ Accepted(c)
  /\ s' = Left([Without(c) EXCEPT !.open = @ \ {c.cookie}, !.cookie = 0])

\* Refused or lost; a call that was lost may have ended the session.
NotLoggedOut(c) ==
  /\ c.op = "logout"
  /\ \/ Unauthorized(c) /\ s' = Left(HandleUnauthorized(Without(c), "logout"))
     \/ s' = Left(Without(c))

\* A page has its answer, a 401 or not.
PageAnswered(c) ==
  /\ c.op \in {"load", "save"}
  /\ \/ Unauthorized(c) /\ s' = HandleUnauthorized(Without(c), c.op)
     \/ s' = Without(c)

\* A session times out, or is ended from elsewhere.
EndSession(n) == n \in s.open /\ s' = [s EXCEPT !.open = @ \ {n}]

Next ==
  \/ Redirect
  \/ \E p \in Route : Navigate(p)
  \/ \E p \in Path : PopState(p)
  \/ SwitchTab \/ SubmitForm \/ LogoutButton
  \/ \E op \in {"load", "save"} : PageCalls(op)
  \/ \E c \in s.calls :
       \/ ProbeOk(c) \/ ProbeRefused(c) \/ SignedIn(c) \/ NotSignedIn(c)
       \/ LoggedOut(c) \/ NotLoggedOut(c) \/ PageAnswered(c)
  \/ \E n \in Session : EndSession(n)

-----------------------------------------------------------------------------
(* Properties.                                                              *)

\* Unless two forms have been submitted at once, a page on the screen that is
\* not about to be left is of the user of the cookie, and its calls bear the
\* token of that session: a 401 that comes late, for a call made before a
\* logout, never leaves a page that can load but cannot save.
PageOfCookie ==
  Page /\ ~s.redirecting /\ ~s.overlapped => s.user = s.cookie /\ s.csrf = s.cookie

\* The page is loaded anew once for a session that has ended, and once if it
\* was opened without one: no 401 makes it reload for ever.
NoReloadLoop == s.redirects <= s.opened - Cardinality(s.open) + 1

\* The spinner, the form and the button for logging out wait for calls.
WaitsForCalls ==
  /\ s.booting => \E c \in s.calls : c.op = "probe"
  /\ s.leaving => \E c \in s.calls : c.op = "logout"
  /\ s.form # 0 => \E c \in s.calls : c.id = s.form

=============================================================================
