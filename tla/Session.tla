-------------------------------- MODULE Session --------------------------------
(***************************************************************************)
(* Accounts and sessions of the activist backend.  A request is a process  *)
(* whose steps are its statements, each a transaction of its own: the      *)
(* session is looked up, judged by a reading of the clock taken after the  *)
(* lookup, and touched or revoked by a statement that looks at nothing but *)
(* revoked_at.  Between two steps other requests run and time passes.      *)
(*                                                                         *)
(* revoked_at and revoked_reason are written together and are one field.   *)
(* last_seen_at, which nothing reads, and the token and CSRF secret, which *)
(* identify the row, are left out; so is the limiter (LoginLimiter).       *)
(***************************************************************************)
EXTENDS Integers

CONSTANTS
  Request,  \* requests in progress at the same time (goroutines)
  User,     \* logins
  Sid,      \* session identifiers that newRandomID may return
  None,     \* NULL
  IdleTTL,  \* Config.SessionIdleTTL
  AbsTTL,   \* Config.SessionAbsoluteTTL
  MaxTime   \* bound: the clock stops here

ASSUME NoneIsNothing == None \notin User \cup Sid \cup {"expired", "logout", "logout_all"}
ASSUME SessionConfig == IdleTTL \in Nat \ {0} /\ AbsTTL \in Nat \ {0}
ASSUME MaxTimeType == MaxTime \in Nat

VARIABLES
  clock,     \* time.Now, the same for every instance of the server
  accounts,  \* the logins in table users
  sessions,  \* table sessions: Sid -> row, or None
  pc,        \* the next statement of each request
  req,       \* what it was asked for and what it has read
  ended      \* history: sessions that a logout has ended

vars == <<clock, accounts, sessions, pc, req, ended>>

Reason == {"expired", "logout", "logout_all"}

Row == [user : User, absolute : Nat, idle : Nat, reason : Reason \cup {None}]

ASSUME NoneIsNoRow == None \notin Row

\* Requests that come with a session, and those that make one.
SessionOp == {"visit", "logout", "logout_all"}
Op == SessionOp \cup {"login", "register"}

\* row: the session as looked up.  at: the reading of the clock.  targets: the
\* rows RevokeAllUserSessions has found.  History: past: its session, if that
\* had ended when the request began; own: its user's sessions then (logout_all).
Local == [op : Op \cup {None}, user : User \cup {None}, sid : Sid \cup {None},
          row : Row \cup {None}, at : Nat, targets : SUBSET Sid,
          past : SUBSET Sid, own : SUBSET Sid]

Idle == [op |-> None, user |-> None, sid |-> None, row |-> None, at |-> 0,
         targets |-> {}, past |-> {}, own |-> {}]

\* Past the lookup.
UsesSession(r) ==
  pc[r] \in {"check", "expire", "touch", "served", "logout", "scan", "revoke_all"}

TypeOK ==
  /\ clock \in Nat
  /\ accounts \subseteq User
  /\ sessions \in [Sid -> Row \cup {None}]
  /\ pc \in [Request -> {"idle", "check", "expire", "touch", "served", "logout",
                         "scan", "revoke_all", "account", "stamp", "insert"}]
  /\ req \in [Request -> Local]
  /\ \A r \in Request : UsesSession(r) =>
       /\ req[r].op \in SessionOp /\ req[r].row \in Row
       /\ req[r].sid \in Sid /\ sessions[req[r].sid] # None
  /\ \A r \in Request : pc[r] # "idle" => req[r].user \in User
  /\ \A r \in Request : \A s \in req[r].targets : sessions[s] # None
  /\ ended \subseteq Sid

Init ==
  /\ clock = 1
  /\ accounts = {}
  /\ sessions = [s \in Sid |-> None]
  /\ pc = [r \in Request |-> "idle"]
  /\ req = [r \in Request |-> Idle]
  /\ ended = {}

Rows == {s \in Sid : sessions[s] # None}
Live(s) == sessions[s].reason = None
OfUser(u) == {s \in Rows : sessions[s].user = u}

-----------------------------------------------------------------------------
(* domain/auth.                                                             *)

\* Mutant: the last moment of a session is taken from it.
SessionExpiredEarly(now, row) == now + 1 >= row.idle \/ now >= row.absolute

SessionExpired(now, row) == now >= row.idle \/ now >= row.absolute

\* Mutant: the expiry is not kept within the absolute one.
NextIdleUnbounded(now, absolute) == now + IdleTTL

\* Mutant: near the absolute expiry the session is cut off.
NextIdleCutOff(now, absolute) ==
  IF now + IdleTTL > absolute THEN now ELSE now + IdleTTL

NextIdleExpiry(now, absolute) ==
  IF now + IdleTTL > absolute THEN absolute ELSE now + IdleTTL

-----------------------------------------------------------------------------
(* Middleware.Authenticate, which every request with a session goes through. *)

GoTo(r, label) == pc' = [pc EXCEPT ![r] = label]

Finish(r) ==
  /\ GoTo(r, "idle")
  /\ req' = [req EXCEPT ![r] = Idle]

Lookup(r, op, s) ==
  /\ pc[r] = "idle"
  /\ s \in Rows
  /\ GoTo(r, "check")
  /\ req' = [req EXCEPT ![r] =
       [Idle EXCEPT !.op = op, !.sid = s, !.row = sessions[s],
                    !.user = sessions[s].user, !.past = ended \cap {s},
                    !.own = IF op = "logout_all" THEN OfUser(sessions[s].user)
                            ELSE {}]]
  /\ UNCHANGED <<clock, accounts, sessions, ended>>

Refusable(row, now) == row.reason # None \/ SessionExpired(now, row)

\* The clock is read, and the row as looked up is judged by it.
Check(r) ==
  /\ pc[r] = "check"
  /\ GoTo(r, IF Refusable(req[r].row, clock) THEN "expire" ELSE "touch")
  /\ req' = [req EXCEPT ![r].at = clock]
  /\ UNCHANGED <<clock, accounts, sessions, ended>>

\* Mutant: the reason of an earlier revocation is overwritten.
RevokeAgain(S, reason) ==
  sessions' = [s \in Sid |-> IF s \in S THEN [sessions[s] EXCEPT !.reason = reason]
                             ELSE sessions[s]]

\* RevokeSession, RevokeAllUserSessions: WHERE revoked_at IS NULL.
Revoke(S, reason) ==
  sessions' = [s \in Sid |-> IF s \in S /\ Live(s)
                             THEN [sessions[s] EXCEPT !.reason = reason]
                             ELSE sessions[s]]

Expire(r) ==
  /\ pc[r] = "expire"
  /\ Revoke({req[r].sid}, "expired")
  /\ Finish(r)
  /\ UNCHANGED <<clock, accounts, ended>>

AfterTouch(op) ==
  CASE op = "visit" -> "served" [] op = "logout" -> "logout" [] op = "logout_all" -> "scan"

\* Mutant: the row is written back as it was looked up.
TouchWholeRow(r) ==
  /\ pc[r] = "touch"
  /\ sessions' = [sessions EXCEPT ![req[r].sid] =
       [req[r].row EXCEPT !.idle = NextIdleExpiry(req[r].at, req[r].row.absolute)]]
  /\ GoTo(r, AfterTouch(req[r].op))
  /\ UNCHANGED <<clock, accounts, req, ended>>

Touch(r) ==
  /\ pc[r] = "touch"
  /\ Live(req[r].sid)
  /\ sessions' = [sessions EXCEPT ![req[r].sid].idle =
                    NextIdleExpiry(req[r].at, req[r].row.absolute)]
  /\ GoTo(r, AfterTouch(req[r].op))
  /\ UNCHANGED <<clock, accounts, req, ended>>

\* Mutant: the error is dropped and the handler runs with an empty record.
TouchMissed(r) ==
  /\ pc[r] = "touch"
  /\ ~Live(req[r].sid)
  /\ GoTo(r, AfterTouch(req[r].op))
  /\ req' = [req EXCEPT ![r].row = None]
  /\ UNCHANGED <<clock, accounts, sessions, ended>>

\* TouchSession finds no row: ErrInvalidSession.
TouchRevoked(r) ==
  /\ pc[r] = "touch"
  /\ ~Live(req[r].sid)
  /\ Finish(r)
  /\ UNCHANGED <<clock, accounts, sessions, ended>>

\* The handler has answered.
Served(r) ==
  /\ pc[r] = "served"
  /\ Finish(r)
  /\ UNCHANGED <<clock, accounts, sessions, ended>>

-----------------------------------------------------------------------------
(* Logout and LogoutAll.                                                    *)

\* The row is looked up once more, for its identifier only.
Logout(r) ==
  /\ pc[r] = "logout"
  /\ Revoke({req[r].sid}, "logout")
  /\ ended' = ended \cup {req[r].sid}
  /\ Finish(r)
  /\ UNCHANGED <<clock, accounts>>

\* RevokeAllUserSessions takes its snapshot ...
ScanSessions(r) ==
  /\ pc[r] = "scan"
  /\ GoTo(r, "revoke_all")
  /\ req' = [req EXCEPT ![r].targets = {s \in OfUser(req[r].user) : Live(s)}]
  /\ UNCHANGED <<clock, accounts, sessions, ended>>

\* ... and changes the rows it has found, if they are still not revoked.
LogoutAll(r) ==
  /\ pc[r] = "revoke_all"
  /\ Revoke(req[r].targets, "logout_all")
  /\ ended' = ended \cup req[r].own
  /\ Finish(r)
  /\ UNCHANGED <<clock, accounts>>

-----------------------------------------------------------------------------
(* Register and Login.                                                      *)

BeginRegister(r, u) ==
  /\ pc[r] = "idle"
  /\ GoTo(r, "account")
  /\ req' = [req EXCEPT ![r] = [Idle EXCEPT !.op = "register", !.user = u]]
  /\ UNCHANGED <<clock, accounts, sessions, ended>>

CreateUser(r) ==
  /\ pc[r] = "account"
  /\ req[r].user \notin accounts
  /\ accounts' = accounts \cup {req[r].user}
  /\ GoTo(r, "stamp")
  /\ UNCHANGED <<clock, sessions, req, ended>>

\* users_login_uq: login_taken.
LoginTaken(r) ==
  /\ pc[r] = "account"
  /\ req[r].user \in accounts
  /\ Finish(r)
  /\ UNCHANGED <<clock, accounts, sessions, ended>>

\* The user is found and the password is right.
BeginLogin(r, u) ==
  /\ pc[r] = "idle"
  /\ u \in accounts
  /\ GoTo(r, "stamp")
  /\ req' = [req EXCEPT ![r] = [Idle EXCEPT !.op = "login", !.user = u]]
  /\ UNCHANGED <<clock, accounts, sessions, ended>>

\* createSession reads the clock ...
Stamp(r) ==
  /\ pc[r] = "stamp"
  /\ GoTo(r, "insert")
  /\ req' = [req EXCEPT ![r].at = clock]
  /\ UNCHANGED <<clock, accounts, sessions, ended>>

\* ... and inserts a row under an identifier not used before.
CreateSession(r, s) ==
  /\ pc[r] = "insert"
  /\ s \notin Rows
  /\ LET absolute == req[r].at + AbsTTL IN
       sessions' = [sessions EXCEPT ![s] =
         [user |-> req[r].user, absolute |-> absolute,
          idle |-> NextIdleExpiry(req[r].at, absolute), reason |-> None]]
  /\ Finish(r)
  /\ UNCHANGED <<clock, accounts, ended>>

-----------------------------------------------------------------------------

\* A statement fails or the request is cancelled: nothing is undone.
Fail(r) ==
  /\ pc[r] # "idle"
  /\ Finish(r)
  /\ UNCHANGED <<clock, accounts, sessions, ended>>

Tick ==
  /\ clock < MaxTime
  /\ clock' = clock + 1
  /\ UNCHANGED <<accounts, sessions, pc, req, ended>>

Next ==
  \/ \E r \in Request :
       \/ \E op \in SessionOp, s \in Sid : Lookup(r, op, s)
       \/ Check(r) \/ Expire(r) \/ Touch(r) \/ TouchRevoked(r) \/ Served(r)
       \/ Logout(r) \/ ScanSessions(r) \/ LogoutAll(r)
       \/ \E u \in User : BeginRegister(r, u) \/ BeginLogin(r, u)
       \/ CreateUser(r) \/ LoginTaken(r) \/ Stamp(r)
       \/ \E s \in Sid : CreateSession(r, s)
       \/ Fail(r)
  \/ Tick

Spec == Init /\ [][Next]_vars

-----------------------------------------------------------------------------
(* Properties.                                                              *)

\* Past the middleware.
Admitted(r) == pc[r] \in {"served", "logout", "scan", "revoke_all"}

\* Once a logout, or a logout from everywhere, has gone through, no request
\* that begins later with one of its sessions is let in: not by a touch that
\* was already under way, nor by the race of two logouts.
LogoutIsFinal == \A r \in Request : Admitted(r) => req[r].sid \notin req[r].past

\* A revoked session keeps the time and reason of its first revocation, and
\* no touch or late verdict of another request changes it.
RevocationIsFinal ==
  [][\A s \in Rows : ~Live(s) => sessions'[s] = sessions[s]]_vars

\* The absolute lifetime bounds the idle one, and a request is let in by a
\* reading of the clock within it, whatever other requests have written.
LifetimeIsBounded ==
  /\ \A s \in Rows : sessions[s].idle <= sessions[s].absolute
  /\ \A r \in Request : Admitted(r) => req[r].at < sessions[req[r].sid].absolute

\* The row is still as the request has looked it up.
Current(r) == req[r].row = sessions[req[r].sid]

\* Using a session never brings its end nearer, also close to the absolute
\* one, unless another request has touched it since it was looked up
\* (NextIdleExpiry and SessionExpired, domain/auth/session.go).
UseProlongs ==
  [][\A r \in Request : Touch(r) /\ Current(r)
       => sessions'[req[r].sid].idle >= sessions[req[r].sid].idle]_vars

\* A session that nobody has prolonged since it was looked up is ended as
\* expired only when its idle time has run out.
ExpiryIsJustified ==
  [][\A r \in Request : Expire(r) /\ Current(r) /\ Live(req[r].sid)
       => sessions[req[r].sid].idle <= clock]_vars

=============================================================================
