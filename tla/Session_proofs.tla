----------------------------- MODULE Session_proofs -----------------------------
(***************************************************************************)
(* Theorems about Session, for any number of requests, users and sessions  *)
(* and any times to live.                                                  *)
(***************************************************************************)
EXTENDS Session, TLAPS

\* A logout has gone through only for sessions that are revoked.
EndedAreRevoked == \A s \in ended : s \in Rows /\ ~Live(s)

\* A request looks at a row that had its present lifetime and owner.
RowIsOfSession(r) ==
  UsesSession(r) => /\ req[r].row.absolute = sessions[req[r].sid].absolute
                    /\ req[r].sid \in req[r].past => req[r].row.reason # None

\* What Check has let through was not revoked and not past its lifetime.
JudgedAlive(r) ==
  pc[r] = "touch" \/ Admitted(r) =>
    req[r].row.reason = None /\ req[r].at < req[r].row.absolute

\* LogoutAll is about to revoke what is not revoked yet of the sessions its
\* user had when it began.
SweepIsComplete(r) ==
  /\ req[r].own \subseteq OfUser(req[r].user)
  /\ pc[r] = "revoke_all" => \A s \in req[r].own : s \in req[r].targets \/ ~Live(s)

IdleIsCapped == \A s \in Rows : sessions[s].idle <= sessions[s].absolute

SessionInv ==
  /\ TypeOK
  /\ EndedAreRevoked
  /\ IdleIsCapped
  /\ \A r \in Request : RowIsOfSession(r) /\ JudgedAlive(r) /\ SweepIsComplete(r)

\* What every step keeps of a row: it stays, with its owner and its lifetime,
\* and as it is once it is revoked.
RowsOnlyEnd ==
  \A s \in Rows : /\ sessions'[s] # None
                  /\ sessions'[s].user = sessions[s].user
                  /\ sessions'[s].absolute = sessions[s].absolute
                  /\ ~Live(s) => sessions'[s] = sessions[s]

-----------------------------------------------------------------------------

\* What a revocation changes.
LEMMA RevokeEffect ==
  ASSUME TypeOK, NEW S \in SUBSET Rows, NEW reason \in Reason, Revoke(S, reason)
  PROVE  /\ sessions' \in [Sid -> Row \cup {None}]
         /\ RowsOnlyEnd
         /\ \A s \in Sid : sessions[s] = None => sessions'[s] = None
         /\ \A s \in Rows : sessions'[s].idle = sessions[s].idle
         /\ \A s \in S : ~Live(s)'
<1>1. \A s \in Rows : sessions[s] \in Row
  BY DEF TypeOK, Rows
<1>2. \A s \in Sid : /\ s \notin Rows => sessions'[s] = sessions[s]
                     /\ s \in Rows => sessions'[s] \in Row
  BY <1>1 DEF Revoke, Row, TypeOK
<1>3. sessions' \in [Sid -> Row \cup {None}]
  BY <1>2 DEF Revoke, Rows
<1>4. RowsOnlyEnd
  BY <1>1, <1>2, NoneIsNoRow DEF Revoke, RowsOnlyEnd, Rows, Row, TypeOK
<1>5. \A s \in Rows : sessions'[s].idle = sessions[s].idle
  BY <1>1 DEF Revoke, Rows, Row, TypeOK
<1>6. \A s \in S : ~Live(s)'
  BY <1>1, NoneIsNothing DEF Revoke, Rows, Row, Reason, Live, TypeOK
<1> QED
  BY <1>2, <1>3, <1>4, <1>5, <1>6 DEF Rows

\* The next idle expiry is a time, and not after the absolute one.
LEMMA NextIdleIsCapped ==
  ASSUME NEW now \in Nat, NEW absolute \in Nat
  PROVE  /\ NextIdleExpiry(now, absolute) \in Nat
         /\ NextIdleExpiry(now, absolute) <= absolute
BY SessionConfig DEF NextIdleExpiry

\* What a touch changes.
LEMMA TouchEffect ==
  ASSUME TypeOK, NEW r \in Request, Touch(r), req[r].row.reason = None,
         RowIsOfSession(r)
  PROVE  /\ sessions' \in [Sid -> Row \cup {None}]
         /\ RowsOnlyEnd
         /\ IdleIsCapped => IdleIsCapped'
<1> DEFINE s == req[r].sid
           i == NextIdleExpiry(req[r].at, req[r].row.absolute)
<1>1. /\ s \in Sid /\ sessions[s] # None /\ sessions[s] \in Row /\ Live(s)
      /\ req[r].row \in Row /\ req[r].at \in Nat
      /\ req[r].row.absolute = sessions[s].absolute
  BY DEF Touch, TypeOK, UsesSession, Local, RowIsOfSession
<1>2. i \in Nat /\ i <= sessions[s].absolute
  BY <1>1, NextIdleIsCapped DEF Row
<1>3. sessions' = [sessions EXCEPT ![s] = [sessions[s] EXCEPT !.idle = i]]
  BY DEF Touch
<1>4. [sessions[s] EXCEPT !.idle = i] \in Row
  BY <1>1, <1>2 DEF Row
<1>5. sessions' \in [Sid -> Row \cup {None}]
  BY <1>1, <1>3, <1>4 DEF TypeOK
<1>6. /\ sessions'[s] \in Row
      /\ sessions'[s].user = sessions[s].user
      /\ sessions'[s].absolute = sessions[s].absolute
      /\ sessions'[s].idle = i
  BY <1>1, <1>3, <1>4 DEF TypeOK, Row
<1>7. \A o \in Sid \ {s} : sessions'[o] = sessions[o]
  BY <1>3 DEF TypeOK
<1>8. RowsOnlyEnd
  BY <1>1, <1>6, <1>7, NoneIsNoRow DEF RowsOnlyEnd, Rows
<1>9. IdleIsCapped => IdleIsCapped'
  BY <1>2, <1>6, <1>7 DEF IdleIsCapped, Rows
<1> QED
  BY <1>1, <1>5, <1>7, <1>8, <1>9

\* What the insert of a session changes.
LEMMA CreateEffect ==
  ASSUME TypeOK, NEW r \in Request, NEW s \in Sid, CreateSession(r, s)
  PROVE  /\ sessions' \in [Sid -> Row \cup {None}]
         /\ RowsOnlyEnd
         /\ IdleIsCapped => IdleIsCapped'
<1> DEFINE a == req[r].at + AbsTTL
           row == [user |-> req[r].user, absolute |-> a,
                   idle |-> NextIdleExpiry(req[r].at, a), reason |-> None]
<1>1. req[r].user \in User /\ req[r].at \in Nat /\ sessions[s] = None
  <2>1. req[r] \in Local /\ pc[r] # "idle"
    BY DEF CreateSession, TypeOK
  <2>2. req[r].at \in Nat
    BY <2>1 DEF Local
  <2>3. req[r].user \in User
    BY <2>1 DEF TypeOK
  <2> QED
    BY <2>2, <2>3 DEF CreateSession, Rows
<1>2. a \in Nat /\ NextIdleExpiry(req[r].at, a) \in Nat
      /\ NextIdleExpiry(req[r].at, a) <= a
  <2>1. a \in Nat
    BY <1>1, SessionConfig
  <2> HIDE DEF a
  <2> QED
    BY <1>1, <2>1, NextIdleIsCapped
<1>3. row \in Row
  BY <1>1, <1>2 DEF Row
<1>4. sessions' = [sessions EXCEPT ![s] = row]
  BY DEF CreateSession
<1>5. \A o \in Rows : sessions'[o] = sessions[o] /\ o # s
  BY <1>1, <1>4 DEF TypeOK, Rows
<1>6. sessions' \in [Sid -> Row \cup {None}]
  BY <1>3, <1>4 DEF TypeOK
<1>7. RowsOnlyEnd
  BY <1>5 DEF RowsOnlyEnd, Rows
<1>8. IdleIsCapped => IdleIsCapped'
  <2> SUFFICES ASSUME IdleIsCapped, NEW o \in Rows'
               PROVE  sessions'[o].idle <= sessions'[o].absolute
    BY DEF IdleIsCapped
  <2>1. CASE o = s
    BY <1>2, <1>4, <2>1 DEF TypeOK, Rows
  <2>2. CASE o # s
    BY <1>4, <2>2 DEF IdleIsCapped, TypeOK, Rows
  <2> QED
    BY <2>1, <2>2
<1> QED
  BY <1>6, <1>7, <1>8

\* The table under every step: rows stay, revoked ones as they are, and idle
\* expiries within the absolute ones.
LEMMA TableStep ==
  ASSUME SessionInv, Next
  PROVE  /\ sessions' \in [Sid -> Row \cup {None}]
         /\ RowsOnlyEnd
         /\ IdleIsCapped'
<1> DEFINE Good == /\ sessions' \in [Sid -> Row \cup {None}]
                   /\ RowsOnlyEnd
                   /\ IdleIsCapped'
<1>1. TypeOK /\ IdleIsCapped
  BY DEF SessionInv
<1>2. ASSUME UNCHANGED sessions PROVE Good
  BY <1>1, <1>2 DEF TypeOK, RowsOnlyEnd, IdleIsCapped, Rows
<1>3. ASSUME NEW S \in SUBSET Rows, NEW reason \in Reason, Revoke(S, reason)
      PROVE  Good
  <2>1. /\ sessions' \in [Sid -> Row \cup {None}] /\ RowsOnlyEnd
        /\ \A s \in Sid : sessions[s] = None => sessions'[s] = None
        /\ \A s \in Rows : sessions'[s].idle = sessions[s].idle
    BY <1>1, <1>3, RevokeEffect
  <2> QED
    BY <1>1, <2>1 DEF RowsOnlyEnd, IdleIsCapped, Rows
<1>4. ASSUME NEW r \in Request, Expire(r) PROVE Good
  <2>1. {req[r].sid} \subseteq Rows
    BY <1>1, <1>4 DEF Expire, TypeOK, UsesSession, Rows
  <2> QED
    BY <1>3, <1>4, <2>1 DEF Expire, Reason
<1>5. ASSUME NEW r \in Request, Logout(r) PROVE Good
  <2>1. {req[r].sid} \subseteq Rows
    BY <1>1, <1>5 DEF Logout, TypeOK, UsesSession, Rows
  <2> QED
    BY <1>3, <1>5, <2>1 DEF Logout, Reason
<1>6. ASSUME NEW r \in Request, LogoutAll(r) PROVE Good
  <2>1. req[r].targets \subseteq Rows
    <3>1. req[r] \in Local /\ \A s \in req[r].targets : sessions[s] # None
      BY <1>1 DEF TypeOK
    <3> QED
      BY <3>1 DEF Local, Rows
  <2> QED
    BY <1>3, <1>6, <2>1 DEF LogoutAll, Reason
<1>7. ASSUME NEW r \in Request, Touch(r) PROVE Good
  BY <1>1, <1>7, TouchEffect DEF SessionInv, JudgedAlive, Touch
<1>8. ASSUME NEW r \in Request, NEW s \in Sid, CreateSession(r, s) PROVE Good
  BY <1>1, <1>8, CreateEffect
<1> QED
  BY <1>2, <1>4, <1>5, <1>6, <1>7, <1>8
  DEF Next, Lookup, Check, TouchRevoked, Served, ScanSessions, BeginRegister,
      BeginLogin, CreateUser, LoginTaken, Stamp, Fail, Tick

\* A request that is back to rest has nothing to keep.
LEMMA RestIsFine ==
  ASSUME NEW r \in Request, pc'[r] = "idle", req'[r] = Idle
  PROVE  /\ RowIsOfSession(r)' /\ JudgedAlive(r)' /\ SweepIsComplete(r)'
         /\ req'[r] \in Local /\ ~UsesSession(r)' /\ req'[r].targets = {}
BY DEF Idle, Local, RowIsOfSession, JudgedAlive, SweepIsComplete, UsesSession,
       Admitted, OfUser

\* The parts of the type invariant that are about one request.
LocalType(r) ==
  /\ pc[r] \in {"idle", "check", "expire", "touch", "served", "logout",
               "scan", "revoke_all", "account", "stamp", "insert"}
  /\ req[r] \in Local
  /\ UsesSession(r) =>
       /\ req[r].op \in SessionOp /\ req[r].row \in Row
       /\ req[r].sid \in Sid /\ sessions[req[r].sid] # None
  /\ pc[r] # "idle" => req[r].user \in User
  /\ \A s \in req[r].targets : sessions[s] # None

LocalInv(r) ==
  LocalType(r) /\ RowIsOfSession(r) /\ JudgedAlive(r) /\ SweepIsComplete(r)

\* A request keeps its part of the invariant while others take steps.
LEMMA OthersStep ==
  ASSUME SessionInv, RowsOnlyEnd, sessions' \in [Sid -> Row \cup {None}],
         NEW r \in Request, pc'[r] = pc[r], req'[r] = req[r]
  PROVE  LocalInv(r)'
<1>1. LocalInv(r) /\ req[r].targets \subseteq Rows
  BY DEF SessionInv, TypeOK, LocalInv, LocalType, Local, Rows
<1>2. LocalType(r)'
  BY <1>1 DEF LocalInv, LocalType, UsesSession, RowsOnlyEnd, Rows
<1>3. RowIsOfSession(r)'
  BY <1>1 DEF LocalInv, LocalType, RowIsOfSession, UsesSession, RowsOnlyEnd, Rows
<1>4. JudgedAlive(r)'
  BY <1>1 DEF LocalInv, JudgedAlive, Admitted
<1>5. req[r].own \subseteq Rows
  BY <1>1 DEF LocalInv, SweepIsComplete, OfUser
<1>6. SweepIsComplete(r)'
  <2>1. req[r].own \subseteq OfUser(req[r].user)'
    BY <1>1, <1>5 DEF LocalInv, SweepIsComplete, OfUser, RowsOnlyEnd, Rows
  <2>2. \A s \in req[r].own : ~Live(s) => ~Live(s)'
    BY <1>5 DEF RowsOnlyEnd, Live
  <2> QED
    BY <1>1, <2>1, <2>2 DEF LocalInv, SweepIsComplete
<1> QED
  BY <1>2, <1>3, <1>4, <1>6 DEF LocalInv

LEMMA FinishStep ==
  ASSUME SessionInv, NEW r \in Request, Finish(r)
  PROVE  /\ LocalInv(r)'
         /\ \A q \in Request \ {r} : pc'[q] = pc[q] /\ req'[q] = req[q]
<1>1. pc'[r] = "idle" /\ req'[r] = Idle
  BY DEF Finish, GoTo, SessionInv, TypeOK
<1>2. LocalInv(r)'
  BY <1>1, RestIsFine DEF LocalInv, LocalType
<1> QED
  BY <1>2 DEF Finish, GoTo, SessionInv, TypeOK

LEMMA LookupStep ==
  ASSUME SessionInv, NEW r \in Request, NEW op \in SessionOp, NEW s \in Sid,
         Lookup(r, op, s)
  PROVE  LocalInv(r)'
<1>1. /\ sessions[s] \in Row /\ sessions[s] # None /\ s \in Rows
      /\ sessions[s].user \in User
  BY DEF Lookup, Rows, SessionInv, TypeOK, Row
<1>2. OfUser(sessions[s].user) \subseteq Sid
  BY DEF OfUser, Rows
<1> DEFINE own == IF op = "logout_all" THEN OfUser(sessions[s].user) ELSE {}
           new == [op |-> op, user |-> sessions[s].user, sid |-> s,
                   row |-> sessions[s], at |-> 0, targets |-> {},
                   past |-> ended \cap {s}, own |-> own]
<1>3. req'[r] = new /\ pc'[r] = "check" /\ sessions' = sessions
  BY DEF Lookup, GoTo, Idle, SessionInv, TypeOK
<1>4. own \subseteq Sid /\ own \subseteq OfUser(sessions[s].user)
  BY <1>2
<1>5. new \in Local
  BY <1>1, <1>4 DEF Local, Op
<1>6. LocalType(r)'
  BY <1>1, <1>3, <1>5 DEF LocalType
<1>7. s \in ended => sessions[s].reason # None
  BY DEF SessionInv, EndedAreRevoked, Live
<1>8. RowIsOfSession(r)'
  <2>1. req'[r].row = sessions[s] /\ req'[r].past = ended \cap {s}
    BY <1>3
  <2> QED
    BY <1>3, <1>7, <2>1 DEF RowIsOfSession
<1>9. JudgedAlive(r)'
  BY <1>3 DEF JudgedAlive, Admitted
<1>10. SweepIsComplete(r)'
  BY <1>3, <1>4 DEF SweepIsComplete, OfUser, Rows
<1> QED
  BY <1>6, <1>8, <1>9, <1>10 DEF LocalInv

LEMMA CheckStep ==
  ASSUME SessionInv, NEW r \in Request, Check(r)
  PROVE  LocalInv(r)'
<1>1. LocalInv(r) /\ clock \in Nat /\ pc[r] = "check"
  BY DEF Check, SessionInv, TypeOK, LocalInv, LocalType
<1>2. /\ req' = [req EXCEPT ![r] = [req[r] EXCEPT !.at = clock]]
      /\ sessions' = sessions
      /\ pc'[r] = IF Refusable(req[r].row, clock) THEN "expire" ELSE "touch"
  BY DEF Check, GoTo, SessionInv, TypeOK
<1>3. req'[r] = [req[r] EXCEPT !.at = clock]
  BY <1>2 DEF SessionInv, TypeOK
<1>4. req[r] \in Local
  BY <1>1 DEF LocalInv, LocalType
<1>5. /\ req'[r] \in Local /\ req'[r].at = clock
      /\ req'[r].row = req[r].row /\ req'[r].sid = req[r].sid
      /\ req'[r].user = req[r].user /\ req'[r].targets = req[r].targets
      /\ req'[r].past = req[r].past /\ req'[r].own = req[r].own
  BY <1>1, <1>3, <1>4 DEF Local
<1>6. req[r].row \in Row
  BY <1>1 DEF LocalInv, LocalType, UsesSession
<1>7. LocalType(r)'
  BY <1>1, <1>2, <1>5 DEF LocalInv, LocalType, UsesSession
<1>8. RowIsOfSession(r)'
  BY <1>1, <1>2, <1>5 DEF LocalInv, RowIsOfSession, UsesSession
<1>9. JudgedAlive(r)'
  BY <1>1, <1>2, <1>5, <1>6 DEF JudgedAlive, Admitted, Refusable, SessionExpired, Row
<1>10. SweepIsComplete(r)'
  BY <1>1, <1>2, <1>5 DEF LocalInv, SweepIsComplete, OfUser, Rows
<1> QED
  BY <1>7, <1>8, <1>9, <1>10 DEF LocalInv

LEMMA TouchStep ==
  ASSUME SessionInv, RowsOnlyEnd, sessions' \in [Sid -> Row \cup {None}],
         NEW r \in Request, Touch(r)
  PROVE  LocalInv(r)'
<1>1. LocalInv(r) /\ req[r].targets \subseteq Rows
  BY DEF SessionInv, TypeOK, LocalInv, LocalType, Local, Rows
<1>2. req'[r] = req[r] /\ pc[r] = "touch" /\ req[r].op \in SessionOp
  BY <1>1 DEF Touch, LocalInv, LocalType, UsesSession
<1>3. pc'[r] \in {"served", "logout", "scan"}
  BY <1>2 DEF Touch, GoTo, AfterTouch, SessionOp, SessionInv, TypeOK
<1>4. req[r].row \in Row /\ req[r].sid \in Rows /\ req[r].user \in User
  BY <1>1, <1>2 DEF LocalInv, LocalType, UsesSession, Rows
<1>5. LocalType(r)'
  BY <1>1, <1>2, <1>3, <1>4 DEF LocalInv, LocalType, RowsOnlyEnd, Rows
<1>6. RowIsOfSession(r)'
  BY <1>1, <1>2, <1>3, <1>4 DEF LocalInv, RowIsOfSession, UsesSession, RowsOnlyEnd
<1>7. JudgedAlive(r)'
  BY <1>1, <1>2, <1>3 DEF LocalInv, JudgedAlive, Admitted
<1>8. req[r].own \subseteq OfUser(req[r].user)'
  BY <1>1, <1>2 DEF LocalInv, SweepIsComplete, OfUser, RowsOnlyEnd, Rows
<1>9. SweepIsComplete(r)'
  BY <1>2, <1>3, <1>8 DEF SweepIsComplete
<1> QED
  BY <1>5, <1>6, <1>7, <1>9 DEF LocalInv

LEMMA ScanStep ==
  ASSUME SessionInv, NEW r \in Request, ScanSessions(r)
  PROVE  LocalInv(r)'
<1> DEFINE T == {s \in OfUser(req[r].user) : Live(s)}
<1>1. LocalInv(r)
  BY DEF SessionInv, TypeOK, LocalInv, LocalType
<1>2. req[r] \in Local /\ pc[r] = "scan"
  BY <1>1 DEF ScanSessions, LocalInv, LocalType
<1>3. /\ req'[r] = [req[r] EXCEPT !.targets = T]
      /\ pc'[r] = "revoke_all" /\ sessions' = sessions
  BY DEF ScanSessions, GoTo, SessionInv, TypeOK
<1>4. T \subseteq Rows /\ T \subseteq Sid
  BY DEF OfUser, Rows
<1> HIDE DEF T
<1>5. /\ req'[r] \in Local /\ req'[r].targets = T
      /\ req'[r].op = req[r].op /\ req'[r].at = req[r].at
      /\ req'[r].row = req[r].row /\ req'[r].sid = req[r].sid
      /\ req'[r].user = req[r].user
      /\ req'[r].past = req[r].past /\ req'[r].own = req[r].own
  BY <1>2, <1>3, <1>4 DEF Local
<1>6. LocalType(r)'
  BY <1>1, <1>2, <1>3, <1>4, <1>5 DEF LocalInv, LocalType, UsesSession, Rows
<1>7. RowIsOfSession(r)'
  BY <1>1, <1>2, <1>3, <1>5 DEF LocalInv, RowIsOfSession, UsesSession
<1>8. JudgedAlive(r)'
  BY <1>1, <1>2, <1>3, <1>5 DEF LocalInv, JudgedAlive, Admitted
<1>9. req[r].own \subseteq OfUser(req[r].user)
  BY <1>1 DEF LocalInv, SweepIsComplete
<1>10. \A s \in req[r].own : s \in T \/ ~Live(s)
  BY <1>9 DEF T
<1>11. SweepIsComplete(r)'
  BY <1>3, <1>5, <1>9, <1>10 DEF SweepIsComplete, OfUser, Rows, Live
<1> QED
  BY <1>6, <1>7, <1>8, <1>11 DEF LocalInv

\* Registration and login have no session before they create it.
LEMMA NewSessionStep ==
  ASSUME SessionInv, NEW r \in Request, sessions' = sessions,
         \/ \E u \in User : BeginRegister(r, u) \/ BeginLogin(r, u)
         \/ CreateUser(r) \/ Stamp(r)
  PROVE  LocalInv(r)'
<1>1. LocalInv(r) /\ clock \in Nat
  BY DEF SessionInv, TypeOK, LocalInv, LocalType
<1>2. pc'[r] \in {"account", "stamp", "insert"}
  BY DEF BeginRegister, BeginLogin, CreateUser, Stamp, GoTo, SessionInv, TypeOK
<1>3. /\ req'[r] \in Local /\ req'[r].user \in User
      /\ \A s \in req'[r].targets : sessions[s] # None
      /\ req'[r].own \subseteq OfUser(req'[r].user)
  <2>1. ASSUME NEW u \in User, BeginRegister(r, u) \/ BeginLogin(r, u)
        PROVE  /\ req'[r] \in Local /\ req'[r].user = u
               /\ req'[r].targets = {} /\ req'[r].own = {}
    <3>1. "register" \in Op /\ "login" \in Op
      BY DEF Op
    <3>2. PICK o \in Op : req'[r] = [Idle EXCEPT !.op = o, !.user = u]
      BY <2>1, <3>1 DEF BeginRegister, BeginLogin, SessionInv, TypeOK
    <3>3. req'[r] = [op |-> o, user |-> u, sid |-> None, row |-> None, at |-> 0,
                     targets |-> {}, past |-> {}, own |-> {}]
      BY <3>2 DEF Idle
    <3> QED
      BY <3>3 DEF Local
  <2>2. CASE CreateUser(r)
    <3>1. req'[r] = req[r] /\ pc[r] # "idle"
      BY <2>2 DEF CreateUser
    <3> QED
      BY <1>1, <3>1 DEF LocalInv, LocalType, SweepIsComplete
  <2>3. CASE Stamp(r)
    <3>1. req'[r] = [req[r] EXCEPT !.at = clock] /\ pc[r] # "idle"
      BY <2>3 DEF Stamp, SessionInv, TypeOK
    <3>2. /\ req'[r] \in Local /\ req'[r].user = req[r].user
          /\ req'[r].targets = req[r].targets /\ req'[r].own = req[r].own
      BY <1>1, <3>1 DEF LocalInv, LocalType, Local
    <3> QED
      BY <1>1, <3>1, <3>2 DEF LocalInv, LocalType, SweepIsComplete
  <2> QED
    BY <2>1, <2>2, <2>3
<1> QED
  BY <1>2, <1>3 DEF LocalInv, LocalType, RowIsOfSession, JudgedAlive,
     SweepIsComplete, UsesSession, Admitted, OfUser, Rows

\* Every step keeps every request's part of the invariant.
LEMMA LocalStep ==
  ASSUME SessionInv, RowsOnlyEnd, sessions' \in [Sid -> Row \cup {None}], Next,
         NEW q \in Request
  PROVE  LocalInv(q)'
<1>1. ASSUME pc'[q] = pc[q], req'[q] = req[q] PROVE LocalInv(q)'
  BY <1>1, OthersStep
<1>2. ASSUME NEW r \in Request, Finish(r) PROVE LocalInv(q)'
  BY <1>1, <1>2, FinishStep
<1>3. ASSUME NEW r \in Request, NEW op \in SessionOp, NEW s \in Sid,
             Lookup(r, op, s)
      PROVE  LocalInv(q)'
  <2>1. q # r => pc'[q] = pc[q] /\ req'[q] = req[q]
    BY <1>3 DEF Lookup, GoTo, SessionInv, TypeOK
  <2> QED
    BY <1>1, <1>3, <2>1, LookupStep
<1>4. ASSUME NEW r \in Request, Check(r) PROVE LocalInv(q)'
  <2>1. q # r => pc'[q] = pc[q] /\ req'[q] = req[q]
    BY <1>4 DEF Check, GoTo, SessionInv, TypeOK
  <2> QED
    BY <1>1, <1>4, <2>1, CheckStep
<1>5. ASSUME NEW r \in Request, Touch(r) PROVE LocalInv(q)'
  <2>1. q # r => pc'[q] = pc[q] /\ req'[q] = req[q]
    BY <1>5 DEF Touch, GoTo, SessionInv, TypeOK
  <2> QED
    BY <1>1, <1>5, <2>1, TouchStep
<1>6. ASSUME NEW r \in Request, ScanSessions(r) PROVE LocalInv(q)'
  <2>1. q # r => pc'[q] = pc[q] /\ req'[q] = req[q]
    BY <1>6 DEF ScanSessions, GoTo, SessionInv, TypeOK
  <2> QED
    BY <1>1, <1>6, <2>1, ScanStep
<1>7. ASSUME NEW r \in Request,
             \/ \E u \in User : BeginRegister(r, u) \/ BeginLogin(r, u)
             \/ CreateUser(r) \/ Stamp(r)
      PROVE  LocalInv(q)'
  <2>1. sessions' = sessions /\ (q # r => pc'[q] = pc[q] /\ req'[q] = req[q])
    BY <1>7 DEF BeginRegister, BeginLogin, CreateUser, Stamp, GoTo, SessionInv, TypeOK
  <2> QED
    BY <1>1, <1>7, <2>1, NewSessionStep
<1>8. CASE Tick
  BY <1>1, <1>8 DEF Tick
<1> QED
  BY <1>2, <1>3, <1>4, <1>5, <1>6, <1>7, <1>8
  DEF Next, Expire, TouchRevoked, Served, Logout, LogoutAll, LoginTaken,
      CreateSession, Fail

\* A logout ends only what it has revoked, or has found revoked.
LEMMA EndedStep ==
  ASSUME SessionInv, RowsOnlyEnd, Next
  PROVE  EndedAreRevoked' /\ ended' \subseteq Sid
<1>1. /\ TypeOK /\ ended \subseteq Rows
      /\ \A s \in Rows : ~Live(s) => s \in Rows' /\ ~Live(s)'
  BY DEF SessionInv, EndedAreRevoked, RowsOnlyEnd, Rows, Live
<1>2. ASSUME NEW S \in SUBSET Rows, ended' = ended \cup S,
             \A s \in S : ~Live(s)'
      PROVE  EndedAreRevoked' /\ ended' \subseteq Sid
  <2>1. S \subseteq Rows'
    BY DEF RowsOnlyEnd, Rows
  <2> QED
    BY <1>1, <1>2, <2>1 DEF SessionInv, EndedAreRevoked, Rows
<1>3. CASE ended' = ended
  <2>1. ended \subseteq Sid /\ \A s \in ended : s \in Rows /\ ~Live(s)
    BY <1>1 DEF SessionInv, EndedAreRevoked, Rows
  <2> QED
    BY <1>1, <1>3, <2>1 DEF EndedAreRevoked
<1>4. ASSUME NEW r \in Request, Logout(r)
      PROVE  EndedAreRevoked' /\ ended' \subseteq Sid
  <2>1. {req[r].sid} \subseteq Rows
    BY <1>1, <1>4 DEF Logout, TypeOK, UsesSession, Rows
  <2>2. \A s \in {req[r].sid} : ~Live(s)'
    BY <1>1, <1>4, <2>1, RevokeEffect DEF Logout, Reason
  <2> QED
    BY <1>2, <1>4, <2>1, <2>2 DEF Logout
<1>5. ASSUME NEW r \in Request, LogoutAll(r)
      PROVE  EndedAreRevoked' /\ ended' \subseteq Sid
  <2>1. req[r].targets \subseteq Rows
    <3>1. req[r] \in Local /\ \A s \in req[r].targets : sessions[s] # None
      BY <1>1 DEF TypeOK
    <3> QED
      BY <3>1 DEF Local, Rows
  <2>2. \A s \in req[r].targets : ~Live(s)'
    BY <1>1, <1>5, <2>1, RevokeEffect DEF LogoutAll, Reason
  <2>3. /\ req[r].own \subseteq Rows
        /\ \A s \in req[r].own : s \in req[r].targets \/ ~Live(s)
    BY <1>5 DEF LogoutAll, SessionInv, SweepIsComplete, OfUser
  <2> QED
    BY <1>1, <1>2, <1>5, <2>2, <2>3 DEF LogoutAll
<1> QED
  BY <1>3, <1>4, <1>5
  DEF Next, Lookup, Check, Expire, Touch, TouchRevoked, Served, ScanSessions,
      BeginRegister, BeginLogin, CreateUser, LoginTaken, Stamp, CreateSession,
      Fail, Tick

-----------------------------------------------------------------------------

LEMMA InitSession == Init => SessionInv
<1> SUFFICES ASSUME Init PROVE SessionInv
  OBVIOUS
<1>1. \A r \in Request : pc[r] = "idle" /\ req[r] = Idle
  BY DEF Init
<1>2. Idle \in Local
  BY DEF Idle, Local
<1>3. TypeOK
  BY <1>1, <1>2 DEF Init, TypeOK, UsesSession, Idle
<1>4. EndedAreRevoked /\ IdleIsCapped
  BY DEF Init, EndedAreRevoked, IdleIsCapped, Rows
<1>5. \A r \in Request : RowIsOfSession(r) /\ JudgedAlive(r) /\ SweepIsComplete(r)
  <2>1. Idle.own = {}
    BY DEF Idle
  <2> QED
    BY <1>1, <2>1 DEF RowIsOfSession, JudgedAlive, SweepIsComplete, UsesSession,
       Admitted
<1> QED
  BY <1>3, <1>4, <1>5 DEF SessionInv

\* Time is a number, and accounts are users.
LEMMA ClockAndAccountsStep ==
  ASSUME TypeOK, Next
  PROVE  clock' \in Nat /\ accounts' \subseteq User
<1>1. CASE UNCHANGED <<clock, accounts>>
  BY <1>1 DEF TypeOK
<1>2. ASSUME NEW r \in Request, CreateUser(r)
      PROVE  clock' \in Nat /\ accounts' \subseteq User
  <2>1. pc[r] # "idle"
    BY <1>2 DEF CreateUser
  <2> QED
    BY <1>2, <2>1 DEF CreateUser, TypeOK
<1>3. CASE Tick
  BY <1>3 DEF Tick, TypeOK
<1> QED
  BY <1>1, <1>2, <1>3
  DEF Next, Lookup, Check, Expire, Touch, TouchRevoked, Served, Logout,
      ScanSessions, LogoutAll, BeginRegister, BeginLogin, LoginTaken, Stamp,
      CreateSession, Fail

\* Every request has one statement to run and one set of local variables.
LEMMA LocalsStep ==
  ASSUME TypeOK, Next
  PROVE  pc' = [r \in Request |-> pc'[r]] /\ req' = [r \in Request |-> req'[r]]
<1> DEFINE Whole == /\ pc' = [r \in Request |-> pc'[r]]
                    /\ req' = [r \in Request |-> req'[r]]
<1>1. ASSUME NEW r \in Request, NEW l, NEW v, GoTo(r, l),
             req' = req \/ req' = [req EXCEPT ![r] = v]
      PROVE  Whole
  BY <1>1 DEF GoTo, TypeOK
<1>2. ASSUME NEW r \in Request, Finish(r) PROVE Whole
  BY <1>1, <1>2 DEF Finish
<1>3. ASSUME NEW r \in Request, NEW op \in SessionOp, NEW s \in Sid,
             Lookup(r, op, s)
      PROVE  Whole
  BY <1>1, <1>3 DEF Lookup
<1>4. ASSUME NEW r \in Request,
             Check(r) \/ Touch(r) \/ ScanSessions(r) \/ CreateUser(r) \/ Stamp(r)
      PROVE  Whole
  <2>1. CASE Check(r)
    BY <1>1, <2>1 DEF Check
  <2>2. CASE Touch(r)
    BY <1>1, <2>2 DEF Touch
  <2>3. CASE ScanSessions(r)
    BY <1>1, <2>3 DEF ScanSessions
  <2>4. CASE CreateUser(r)
    BY <1>1, <2>4 DEF CreateUser
  <2>5. CASE Stamp(r)
    BY <1>1, <2>5 DEF Stamp
  <2> QED
    BY <1>4, <2>1, <2>2, <2>3, <2>4, <2>5
<1>5. ASSUME NEW r \in Request, NEW u \in User,
             BeginRegister(r, u) \/ BeginLogin(r, u)
      PROVE  Whole
  <2>1. CASE BeginRegister(r, u)
    BY <1>1, <2>1 DEF BeginRegister
  <2>2. CASE BeginLogin(r, u)
    BY <1>1, <2>2 DEF BeginLogin
  <2> QED
    BY <1>5, <2>1, <2>2
<1>6. ASSUME pc' = pc, req' = req PROVE Whole
  BY <1>6 DEF TypeOK
<1> HIDE DEF Whole
<1>7. Whole
  BY <1>2, <1>3, <1>4, <1>5, <1>6
  DEF Next, Expire, TouchRevoked, Served, Logout, LogoutAll, LoginTaken,
      CreateSession, Fail, Tick
<1> QED
  BY <1>7 DEF Whole

LEMMA SessionStep == SessionInv /\ [Next]_vars => SessionInv'
<1> SUFFICES ASSUME SessionInv, [Next]_vars PROVE SessionInv'
  OBVIOUS
<1>1. CASE UNCHANGED vars
  <2>1. TypeOK'
    BY <1>1 DEF vars, SessionInv, TypeOK, UsesSession
  <2>2. EndedAreRevoked' /\ IdleIsCapped'
    BY <1>1 DEF vars, SessionInv, EndedAreRevoked, IdleIsCapped, Rows, Live
  <2>3. \A r \in Request : LocalInv(r)'
    <3>1. RowsOnlyEnd /\ sessions' \in [Sid -> Row \cup {None}]
      BY <1>1 DEF vars, RowsOnlyEnd, SessionInv, TypeOK, Rows
    <3> QED
      BY <1>1, <3>1, OthersStep DEF vars
  <2> QED
    BY <2>1, <2>2, <2>3 DEF SessionInv, LocalInv
<1>2. CASE Next
  <2>1. /\ sessions' \in [Sid -> Row \cup {None}] /\ RowsOnlyEnd /\ IdleIsCapped'
    BY <1>2, TableStep
  <2>2. \A r \in Request : LocalInv(r)'
    BY <1>2, <2>1, LocalStep
  <2>3. EndedAreRevoked' /\ ended' \subseteq Sid
    BY <1>2, <2>1, EndedStep
  <2>4. clock' \in Nat /\ accounts' \subseteq User
    BY <1>2, ClockAndAccountsStep DEF SessionInv
  <2>5. /\ pc' = [r \in Request |-> pc'[r]] /\ req' = [r \in Request |-> req'[r]]
    BY <1>2, LocalsStep DEF SessionInv
  <2>6. TypeOK'
    BY <2>1, <2>2, <2>3, <2>4, <2>5 DEF TypeOK, LocalInv, LocalType
  <2> QED
    BY <2>1, <2>2, <2>3, <2>6 DEF SessionInv, LocalInv
<1> QED
  BY <1>1, <1>2

\* Every variable keeps its type.
THEOREM SessionTypes == Spec => []TypeOK
<1>1. SessionInv => TypeOK
  BY DEF SessionInv
<1> QED
  BY InitSession, SessionStep, <1>1, PTL DEF Spec

\* No request that begins after a logout of its session, or from everywhere, is
\* let in.
THEOREM LogoutHolds == Spec => []LogoutIsFinal
<1>1. SessionInv => LogoutIsFinal
  BY DEF SessionInv, LogoutIsFinal, JudgedAlive, RowIsOfSession, Admitted, UsesSession
<1> QED
  BY InitSession, SessionStep, <1>1, PTL DEF Spec

\* No step changes a session that has been revoked.
THEOREM RevocationHolds == Spec => RevocationIsFinal
<1>1. SessionInv /\ [Next]_vars =>
        [\A s \in Rows : ~Live(s) => sessions'[s] = sessions[s]]_vars
  <2> SUFFICES ASSUME SessionInv, [Next]_vars
               PROVE  [\A s \in Rows : ~Live(s) => sessions'[s] = sessions[s]]_vars
    OBVIOUS
  <2>1. CASE Next
    BY <2>1, TableStep DEF RowsOnlyEnd
  <2>2. CASE UNCHANGED vars
    BY <2>2
  <2> QED
    BY <2>1, <2>2
<1> QED
  BY InitSession, SessionStep, <1>1, PTL DEF Spec, RevocationIsFinal

\* Sessions end with their absolute lifetime at the latest, and requests are
\* let in by a reading of the clock within it.
THEOREM LifetimeHolds == Spec => []LifetimeIsBounded
<1>1. SessionInv => LifetimeIsBounded
  BY DEF SessionInv, LifetimeIsBounded, IdleIsCapped, JudgedAlive, RowIsOfSession,
     Admitted, UsesSession
<1> QED
  BY InitSession, SessionStep, <1>1, PTL DEF Spec

-----------------------------------------------------------------------------
(* The idle expiry: how the readings of the clock that requests carry bound *)
(* what they write and how they judge.                                      *)

\* No session lives on unused for more than the idle time.
IdleIsNear == \A s \in Rows : sessions[s].idle <= clock + IdleTTL

\* Readings are of the past, and a verdict rests on the row and the reading
\* the request carries.
JudgedByReading(r) ==
  /\ req[r].at <= clock
  /\ pc[r] = "check" => req[r].row.idle <= clock + IdleTTL
  /\ pc[r] = "touch" => req[r].row.idle <= req[r].at + IdleTTL
  /\ pc[r] = "expire" => Refusable(req[r].row, req[r].at)

ExpiryInv ==
  /\ SessionInv
  /\ IdleIsNear
  /\ \A r \in Request : JudgedByReading(r)

-----------------------------------------------------------------------------

\* At the start there is no session and nobody has read the clock.
LEMMA InitExpiry == Init => ExpiryInv
<1> SUFFICES ASSUME Init PROVE ExpiryInv
  OBVIOUS
<1>1. IdleIsNear
  BY DEF Init, IdleIsNear, Rows
<1>2. ASSUME NEW r \in Request PROVE JudgedByReading(r)
  <2>1. pc[r] = "idle" /\ req[r].at = 0 /\ clock = 1
    BY DEF Init, Idle
  <2> QED
    BY <2>1 DEF JudgedByReading
<1> QED
  BY <1>1, <1>2, InitSession DEF ExpiryInv

\* The next idle expiry lies at most the idle time after the reading.
LEMMA NextIdleIsNear ==
  ASSUME NEW now \in Nat, NEW absolute \in Nat
  PROVE  NextIdleExpiry(now, absolute) <= now + IdleTTL
BY SessionConfig DEF NextIdleExpiry

\* What a touch writes is no earlier than a row whose idle expiry lies at most
\* the idle time after the reading, and within the absolute lifetime.
LEMMA NextIdleProlongs ==
  ASSUME NEW now \in Nat, NEW absolute \in Nat, NEW idle \in Nat,
         idle <= now + IdleTTL, idle <= absolute
  PROVE  NextIdleExpiry(now, absolute) >= idle
BY SessionConfig DEF NextIdleExpiry

\* The clock never goes back, and moves alone.
LEMMA ClockStep ==
  ASSUME SessionInv, Next
  PROVE  clock' \in Nat /\ clock <= clock'
<1>1. clock \in Nat
  BY DEF SessionInv, TypeOK
<1>2. clock' = clock \/ clock' = clock + 1
  BY DEF Next, Lookup, Check, Expire, Touch, TouchRevoked, Served, Logout,
         ScanSessions, LogoutAll, BeginRegister, BeginLogin, CreateUser,
         LoginTaken, Stamp, CreateSession, Fail, Tick
<1> QED
  BY <1>1, <1>2

\* A revocation moves no expiry.
LEMMA RevokeKeepsNear ==
  ASSUME SessionInv, IdleIsNear, NEW S \in SUBSET Rows, NEW reason \in Reason,
         Revoke(S, reason), clock' = clock
  PROVE  IdleIsNear'
<1>1. /\ \A s \in Sid : sessions[s] = None => sessions'[s] = None
      /\ \A s \in Rows : sessions'[s].idle = sessions[s].idle
  BY RevokeEffect DEF SessionInv
<1> QED
  BY <1>1 DEF IdleIsNear, Rows

\* A touch moves the expiry of its session only, as far as its reading allows.
LEMMA TouchKeepsNear ==
  ASSUME ExpiryInv, NEW r \in Request, Touch(r)
  PROVE  IdleIsNear'
<1> DEFINE s == req[r].sid
           i == NextIdleExpiry(req[r].at, req[r].row.absolute)
<1>1. /\ s \in Sid /\ sessions[s] \in Row /\ req[r].row \in Row /\ req[r].at \in Nat
      /\ clock \in Nat /\ clock' = clock /\ req[r].at <= clock
  BY DEF Touch, ExpiryInv, SessionInv, TypeOK, UsesSession, Local, JudgedByReading
<1>2. i \in Nat /\ i <= req[r].at + IdleTTL
  BY <1>1, NextIdleIsCapped, NextIdleIsNear DEF Row
<1>3. i <= clock + IdleTTL
  <2> HIDE DEF i
  <2> QED
    BY <1>1, <1>2, SessionConfig
<1>4. sessions' = [sessions EXCEPT ![s] = [sessions[s] EXCEPT !.idle = i]]
  BY DEF Touch
<1>5. sessions'[s].idle = i /\ \A o \in Sid \ {s} : sessions'[o] = sessions[o]
  BY <1>1, <1>4 DEF ExpiryInv, SessionInv, TypeOK, Row
<1> QED
  BY <1>1, <1>3, <1>5 DEF IdleIsNear, ExpiryInv, Rows

\* A new session expires at most the idle time after the reading it rests on.
LEMMA CreateKeepsNear ==
  ASSUME ExpiryInv, NEW r \in Request, NEW s \in Sid, CreateSession(r, s)
  PROVE  IdleIsNear'
<1> DEFINE a == req[r].at + AbsTTL
           i == NextIdleExpiry(req[r].at, a)
<1>1. /\ req[r].at \in Nat /\ clock \in Nat /\ clock' = clock /\ req[r].at <= clock
  BY DEF CreateSession, ExpiryInv, SessionInv, TypeOK, Local, JudgedByReading
<1>2. a \in Nat
  BY <1>1, SessionConfig
<1>3. i \in Nat /\ i <= req[r].at + IdleTTL
  <2> HIDE DEF a
  <2> QED
    BY <1>1, <1>2, NextIdleIsCapped, NextIdleIsNear
<1>4. i <= clock + IdleTTL
  <2> HIDE DEF i
  <2> QED
    BY <1>1, <1>3, SessionConfig
<1>5. sessions' = [sessions EXCEPT ![s] =
         [user |-> req[r].user, absolute |-> a, idle |-> i, reason |-> None]]
  BY DEF CreateSession
<1>6. sessions'[s].idle = i /\ \A o \in Sid \ {s} : sessions'[o] = sessions[o]
  BY <1>5 DEF ExpiryInv, SessionInv, TypeOK
<1> QED
  BY <1>1, <1>4, <1>6 DEF IdleIsNear, ExpiryInv, Rows

\* The table under every step.
LEMMA NearStep ==
  ASSUME ExpiryInv, Next
  PROVE  IdleIsNear'
<1>1. SessionInv /\ IdleIsNear /\ TypeOK
  BY DEF ExpiryInv, SessionInv
<1>2. ASSUME UNCHANGED sessions PROVE IdleIsNear'
  <2>1. \A s \in Rows : sessions[s].idle \in Nat
    BY <1>1 DEF TypeOK, Rows, Row
  <2>2. clock \in Nat /\ clock' \in Nat /\ clock <= clock'
    BY <1>1, ClockStep DEF TypeOK
  <2> QED
    BY <1>1, <1>2, <2>1, <2>2, SessionConfig DEF IdleIsNear, Rows
<1>3. ASSUME NEW r \in Request, Expire(r) PROVE IdleIsNear'
  <2>1. {req[r].sid} \subseteq Rows
    BY <1>1, <1>3 DEF Expire, TypeOK, UsesSession, Rows
  <2> QED
    BY <1>1, <1>3, <2>1, RevokeKeepsNear DEF Expire, Reason
<1>4. ASSUME NEW r \in Request, Logout(r) PROVE IdleIsNear'
  <2>1. {req[r].sid} \subseteq Rows
    BY <1>1, <1>4 DEF Logout, TypeOK, UsesSession, Rows
  <2> QED
    BY <1>1, <1>4, <2>1, RevokeKeepsNear DEF Logout, Reason
<1>5. ASSUME NEW r \in Request, LogoutAll(r) PROVE IdleIsNear'
  <2>1. req[r].targets \subseteq Rows
    BY <1>1 DEF TypeOK, Local, Rows
  <2> QED
    BY <1>1, <1>5, <2>1, RevokeKeepsNear DEF LogoutAll, Reason
<1> QED
  BY <1>2, <1>3, <1>4, <1>5, TouchKeepsNear, CreateKeepsNear
  DEF Next, Lookup, Check, TouchRevoked, Served, ScanSessions, BeginRegister,
      BeginLogin, CreateUser, LoginTaken, Stamp, Fail, Tick
-----------------------------------------------------------------------------


\* A request keeps its verdict while others take steps.
LEMMA OthersKeepVerdict ==
  ASSUME ExpiryInv, NEW r \in Request, pc'[r] = pc[r], req'[r] = req[r],
         clock' \in Nat, clock <= clock'
  PROVE  JudgedByReading(r)'
<1>1. JudgedByReading(r) /\ req[r].at \in Nat /\ clock \in Nat
  BY DEF ExpiryInv, SessionInv, TypeOK, Local
<1>2. pc[r] = "check" => req[r].row.idle \in Nat
  BY DEF ExpiryInv, SessionInv, TypeOK, UsesSession, Row
<1> QED
  BY <1>1, <1>2, SessionConfig DEF JudgedByReading, Refusable, SessionExpired

\* Lookup takes a row from the table.
LEMMA LookupVerdict ==
  ASSUME ExpiryInv, NEW r \in Request, NEW op \in SessionOp, NEW s \in Sid,
         Lookup(r, op, s)
  PROVE  JudgedByReading(r)'
<1>1. /\ pc'[r] = "check" /\ req'[r].at = 0 /\ req'[r].row = sessions[s]
      /\ clock' = clock /\ clock \in Nat
  BY DEF Lookup, GoTo, Idle, ExpiryInv, SessionInv, TypeOK
<1>2. sessions[s].idle <= clock + IdleTTL
  BY DEF Lookup, ExpiryInv, IdleIsNear
<1> QED
  BY <1>1, <1>2 DEF JudgedByReading

\* Check reads the clock and judges by it.
LEMMA CheckVerdict ==
  ASSUME ExpiryInv, NEW r \in Request, Check(r)
  PROVE  JudgedByReading(r)'
<1>1. req[r] \in Local /\ clock \in Nat /\ pc[r] = "check" /\ JudgedByReading(r)
  BY DEF Check, ExpiryInv, SessionInv, TypeOK
<1>2. /\ req'[r] = [req[r] EXCEPT !.at = clock] /\ clock' = clock
      /\ pc'[r] = IF Refusable(req[r].row, clock) THEN "expire" ELSE "touch"
  BY DEF Check, GoTo, ExpiryInv, SessionInv, TypeOK
<1>3. req'[r].at = clock /\ req'[r].row = req[r].row
  BY <1>1, <1>2 DEF Local
<1> QED
  BY <1>1, <1>2, <1>3 DEF JudgedByReading, Refusable, SessionExpired

\* The steps of a request that are neither a lookup nor a check.
Further(r) ==
  \/ Expire(r) \/ Touch(r) \/ TouchRevoked(r) \/ Served(r) \/ Logout(r)
  \/ ScanSessions(r) \/ LogoutAll(r) \/ CreateUser(r) \/ LoginTaken(r)
  \/ Stamp(r) \/ Fail(r)
  \/ \E u \in User : BeginRegister(r, u) \/ BeginLogin(r, u)
  \/ \E s \in Sid : CreateSession(r, s)

\* The other steps of a request end in no verdict.
LEMMA RestVerdict ==
  ASSUME ExpiryInv, NEW r \in Request, Further(r)
  PROVE  JudgedByReading(r)'
<1>1. /\ req[r] \in Local /\ clock \in Nat /\ req[r].at \in Nat /\ req[r].at <= clock
      /\ \A l : GoTo(r, l) => pc'[r] = l
      /\ req \in [Request -> Local]
  BY DEF ExpiryInv, SessionInv, TypeOK, Local, JudgedByReading, GoTo
<1>2. CASE Finish(r) /\ clock' = clock
  BY <1>1, <1>2 DEF Finish, Idle, JudgedByReading
<1>3. CASE Touch(r)
  <2>1. req[r].op \in SessionOp
    BY <1>3 DEF Touch, ExpiryInv, SessionInv, TypeOK, UsesSession
  <2>2. pc'[r] \in {"served", "logout", "scan"}
    BY <1>1, <1>3, <2>1 DEF Touch, AfterTouch, SessionOp
  <2> QED
    BY <1>1, <1>3, <2>2 DEF Touch, JudgedByReading
<1>4. CASE ScanSessions(r)
  <2>1. pc'[r] = "revoke_all" /\ req'[r].at = req[r].at /\ clock' = clock
    BY <1>1, <1>4 DEF ScanSessions, Local
  <2> QED
    BY <1>1, <2>1 DEF JudgedByReading
<1>5. CASE CreateUser(r)
  BY <1>1, <1>5 DEF CreateUser, JudgedByReading
<1>6. CASE Stamp(r)
  <2>1. pc'[r] = "insert" /\ req'[r].at = clock /\ clock' = clock
    BY <1>1, <1>6 DEF Stamp, Local
  <2> QED
    BY <1>1, <2>1 DEF JudgedByReading
<1>7. CASE \E u \in User : BeginRegister(r, u) \/ BeginLogin(r, u)
  <2>1. pc'[r] \in {"account", "stamp"} /\ req'[r].at = 0 /\ clock' = clock
    BY <1>1, <1>7 DEF BeginRegister, BeginLogin, Idle
  <2> QED
    BY <1>1, <2>1 DEF JudgedByReading
<1> QED
  BY <1>2, <1>3, <1>4, <1>5, <1>6, <1>7
  DEF Further, Expire, TouchRevoked, Served, Logout, LogoutAll, LoginTaken, Fail,
      CreateSession

\* Every request keeps its part under every step.
LEMMA VerdictStep ==
  ASSUME ExpiryInv, Next, NEW q \in Request
  PROVE  JudgedByReading(q)'
<1>1. clock' \in Nat /\ clock <= clock'
  BY ClockStep DEF ExpiryInv
<1>2. ASSUME pc'[q] = pc[q], req'[q] = req[q] PROVE JudgedByReading(q)'
  BY <1>1, <1>2, OthersKeepVerdict
<1>3. ASSUME NEW r \in Request, NEW op \in SessionOp, NEW s \in Sid, Lookup(r, op, s)
      PROVE  JudgedByReading(q)'
  <2>1. q # r => pc'[q] = pc[q] /\ req'[q] = req[q]
    BY <1>3 DEF Lookup, GoTo, ExpiryInv, SessionInv, TypeOK
  <2> QED
    BY <1>2, <1>3, <2>1, LookupVerdict
<1>4. ASSUME NEW r \in Request, Check(r) PROVE JudgedByReading(q)'
  <2>1. q # r => pc'[q] = pc[q] /\ req'[q] = req[q]
    BY <1>4 DEF Check, GoTo, ExpiryInv, SessionInv, TypeOK
  <2> QED
    BY <1>2, <1>4, <2>1, CheckVerdict
<1>5. ASSUME NEW r \in Request, Further(r) PROVE JudgedByReading(q)'
  <2>1. q # r => pc'[q] = pc[q]
    BY <1>5 DEF Further, Expire, Touch, TouchRevoked, Served, Logout, ScanSessions,
       LogoutAll, CreateUser, LoginTaken, Stamp, Fail, BeginRegister, BeginLogin,
       CreateSession, Finish, GoTo, ExpiryInv, SessionInv, TypeOK
  <2>2. q # r => req'[q] = req[q]
    BY <1>5 DEF Further, Expire, Touch, TouchRevoked, Served, Logout, ScanSessions,
       LogoutAll, CreateUser, LoginTaken, Stamp, Fail, BeginRegister, BeginLogin,
       CreateSession, Finish, ExpiryInv, SessionInv, TypeOK
  <2>3. q = r => JudgedByReading(q)'
    BY <1>5, RestVerdict
  <2> QED
    BY <1>2, <2>1, <2>2, <2>3
<1>6. CASE Tick
  BY <1>2, <1>6 DEF Tick
<1> QED
  BY <1>3, <1>4, <1>5, <1>6 DEF Next, Further

\* No step breaks the invariant.
LEMMA ExpiryStep == ExpiryInv /\ [Next]_vars => ExpiryInv'
<1> SUFFICES ASSUME ExpiryInv, [Next]_vars PROVE ExpiryInv'
  OBVIOUS
<1>1. SessionInv'
  BY SessionStep DEF ExpiryInv
<1>2. CASE Next
  BY <1>1, <1>2, NearStep, VerdictStep DEF ExpiryInv
<1>3. CASE UNCHANGED vars
  <2>1. IdleIsNear'
    BY <1>3 DEF vars, ExpiryInv, IdleIsNear, Rows
  <2>2. ASSUME NEW r \in Request PROVE JudgedByReading(r)'
    BY <1>3 DEF vars, ExpiryInv, JudgedByReading, Refusable, SessionExpired
  <2> QED
    BY <1>1, <2>1, <2>2 DEF ExpiryInv
<1> QED
  BY <1>2, <1>3

\* A request that uses a session no other request has touched since never
\* brings the end of the session nearer.
THEOREM UseHolds == Spec => UseProlongs
<1>1. ExpiryInv => (\A r \in Request : Touch(r) /\ Current(r)
        => sessions'[req[r].sid].idle >= sessions[req[r].sid].idle)
  <2> SUFFICES ASSUME ExpiryInv, NEW r \in Request, Touch(r), Current(r)
               PROVE  sessions'[req[r].sid].idle >= sessions[req[r].sid].idle
    OBVIOUS
  <2> DEFINE s == req[r].sid
             i == NextIdleExpiry(req[r].at, req[r].row.absolute)
  <2>1. /\ s \in Sid /\ s \in Rows /\ req[r].row \in Row /\ req[r].at \in Nat
        /\ req[r].row = sessions[s] /\ req[r].row.idle <= req[r].at + IdleTTL
    BY DEF Touch, Current, ExpiryInv, SessionInv, TypeOK, UsesSession, Local,
           JudgedByReading, Rows
  <2>2. req[r].row.idle <= req[r].row.absolute
    BY <2>1 DEF ExpiryInv, SessionInv, IdleIsCapped
  <2>3. i >= req[r].row.idle
    BY <2>1, <2>2, NextIdleProlongs DEF Row
  <2>4. sessions'[s].idle = i
    BY <2>1 DEF Touch, ExpiryInv, SessionInv, TypeOK, Row
  <2> QED
    BY <2>1, <2>3, <2>4
<1>2. ExpiryInv /\ [Next]_vars =>
        [\A r \in Request : Touch(r) /\ Current(r)
           => sessions'[req[r].sid].idle >= sessions[req[r].sid].idle]_vars
  BY <1>1
<1> QED
  BY InitExpiry, ExpiryStep, <1>2, PTL DEF Spec, UseProlongs

\* A session nobody has touched since it was looked up is ended as expired
\* only when its idle time has run out.
THEOREM ExpiryHolds == Spec => ExpiryIsJustified
<1>1. ExpiryInv => (\A r \in Request : Expire(r) /\ Current(r) /\ Live(req[r].sid)
        => sessions[req[r].sid].idle <= clock)
  <2> SUFFICES ASSUME ExpiryInv, NEW r \in Request, Expire(r), Current(r),
                      Live(req[r].sid)
               PROVE  sessions[req[r].sid].idle <= clock
    OBVIOUS
  <2>1. /\ req[r].sid \in Rows /\ req[r].row \in Row /\ req[r].at \in Nat
        /\ req[r].row = sessions[req[r].sid] /\ req[r].row.reason = None
        /\ req[r].at <= clock /\ clock \in Nat
    BY DEF Expire, Current, Live, ExpiryInv, SessionInv, TypeOK, UsesSession, Local,
           JudgedByReading, Rows
  <2>2. SessionExpired(req[r].at, req[r].row)
    BY <2>1 DEF Expire, ExpiryInv, JudgedByReading, Refusable
  <2>3. req[r].row.idle <= req[r].row.absolute
    BY <2>1 DEF ExpiryInv, SessionInv, IdleIsCapped
  <2> QED
    BY <2>1, <2>2, <2>3 DEF SessionExpired, Row
<1>2. ExpiryInv /\ [Next]_vars =>
        [\A r \in Request : Expire(r) /\ Current(r) /\ Live(req[r].sid)
           => sessions[req[r].sid].idle <= clock]_vars
  BY <1>1
<1> QED
  BY InitExpiry, ExpiryStep, <1>2, PTL DEF Spec, ExpiryIsJustified

=============================================================================
