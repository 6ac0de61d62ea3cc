--------------------------- MODULE SessionsProofs ---------------------------
(***************************************************************************)
(* Theorems about Sessions, for any number of accounts, tokens, concurrent *)
(* requests and clock ticks.                                               *)
(***************************************************************************)
EXTENDS Sessions, TLAPS

USE SentinelAssumption, InputAssumption, ClockAssumption

-----------------------------------------------------------------------------
(* The constant records have their types. *)

LEMMA BegunTyped ==
  ASSUME NEW pc \in {"idle", "authed", "ready", "waiting", "locked"},
         NEW o \in {"none", "session", "password", "save"},
         NEW u \in Users \union {NoUser}, NEW row \in Row, NEW t \in Tokens \union {NoToken}
  PROVE  Begun(pc, o, u, row, t) \in Request
BY DEF Begun, Request

LEMMA IdleTyped == NoRow \in Row /\ Idle \in Request
<1>1. NoRow \in Row
  BY DEF NoRow, Row, Role
<1>. QED BY <1>1, BegunTyped DEF Idle

LEMMA HandedTyped ==
  ASSUME TypeOK, NEW r \in Reqs, NEW u \in Users \union {NoUser}, NEW row \in Row,
         NEW o \in {"none", "session", "password", "save"}
  PROVE  Handed(r, o, u, row) \in [Reqs -> Request]
BY BegunTyped DEF Handed, TypeOK

LEMMA ReleasedTyped ==
  ASSUME TypeOK, NEW r \in Reqs
  PROVE  Released(r) \in [Reqs -> Request]
BY IdleTyped DEF Released, TypeOK

\* Revoking touches only the stamp, and leaves every row well formed.
LEMMA RevokedTyped ==
  ASSUME TypeOK, NEW set \in SUBSET Tokens, NEW at \in Nat
  PROVE  /\ Revoked(set, at) \in [Tokens -> Session]
         /\ \A t \in Tokens : /\ Revoked(set, at)[t].user = sessions[t].user
                              /\ Revoked(set, at)[t].created = sessions[t].created
BY DEF Revoked, TypeOK, Session, Greatest

LEMMA PatchedTyped ==
  ASSUME TypeOK, NEW u \in Users, NEW role \in Role, NEW active \in BOOLEAN
  PROVE  [users[u] EXCEPT !.role = role, !.active = active] \in Row
BY DEF TypeOK, Row

\* What every conjunct below needs: the tables, the requests and the clock keep
\* their types in every step.
LEMMA Typing == TypeOK /\ [Next]_vars => TypeOK'
<1> SUFFICES ASSUME TypeOK, [Next]_vars PROVE TypeOK'
  OBVIOUS
<1> USE IdleTyped
<1>1. ASSUME NEW r \in Reqs, NEW u \in Users, NEW pw \in Passwords, LoginRead(r, u, pw)
      PROVE  TypeOK'
  BY <1>1, HandedTyped DEF LoginRead, TypeOK
<1>2. ASSUME NEW r \in Reqs, NEW u \in Users, NEW pw \in Passwords, Register(r, u, pw)
      PROVE  TypeOK'
  BY <1>2, HandedTyped DEF Register, TypeOK, Row, Role
<1>3. ASSUME NEW r \in Reqs, NEW t \in Tokens, Authenticate(r, t)
      PROVE  TypeOK'
  <2>1. sessions[t].user \in Users /\ users[sessions[t].user] \in Row
    BY <1>3 DEF Authenticate, TypeOK, Session
  <2>. QED BY <1>3, <2>1, BegunTyped DEF Authenticate, TypeOK
<1>4. ASSUME NEW r \in Reqs, NEW pw \in Passwords, ChangePassword(r, pw)
      PROVE  TypeOK'
  <2>1. PasswordOnly(pw) \in Row /\ req[r].user \in Users \union {NoUser}
    BY DEF PasswordOnly, Row, Role, TypeOK, Request
  <2>. QED BY <1>4, <2>1, HandedTyped DEF ChangePassword, TypeOK
<1>5. ASSUME NEW r \in Reqs, NEW u \in Users, NEW pw \in Passwords, ResetPassword(r, u, pw)
      PROVE  TypeOK'
  <2>1. PasswordOnly(pw) \in Row
    BY DEF PasswordOnly, Row, Role
  <2>. QED BY <1>5, <2>1, HandedTyped DEF ResetPassword, TypeOK
<1>6. ASSUME NEW r \in Reqs, NEW u \in Users, NEW role \in Role, NEW active \in BOOLEAN,
             UpdateAccess(r, u, role, active)
      PROVE  TypeOK'
  <2>. QED BY <1>6, PatchedTyped, HandedTyped DEF UpdateAccess, TypeOK
<1>7. ASSUME NEW r \in Reqs, NEW u \in Users, NEW pw \in Passwords, NEW role \in GrantedRoles,
             CreateUser(r, u, pw, role)
      PROVE  TypeOK'
  BY <1>7, ReleasedTyped DEF CreateUser, TypeOK, Row
<1>8. ASSUME NEW r \in Reqs, Logout(r)
      PROVE  TypeOK'
  <2>1. sessions' \in [Tokens -> Session]
    BY <1>8 DEF Logout, TypeOK, Session
  <2>. QED BY <1>8, <2>1, ReleasedTyped DEF Logout, TypeOK
<1>9. ASSUME NEW r \in Reqs, Stamp(r)
      PROVE  TypeOK'
  BY <1>9 DEF Stamp, TypeOK, Request
<1>10. ASSUME NEW r \in Reqs, Lock(r)
       PROVE  TypeOK'
  <2>1. ToRevoke(r) \in SUBSET Tokens
    BY DEF ToRevoke, Current
  <2>2. [req[r] EXCEPT !.pc = "locked", !.doomed = ToRevoke(r)] \in Request
    BY <2>1 DEF TypeOK, Request
  <2>. QED BY <1>10, <2>2 DEF Lock, TypeOK
<1>11. ASSUME NEW r \in Reqs, Refuse(r) \/ End(r)
       PROVE  TypeOK'
  BY <1>11, ReleasedTyped DEF Refuse, End, TypeOK
<1>12. ASSUME NEW r \in Reqs, NEW t \in Tokens, CommitSession(r, t)
       PROVE  TypeOK'
  <2>1. req[r].doomed \in SUBSET Tokens /\ req[r].at \in Nat /\ req[r].user \in Users \union {NoUser}
    BY DEF TypeOK, Request
  <2>2. [user |-> req[r].user, created |-> req[r].at, revoked |-> 0] \in Session
    BY <2>1 DEF Session
  <2>. QED BY <1>12, <2>1, <2>2, RevokedTyped, ReleasedTyped DEF CommitSession, TypeOK
<1>13. ASSUME NEW r \in Reqs, CommitPassword(r)
       PROVE  TypeOK'
  <2>1. req[r].doomed \in SUBSET Tokens /\ req[r].at \in Nat /\ req[r].row \in Row
    BY DEF TypeOK, Request
  <2>2. users' \in [Users -> Row]
    BY <1>13, <2>1 DEF CommitPassword, TypeOK, Row
  <2>. QED BY <1>13, <2>1, <2>2, RevokedTyped, ReleasedTyped DEF CommitPassword, TypeOK
<1>14. ASSUME NEW r \in Reqs, CommitSave(r)
       PROVE  TypeOK'
  <2>1. req[r].doomed \in SUBSET Tokens /\ req[r].at \in Nat /\ req[r].row \in Row
    BY DEF TypeOK, Request
  <2>. QED BY <1>14, <2>1, RevokedTyped, ReleasedTyped DEF CommitSave, TypeOK
<1>15. CASE Tick
  BY <1>15 DEF Tick, TypeOK
<1>16. CASE UNCHANGED vars
  BY <1>16 DEF vars, TypeOK
<1>. QED
  BY <1>1, <1>2, <1>3, <1>4, <1>5, <1>6, <1>7, <1>8, <1>9, <1>10, <1>11, <1>12, <1>13, <1>14,
     <1>15, <1>16 DEF Next, Arrive, Handle, Commit

-----------------------------------------------------------------------------
(* The inductive invariant *)

\* A step that writes no session, deactivates nobody and leaves request r
\* outside the row locks: every read, a new account, a stamp, an early end.
LEMMA QuietStep ==
  ASSUME IInv, TypeOK', NEW r \in Reqs, NEW q \in Request,
         q.pc # "locked", q.doomed = {},
         q.pc = "ready" => q.user \in Users,
         q.pc = "waiting" => q.user \in Users /\ q.at \in 1..now,
         q.pc = "authed" => /\ q.user \in Users /\ q.token \in Tokens
                            /\ sessions[q.token].user = q.user,
         req' = [req EXCEPT ![r] = q],
         \A u \in Users : users[u].active => users'[u].active,
         UNCHANGED <<sessions, now>>
  PROVE  IInv'
<1> USE DEF IInv
<1>1. \A s \in Reqs : req'[s] = IF s = r THEN q ELSE req[s]
  BY DEF TypeOK
<1>2. RequestsWellFormed'
  BY <1>1 DEF RequestsWellFormed
<1>3. Exclusive'
  BY <1>1 DEF Exclusive
<1>4. ReadsHold'
  <2> SUFFICES ASSUME NEW s \in Reqs, req'[s].pc = "locked"
               PROVE  /\ req'[s].doomed = ToRevoke(s)'
                      /\ req'[s].op = "session" => users'[req'[s].user].active
    BY DEF ReadsHold
  <2>1. s # r /\ req'[s] = req[s] /\ req[s].user \in Users
    BY <1>1 DEF RequestsWellFormed
  <2>2. ToRevoke(s)' = ToRevoke(s)
    BY <2>1 DEF ToRevoke, Current
  <2>. QED BY <2>1, <2>2 DEF ReadsHold
<1>5. StampsPast' /\ OneCurrentSession' /\ RevokedNotBeforeCreated'
  BY DEF StampsPast, OneCurrentSession, RevokedNotBeforeCreated
<1>6. InactiveSignedOut'
  BY DEF InactiveSignedOut, TypeOK, Session
<1>. QED BY <1>2, <1>3, <1>4, <1>5, <1>6

LEMMA ReleasedIdle ==
  /\ Idle.pc = "idle" /\ Idle.doomed = {}
  /\ \A r \in Reqs : Released(r) = [req EXCEPT ![r] = Idle]
BY DEF Idle, Begun, Released

\* Handing user u over to the repository locks and revokes nothing yet.
LEMMA HandingStep ==
  ASSUME IInv, TypeOK', NEW r \in Reqs, NEW u \in Users, NEW row \in Row,
         NEW o \in {"none", "session", "password", "save"},
         req' = Handed(r, o, u, row),
         \A v \in Users : users[v].active => users'[v].active,
         UNCHANGED <<sessions, now>>
  PROVE  IInv'
<1> DEFINE q == Begun("ready", o, u, row, NoToken)
<1>1. q \in Request
  BY BegunTyped
<1>2. q.pc = "ready" /\ q.doomed = {} /\ q.user = u
  BY DEF Begun
<1>3. req' = [req EXCEPT ![r] = q]
  BY DEF Handed
<1>. HIDE DEF q
<1>. QED BY <1>1, <1>2, <1>3, QuietStep

LEMMA RowTyped == ASSUME NEW pw \in Passwords PROVE PasswordOnly(pw) \in Row
BY DEF PasswordOnly, Row, Role

\* The requests that read and hand over, or create an account.
LEMMA ReadersKeepIInv ==
  ASSUME IInv, TypeOK', NEW r \in Reqs,
         \/ Arrive(r)
         \/ \E pw \in Passwords : ChangePassword(r, pw)
         \/ \E u \in Users, pw \in Passwords : ResetPassword(r, u, pw)
         \/ \E u \in Users, role \in Role, active \in BOOLEAN : UpdateAccess(r, u, role, active)
         \/ \E u \in Users, pw \in Passwords, role \in GrantedRoles : CreateUser(r, u, pw, role)
  PROVE  IInv'
<1>0. TypeOK
  BY DEF IInv
<1>1. ASSUME NEW u \in Users, NEW pw \in Passwords, LoginRead(r, u, pw)
      PROVE  IInv'
  BY <1>0, <1>1, HandingStep, IdleTyped DEF LoginRead
<1>2. ASSUME NEW u \in Users, NEW pw \in Passwords, Register(r, u, pw)
      PROVE  IInv'
  <2>1. \A v \in Users : users[v].active => users'[v].active
    BY <1>0, <1>2 DEF Register, TypeOK, Row
  <2>. QED BY <1>0, <1>2, <2>1, HandingStep, IdleTyped DEF Register
<1>3. ASSUME NEW t \in Tokens, Authenticate(r, t)
      PROVE  IInv'
  <2> DEFINE q == Begun("authed", "none", sessions[t].user, users[sessions[t].user], t)
  <2>1. sessions[t].user \in Users /\ users[sessions[t].user] \in Row
    BY <1>0, <1>3 DEF Authenticate, TypeOK, Session
  <2>2. q \in Request
    BY <2>1, BegunTyped
  <2>3. q.pc = "authed" /\ q.doomed = {} /\ q.user = sessions[t].user /\ q.token = t
    BY DEF Begun
  <2>4. req' = [req EXCEPT ![r] = q] /\ UNCHANGED <<users, sessions, now>>
    BY <1>3 DEF Authenticate
  <2>. HIDE DEF q
  <2>. QED BY <2>1, <2>2, <2>3, <2>4, QuietStep
<1>4. ASSUME NEW pw \in Passwords, ChangePassword(r, pw)
      PROVE  IInv'
  <2>1. req[r].user \in Users
    BY <1>4 DEF ChangePassword, IInv, RequestsWellFormed
  <2>. QED BY <1>0, <1>4, <2>1, HandingStep, RowTyped DEF ChangePassword
<1>5. ASSUME NEW u \in Users, NEW pw \in Passwords, ResetPassword(r, u, pw)
      PROVE  IInv'
  BY <1>0, <1>5, HandingStep, RowTyped DEF ResetPassword
<1>6. ASSUME NEW u \in Users, NEW role \in Role, NEW active \in BOOLEAN,
             UpdateAccess(r, u, role, active)
      PROVE  IInv'
  <2> DEFINE row == [users[u] EXCEPT !.role = role, !.active = active]
  <2>1. row \in Row
    BY <1>0, PatchedTyped
  <2>2. req' = Handed(r, "save", u, row) /\ UNCHANGED <<users, sessions, now>>
    BY <1>6 DEF UpdateAccess
  <2>. HIDE DEF row
  <2>. QED BY <2>1, <2>2, HandingStep
<1>7. ASSUME NEW u \in Users, NEW pw \in Passwords, NEW role \in GrantedRoles,
             CreateUser(r, u, pw, role)
      PROVE  IInv'
  <2>1. \A v \in Users : users[v].active => users'[v].active
    BY <1>0, <1>7 DEF CreateUser, TypeOK, Row
  <2>. QED BY <1>7, <2>1, QuietStep, ReleasedIdle, IdleTyped DEF CreateUser
<1>. QED
  BY <1>1, <1>2, <1>3, <1>4, <1>5, <1>6, <1>7 DEF Arrive

\* Stamp, Refuse and End: the request moves on or ends, and nothing is written.
LEMMA MoversKeepIInv ==
  ASSUME IInv, TypeOK', NEW r \in Reqs, Stamp(r) \/ Refuse(r) \/ End(r)
  PROVE  IInv'
<1>0. TypeOK /\ RequestsWellFormed /\ req[r] \in Request
  BY DEF IInv, TypeOK
<1>1. CASE Stamp(r)
  <2> DEFINE q == [req[r] EXCEPT !.pc = "waiting", !.at = now]
  <2>0. now \in Nat
    BY <1>0 DEF TypeOK
  <2>1. q \in Request
    BY <1>0, <2>0 DEF Request
  <2>2. q.pc = "waiting" /\ q.doomed = req[r].doomed /\ q.user = req[r].user /\ q.at = now
    BY <1>0 DEF Request
  <2>3. q.doomed = {} /\ q.user \in Users /\ q.at \in 1..now
    BY <1>0, <1>1, <2>2 DEF Stamp, RequestsWellFormed, TypeOK
  <2>4. req' = [req EXCEPT ![r] = q] /\ UNCHANGED <<users, sessions, now>>
    BY <1>0, <1>1 DEF Stamp, TypeOK, Request
  <2>. HIDE DEF q
  <2>. QED BY <2>1, <2>2, <2>3, <2>4, QuietStep
<1>2. CASE Refuse(r) \/ End(r)
  BY <1>2, QuietStep, ReleasedIdle, IdleTyped DEF Refuse, End
<1>. QED BY <1>1, <1>2

\* Taking the row lock: nobody else holds it, and what is read is current.
LEMMA LockKeepsIInv ==
  ASSUME IInv, TypeOK', NEW r \in Reqs, Lock(r)
  PROVE  IInv'
<1> DEFINE q == [req[r] EXCEPT !.pc = "locked", !.doomed = ToRevoke(r)]
<1>0. TypeOK /\ req[r] \in Request
  BY DEF IInv, TypeOK
<1>1. /\ q.pc = "locked" /\ q.doomed = ToRevoke(r) /\ q.user = req[r].user
      /\ q.op = req[r].op /\ q.row = req[r].row /\ q.at = req[r].at
  BY <1>0 DEF Request
<1>2. req' = [req EXCEPT ![r] = q] /\ UNCHANGED <<users, sessions, now>>
  BY <1>0 DEF Lock, TypeOK
<1>. HIDE DEF q
<1>3. \A s \in Reqs : req'[s] = IF s = r THEN q ELSE req[s]
  BY <1>0, <1>2 DEF TypeOK
<1>4. RequestsWellFormed'
  <2>1. ASSUME NEW s \in Reqs, s # r
        PROVE  req'[s] = req[s]
    BY <1>3, <2>1
  <2>2. req[r].pc = "waiting" /\ req[r].user \in Users /\ req[r].at \in 1..now /\ req'[r] = q
    BY <1>3 DEF IInv, RequestsWellFormed, Lock
  <2>. QED BY <1>1, <1>2, <2>1, <2>2 DEF IInv, RequestsWellFormed
<1>5. Exclusive'
  BY <1>1, <1>3 DEF IInv, Exclusive, Lock, Locked
<1>6. ASSUME NEW s \in Reqs
      PROVE  ToRevoke(s)' = ToRevoke(s)
  <2>1. req'[s].op = req[s].op /\ req'[s].row = req[s].row /\ req'[s].user = req[s].user
    BY <1>1, <1>3
  <2>2. Current(req[s].user)' = {t \in Tokens : sessions[t].user = req'[s].user /\ sessions[t].revoked = 0}
    BY <1>2 DEF Current
  <2>. QED BY <2>1, <2>2 DEF ToRevoke, Current
<1>7. ReadsHold'
  BY <1>1, <1>2, <1>3, <1>6 DEF IInv, ReadsHold, Lock
<1>8. StampsPast' /\ OneCurrentSession' /\ RevokedNotBeforeCreated' /\ InactiveSignedOut'
  BY <1>2 DEF IInv, StampsPast, OneCurrentSession, RevokedNotBeforeCreated, InactiveSignedOut
<1>. QED BY <1>4, <1>5, <1>7, <1>8 DEF IInv

LEMMA TickKeepsIInv == ASSUME IInv, TypeOK', Tick PROVE IInv'
<1> USE DEF IInv, Tick
<1>1. RequestsWellFormed' /\ StampsPast'
  BY DEF RequestsWellFormed, StampsPast, TypeOK, Request, Session
<1>2. Exclusive' /\ OneCurrentSession' /\ RevokedNotBeforeCreated' /\ InactiveSignedOut'
  BY DEF Exclusive, OneCurrentSession, RevokedNotBeforeCreated, InactiveSignedOut
<1>3. ReadsHold'
  BY DEF ReadsHold, ToRevoke, Current
<1>. QED BY <1>1, <1>2, <1>3

\* A logout revokes a row no transaction has read for revoking, at a time after
\* the session began.
LEMMA LogoutKeepsIInv ==
  ASSUME IInv, TypeOK', NEW r \in Reqs, Logout(r)
  PROVE  IInv'
<1> DEFINE t == req[r].token
<1>0. TypeOK /\ now \in Nat \ {0} /\ sessions \in [Tokens -> Session]
  BY DEF IInv, TypeOK
<1>1. t \in Tokens /\ sessions[t].user \in Users /\ req[r].pc = "authed"
  BY DEF Logout, IInv, RequestsWellFormed
<1>2. \A s \in Reqs : req'[s] = IF s = r THEN Idle ELSE req[s]
  BY <1>0 DEF Logout, Released, TypeOK
<1>3. /\ UNCHANGED <<users, now>>
      /\ \A x \in Tokens : /\ sessions'[x].user = sessions[x].user
                           /\ sessions'[x].created = sessions[x].created
                           /\ sessions'[x].revoked =
                                IF x = t /\ sessions[t].revoked = 0 THEN now ELSE sessions[x].revoked
  BY <1>0, <1>1 DEF Logout, Session
<1>4. \A s \in Reqs : t \notin req[s].doomed
  BY DEF Logout, SessionRowFree
<1>. HIDE DEF t
<1>5. RequestsWellFormed'
  BY <1>2, <1>3, ReleasedIdle DEF IInv, RequestsWellFormed
<1>6. Exclusive'
  BY <1>2, ReleasedIdle DEF IInv, Exclusive
<1>7. ReadsHold'
  <2> SUFFICES ASSUME NEW s \in Reqs, req'[s].pc = "locked"
               PROVE  /\ req'[s].doomed = ToRevoke(s)'
                      /\ req'[s].op = "session" => users'[req'[s].user].active
    BY DEF ReadsHold
  <2>1. s # r /\ req'[s] = req[s] /\ req[s].doomed = ToRevoke(s)
    BY <1>2, ReleasedIdle DEF IInv, ReadsHold
  <2>2. ToRevoke(s)' = ToRevoke(s)
    <3>1. CASE req[s].op = "save" /\ req[s].row.active
      BY <2>1, <3>1 DEF ToRevoke
    <3>2. CASE ~(req[s].op = "save" /\ req[s].row.active)
      <4>1. t \notin Current(req[s].user)
        BY <2>1, <3>2, <1>4 DEF ToRevoke
      <4>2. \A x \in Tokens : x # t => sessions'[x].revoked = sessions[x].revoked
        BY <1>3
      <4>3. Current(req[s].user)' = Current(req[s].user)
        BY <1>0, <1>3, <1>1, <2>1, <4>1, <4>2 DEF Current
      <4>. QED BY <2>1, <3>2, <4>3 DEF ToRevoke
    <3>. QED BY <3>1, <3>2
  <2>. QED BY <1>3, <2>1, <2>2 DEF IInv, ReadsHold
<1>8. StampsPast'
  BY <1>3 DEF IInv, StampsPast
<1>9. OneCurrentSession' /\ InactiveSignedOut'
  BY <1>0, <1>3 DEF IInv, OneCurrentSession, InactiveSignedOut
<1>10. RevokedNotBeforeCreated'
  BY <1>0, <1>1, <1>3 DEF IInv, RevokedNotBeforeCreated, StampsPast
<1>. QED BY <1>5, <1>6, <1>7, <1>8, <1>9, <1>10 DEF IInv

\* What a commit's UPDATE does to every session row.
LEMMA RevokedRows ==
  ASSUME TypeOK, NEW set \in SUBSET Tokens, NEW at \in Nat
  PROVE  \A x \in Tokens :
           /\ Revoked(set, at)[x].user = sessions[x].user
           /\ Revoked(set, at)[x].created = sessions[x].created
           /\ Revoked(set, at)[x].revoked =
                IF x \in set THEN Greatest(sessions[x].created, at) ELSE sessions[x].revoked
           /\ sessions[x].created \in Nat /\ sessions[x].revoked \in Nat
BY DEF Revoked, TypeOK, Session

\* The part of a commit the three transactions share: r releases its lock, and
\* the rows of other users and the facts other transactions read are untouched.
LEMMA CommitStep ==
  ASSUME IInv, TypeOK', NEW r \in Reqs, req[r].pc = "locked",
         req' = Released(r), now' = now,
         \A v \in Users : v # req[r].user => users'[v] = users[v],
         \A x \in Tokens : sessions[x].user \notin {req[r].user, NoUser} => sessions'[x] = sessions[x],
         \A x \in Tokens : sessions[x].user # NoUser => sessions'[x].user = sessions[x].user,
         \A x \in Tokens : sessions[x].user = NoUser => sessions'[x].user \in {NoUser, req[r].user}
  PROVE  RequestsWellFormed' /\ Exclusive' /\ ReadsHold'
<1>0. TypeOK /\ req[r].user \in Users
  BY DEF IInv, RequestsWellFormed
<1>1. \A s \in Reqs : req'[s] = IF s = r THEN Idle ELSE req[s]
  BY <1>0 DEF Released, TypeOK
<1>2. RequestsWellFormed'
  BY <1>1, ReleasedIdle DEF IInv, RequestsWellFormed
<1>3. Exclusive'
  BY <1>1, ReleasedIdle DEF IInv, Exclusive
<1>4. ReadsHold'
  <2> SUFFICES ASSUME NEW s \in Reqs, req'[s].pc = "locked"
               PROVE  /\ req'[s].doomed = ToRevoke(s)'
                      /\ req'[s].op = "session" => users'[req'[s].user].active
    BY DEF ReadsHold
  <2>1. s # r /\ req'[s] = req[s] /\ req[s].pc = "locked" /\ req[s].user \in Users
    BY <1>1, ReleasedIdle DEF IInv, RequestsWellFormed
  <2>2. req[s].user # req[r].user
    BY <2>1 DEF IInv, Exclusive
  <2>3. \A x \in Tokens : sessions[x].user = req[s].user => sessions'[x] = sessions[x]
    BY <2>1, <2>2
  <2>4. \A x \in Tokens : sessions'[x].user = req[s].user => sessions[x].user = req[s].user
    BY <2>1, <2>2
  <2>5. Current(req[s].user)' = Current(req[s].user)
    BY <2>1, <2>3, <2>4 DEF Current
  <2>6. ToRevoke(s)' = ToRevoke(s)
    BY <2>1, <2>5 DEF ToRevoke
  <2>. QED BY <2>1, <2>2, <2>6 DEF IInv, ReadsHold
<1>. QED BY <1>2, <1>3, <1>4

LEMMA GreatestBounds ==
  ASSUME NEW a \in Nat, NEW b \in Nat
  PROVE  Greatest(a, b) \in Nat /\ Greatest(a, b) >= a /\ Greatest(a, b) >= b
BY DEF Greatest

\* Saving a row, or a password, with the sessions read under the lock revoked.
LEMMA WriteKeepsIInv ==
  ASSUME IInv, TypeOK', NEW r \in Reqs, CommitPassword(r) \/ CommitSave(r)
  PROVE  IInv'
<1> DEFINE u == req[r].user
           at == req[r].at
<1>0. TypeOK /\ sessions \in [Tokens -> Session] /\ req[r] \in Request
  BY DEF IInv, TypeOK
<1>1. /\ req[r].pc = "locked" /\ u \in Users /\ at \in 1..now /\ now \in Nat
      /\ req[r].doomed \in SUBSET Tokens
  BY <1>0 DEF CommitPassword, CommitSave, IInv, RequestsWellFormed, Request, TypeOK
<1>2. req' = Released(r) /\ now' = now /\ sessions' = Revoked(req[r].doomed, at)
  BY DEF CommitPassword, CommitSave
<1>3. \A v \in Users : v # u => users'[v] = users[v]
  BY <1>0 DEF CommitPassword, CommitSave, TypeOK
<1>4. req[r].doomed \subseteq Current(u)
  BY <1>1 DEF IInv, ReadsHold, ToRevoke
<1>. HIDE DEF u, at
<1>5. \A x \in Tokens :
        /\ sessions'[x].user = sessions[x].user /\ sessions'[x].created = sessions[x].created
        /\ sessions'[x].revoked = IF x \in req[r].doomed
                                  THEN Greatest(sessions[x].created, at) ELSE sessions[x].revoked
        /\ sessions[x].created \in Nat /\ sessions[x].revoked \in Nat
  BY <1>0, <1>1, <1>2, RevokedRows
<1>6. \A x \in Tokens : sessions[x].user # u => sessions'[x] = sessions[x]
  BY <1>0, <1>2, <1>4 DEF Revoked, Current
<1>7. RequestsWellFormed' /\ Exclusive' /\ ReadsHold'
  BY <1>1, <1>2, <1>3, <1>5, <1>6, CommitStep DEF u
<1>8. \A x \in req[r].doomed : /\ sessions'[x].revoked >= 1
                               /\ sessions'[x].revoked >= sessions[x].created
  <2> TAKE x \in req[r].doomed
  <2>1. /\ sessions'[x].revoked = Greatest(sessions[x].created, at)
        /\ sessions[x].created \in Nat /\ at \in Nat /\ at >= 1
    BY <1>1, <1>5
  <2>. QED BY <2>1 DEF Greatest
<1>9. StampsPast'
  BY <1>2, <1>5 DEF IInv, StampsPast
<1>10. \A x \in Tokens : sessions'[x].revoked = 0 => sessions[x].revoked = 0 /\ x \notin req[r].doomed
  BY <1>5, <1>8
<1>11. OneCurrentSession'
  BY <1>5, <1>10 DEF IInv, OneCurrentSession
<1>12. RevokedNotBeforeCreated'
  BY <1>5, <1>8 DEF IInv, RevokedNotBeforeCreated
<1>13. InactiveSignedOut'
  <2> SUFFICES ASSUME NEW x \in Tokens, sessions'[x].user # NoUser, sessions'[x].revoked = 0
               PROVE  users'[sessions'[x].user].active
    BY DEF InactiveSignedOut
  <2>1. /\ sessions'[x].user = sessions[x].user /\ sessions[x].user \in Users
        /\ users[sessions[x].user].active
    BY <1>0, <1>5, <1>10 DEF IInv, InactiveSignedOut, Session
  <2>2. CASE sessions[x].user # u
    BY <1>3, <2>1, <2>2
  <2>3. CASE sessions[x].user = u
    <3>1. x \in Current(u) /\ x \notin req[r].doomed
      BY <1>10, <2>3 DEF Current
    <3>2. req[r].op = "save" /\ req[r].row.active
      BY <1>1, <3>1 DEF IInv, ReadsHold, ToRevoke, u
    <3>3. users'[u] = req[r].row
      BY <1>0, <1>1, <3>2 DEF CommitSave, CommitPassword, TypeOK, u
    <3>. QED BY <2>1, <2>3, <3>2, <3>3
  <2>. QED BY <2>2, <2>3
<1>. QED BY <1>7, <1>9, <1>11, <1>12, <1>13 DEF IInv

\* Inserting the new session: everything that was current for the user is not.
LEMMA SessionKeepsIInv ==
  ASSUME IInv, TypeOK', NEW r \in Reqs, NEW t \in Tokens, CommitSession(r, t)
  PROVE  IInv'
<1> DEFINE u == req[r].user
           at == req[r].at
<1>0. TypeOK /\ sessions \in [Tokens -> Session] /\ req[r] \in Request
  BY DEF IInv, TypeOK
<1>1. /\ req[r].pc = "locked" /\ u \in Users /\ at \in 1..now /\ now \in Nat
      /\ req[r].doomed \in SUBSET Tokens /\ sessions[t].user = NoUser
      /\ req' = Released(r) /\ now' = now /\ users' = users
  BY <1>0 DEF CommitSession, IInv, RequestsWellFormed, Request, TypeOK, NoSession
<1>2. req[r].doomed = Current(u) /\ users[u].active
  BY <1>1 DEF CommitSession, IInv, ReadsHold, ToRevoke
<1>3. /\ sessions'[t].user = u /\ sessions'[t].created = at /\ sessions'[t].revoked = 0
      /\ \A x \in Tokens : x # t => sessions'[x] = Revoked(req[r].doomed, at)[x]
  BY <1>0, <1>1, RevokedTyped DEF CommitSession
<1>. HIDE DEF u, at
<1>5. \A x \in Tokens :
        /\ x # t =>
             /\ sessions'[x].user = sessions[x].user /\ sessions'[x].created = sessions[x].created
             /\ sessions'[x].revoked = IF x \in req[r].doomed
                                       THEN Greatest(sessions[x].created, at) ELSE sessions[x].revoked
        /\ sessions[x].created \in Nat /\ sessions[x].revoked \in Nat
  BY <1>0, <1>1, <1>3, RevokedRows
<1>6. \A x \in Tokens : sessions[x].user \notin {u, NoUser} => sessions'[x] = sessions[x]
  BY <1>0, <1>1, <1>2, <1>3 DEF Revoked, Current
<1>7. RequestsWellFormed' /\ Exclusive' /\ ReadsHold'
  BY <1>1, <1>3, <1>5, <1>6, CommitStep DEF u
<1>8. \A x \in req[r].doomed \ {t} : /\ sessions'[x].revoked >= 1
                                     /\ sessions'[x].revoked >= sessions[x].created
  <2> TAKE x \in req[r].doomed \ {t}
  <2>1. x \in Tokens /\ x # t /\ at \in Nat /\ at >= 1 /\ sessions[x].created \in Nat
    BY <1>1, <1>5
  <2>2. sessions'[x].revoked = Greatest(sessions[x].created, at)
    BY <1>5, <2>1
  <2>3. /\ Greatest(sessions[x].created, at) >= sessions[x].created
        /\ Greatest(sessions[x].created, at) >= at
        /\ Greatest(sessions[x].created, at) \in Nat
    BY <2>1, GreatestBounds
  <2>. QED BY <2>1, <2>2, <2>3
<1>9. StampsPast'
  BY <1>1, <1>3, <1>5 DEF IInv, StampsPast
<1>10. \A x \in Tokens \ {t} : sessions'[x].revoked = 0 =>
         sessions[x].revoked = 0 /\ sessions[x].user # u
  BY <1>2, <1>5, <1>8 DEF Current
<1>11. OneCurrentSession'
  BY <1>3, <1>5, <1>10 DEF IInv, OneCurrentSession
<1>12. RevokedNotBeforeCreated'
  BY <1>3, <1>5, <1>8 DEF IInv, RevokedNotBeforeCreated
<1>13. InactiveSignedOut'
  BY <1>1, <1>2, <1>3, <1>5, <1>10 DEF IInv, InactiveSignedOut
<1>. QED BY <1>7, <1>9, <1>11, <1>12, <1>13 DEF IInv

LEMMA InitIInv == Init => IInv
<1> SUFFICES ASSUME Init PROVE IInv
  OBVIOUS
<1>1. \A r \in Reqs : req[r] = Idle
  BY DEF Init
<1>2. \A t \in Tokens : sessions[t] = NoSession
  BY DEF Init
<1>3. TypeOK
  BY IdleTyped DEF Init, TypeOK, Row, Role, Session, NoSession
<1>4. RequestsWellFormed /\ Exclusive /\ ReadsHold
  BY <1>1, ReleasedIdle DEF RequestsWellFormed, Exclusive, ReadsHold
<1>5. StampsPast /\ OneCurrentSession /\ InactiveSignedOut /\ RevokedNotBeforeCreated
  BY <1>2 DEF Init, NoSession, StampsPast, OneCurrentSession, InactiveSignedOut,
              RevokedNotBeforeCreated
<1>. QED BY <1>3, <1>4, <1>5 DEF IInv

LEMMA NextKeepsIInv == IInv /\ [Next]_vars => IInv'
<1> SUFFICES ASSUME IInv, [Next]_vars PROVE IInv'
  OBVIOUS
<1>1. TypeOK'
  BY Typing DEF IInv
<1>2. ASSUME NEW r \in Reqs, Arrive(r) \/ Handle(r)
      PROVE  IInv'
  BY <1>1, <1>2, ReadersKeepIInv, LogoutKeepsIInv DEF Handle
<1>3. ASSUME NEW r \in Reqs, Stamp(r) \/ Lock(r) \/ Refuse(r) \/ End(r)
      PROVE  IInv'
  BY <1>1, <1>3, MoversKeepIInv, LockKeepsIInv
<1>4. ASSUME NEW r \in Reqs, Commit(r)
      PROVE  IInv'
  BY <1>1, <1>4, SessionKeepsIInv, WriteKeepsIInv DEF Commit
<1>5. CASE Tick
  BY <1>1, <1>5, TickKeepsIInv
<1>6. CASE UNCHANGED vars
  <2>1. ReadsHold'
    BY <1>6 DEF vars, IInv, ReadsHold, ToRevoke, Current
  <2>2. RequestsWellFormed' /\ Exclusive'
    BY <1>6 DEF vars, IInv, RequestsWellFormed, Exclusive
  <2>3. StampsPast' /\ OneCurrentSession' /\ InactiveSignedOut' /\ RevokedNotBeforeCreated'
    BY <1>6 DEF vars, IInv, StampsPast, OneCurrentSession, InactiveSignedOut,
                RevokedNotBeforeCreated
  <2>. QED BY <1>1, <2>1, <2>2, <2>3 DEF IInv
<1>. QED BY <1>2, <1>3, <1>4, <1>5, <1>6 DEF Next

-----------------------------------------------------------------------------
(* Password changes *)

\* The step of one request leaves the others where they are.
LEMMA OthersStay ==
  ASSUME TypeOK, NEW r \in Reqs,
         \/ Arrive(r) \/ Handle(r) \/ Stamp(r) \/ Lock(r) \/ Refuse(r) \/ Commit(r) \/ End(r)
  PROVE  \A q \in Reqs \ {r} : req'[q] = req[q]
<1>1. Arrive(r) => \A q \in Reqs \ {r} : req'[q] = req[q]
  BY DEF Arrive, LoginRead, Register, Authenticate, Handed, TypeOK
<1>2. Handle(r) => \A q \in Reqs \ {r} : req'[q] = req[q]
  BY DEF Handle, ChangePassword, ResetPassword, UpdateAccess, CreateUser, Logout,
         Handed, Released, TypeOK
<1>3. Stamp(r) \/ Lock(r) \/ Refuse(r) \/ End(r) => \A q \in Reqs \ {r} : req'[q] = req[q]
  BY DEF Stamp, Lock, Refuse, End, Released, TypeOK
<1>4. Commit(r) => \A q \in Reqs \ {r} : req'[q] = req[q]
  BY DEF Commit, CommitSession, CommitPassword, CommitSave, Released, TypeOK
<1>. QED BY <1>1, <1>2, <1>3, <1>4

\* Revoking all of a user's current sessions leaves none.
LEMMA RevokingClears ==
  ASSUME IInv, NEW u \in Users, NEW at \in Nat \ {0},
         sessions' = Revoked(Current(u), at)
  PROVE  Current(u)' = {}
<1>1. TypeOK /\ Current(u) \in SUBSET Tokens
  BY DEF IInv, Current
<1>2. \A x \in Tokens :
        /\ sessions'[x].user = sessions[x].user
        /\ sessions'[x].revoked = IF x \in Current(u)
                                  THEN Greatest(sessions[x].created, at) ELSE sessions[x].revoked
        /\ sessions[x].created \in Nat
  BY <1>1, RevokedRows
<1>3. \A x \in Current(u) : sessions'[x].revoked # 0
  <2> TAKE x \in Current(u)
  <2>1. sessions'[x].revoked = Greatest(sessions[x].created, at) /\ sessions[x].created \in Nat
    BY <1>1, <1>2
  <2>2. Greatest(sessions[x].created, at) # 0
    BY <2>1 DEF Greatest
  <2>. QED BY <2>1, <2>2
<1>. QED BY <1>2, <1>3 DEF Current

LEMMA PasswordStep ==
  ASSUME IInv, [Next]_vars, NEW r \in Reqs, NEW u \in Users,
         req[r].pc = "locked", req[r].op = "password", req[r].user = u,
         req'[r].pc # "locked", <<users, sessions>>' # <<users, sessions>>
  PROVE  Current(u)' = {}
<1>1. TypeOK /\ RequestsWellFormed /\ ReadsHold
  BY DEF IInv
<1>2. PICK q \in Reqs : \/ Arrive(q) \/ Handle(q) \/ Stamp(q) \/ Lock(q) \/ Refuse(q)
                        \/ Commit(q) \/ End(q)
  BY DEF Next, Tick, vars
<1>3. q = r
  BY <1>1, <1>2, OthersStay
<1>4. CommitPassword(r)
  BY <1>2, <1>3 DEF Arrive, LoginRead, Register, Authenticate, Handle, ChangePassword,
                    ResetPassword, UpdateAccess, ActsAsAdmin, CreateUser, Logout, Stamp, Lock,
                    Refuse, Commit, CommitSession, CommitSave, End
<1>5. req[r].at \in Nat \ {0} /\ req[r].doomed = Current(u)
  BY <1>1 DEF RequestsWellFormed, ReadsHold, ToRevoke, TypeOK
<1>. QED BY <1>4, <1>5, RevokingClears DEF CommitPassword

-----------------------------------------------------------------------------
(* Whose requests set passwords *)

\* The copy of a row that a PATCH has read has the password of the row.
Fresh(q) ==
  q.op = "save" => /\ q.user \in Users /\ q.row.role # "none"
                   /\ Exists(q.user) /\ q.row.password = users[q.user].password

CopiesFresh == \A r \in Reqs : Fresh(req[r])

LEMMA BegunFresh ==
  ASSUME NEW pc, NEW o, o # "save", NEW u, NEW row, NEW t
  PROVE  Fresh(Begun(pc, o, u, row, t)) /\ Fresh(Begun(pc, o, u, row, t))'
BY DEF Fresh, Begun

LEMMA IdleFresh == Fresh(Idle) /\ Fresh(Idle)'
BY DEF Fresh, Begun, Idle

\* Accounts that are there keep their password: the copies stay fresh, whatever
\* else the step does to one request.
LEMMA FreshStep ==
  ASSUME TypeOK, CopiesFresh, NEW r \in Reqs, NEW q, req' = [req EXCEPT ![r] = q], Fresh(q)',
         \A v \in Users : Exists(v) => Exists(v)' /\ users'[v].password = users[v].password
  PROVE  CopiesFresh'
<1>1. \A s \in Reqs : req'[s] = IF s = r THEN q ELSE req[s]
  BY DEF TypeOK
<1> SUFFICES ASSUME NEW s \in Reqs PROVE Fresh(req[s])'
  BY DEF CopiesFresh
<1>2. CASE s = r
  BY <1>1, <1>2 DEF Fresh, Exists
<1>3. CASE s # r
  <2>1. req'[s] = req[s] /\ Fresh(req[s])
    BY <1>1, <1>3 DEF CopiesFresh
  <2>. QED BY <2>1 DEF Fresh
<1>. QED BY <1>2, <1>3

\* Without a request that outdates copies, only password requests change the
\* password of an account that is there, and the copies stay fresh.
LEMMA StepKeepsFresh ==
  ASSUME IInv, CopiesFresh, ~Outdating, [Next]_vars
  PROVE  /\ CopiesFresh'
         /\ \A u \in Users :
              Exists(u) /\ users'[u].password # users[u].password
              => \E r \in Reqs : req[r].op = "password" /\ req[r].user = u /\ req'[r] # req[r]
<1> DEFINE Kept == \A v \in Users : Exists(v) => Exists(v)' /\ users'[v].password = users[v].password
<1>0. /\ TypeOK /\ users \in [Users -> Row] /\ req \in [Reqs -> Request]
      /\ \A r \in Reqs : req[r].pc = "locked" => req[r].user \in Users
  BY DEF IInv, TypeOK, RequestsWellFormed
<1>1. users' = users => Kept
  BY DEF Exists
<1>. HIDE DEF Kept
<1>2. ASSUME Kept, CopiesFresh'
      PROVE  /\ CopiesFresh'
             /\ \A u \in Users : Exists(u) => users'[u].password = users[u].password
  BY <1>2 DEF Kept
<1>3. ASSUME NEW r \in Reqs, NEW q, Kept, req' = [req EXCEPT ![r] = q], Fresh(q)'
      PROVE  CopiesFresh'
  BY <1>0, <1>3, FreshStep DEF Kept
<1>4. ASSUME NEW r \in Reqs, Kept, req' = Released(r)
      PROVE  CopiesFresh'
  BY <1>3, <1>4, IdleFresh DEF Released
<1>5. ASSUME NEW r \in Reqs, NEW o, o # "save", NEW u, NEW row, Kept, req' = Handed(r, o, u, row)
      PROVE  CopiesFresh'
  BY <1>3, <1>5, BegunFresh DEF Handed
<1>6. ASSUME NEW r \in Reqs, Arrive(r)
      PROVE  Kept /\ CopiesFresh'
  <2>1. ASSUME NEW u \in Users, NEW pw \in Passwords, LoginRead(r, u, pw)
        PROVE  Kept /\ CopiesFresh'
    BY <1>1, <1>5, <2>1 DEF LoginRead
  <2>2. ASSUME NEW u \in Users, NEW pw \in Passwords, Register(r, u, pw)
        PROVE  Kept /\ CopiesFresh'
    <3>1. Kept
      BY <1>0, <2>2 DEF Register, Kept, Exists
    <3>. QED BY <1>5, <2>2, <3>1 DEF Register
  <2>3. ASSUME NEW t \in Tokens, Authenticate(r, t)
        PROVE  Kept /\ CopiesFresh'
    BY <1>1, <1>3, <2>3, BegunFresh DEF Authenticate
  <2>. QED BY <1>6, <2>1, <2>2, <2>3 DEF Arrive
<1>7. ASSUME NEW r \in Reqs, Handle(r)
      PROVE  Kept /\ CopiesFresh'
  <2>1. ASSUME NEW u \in Users, NEW pw \in Passwords, ChangePassword(r, pw) \/ ResetPassword(r, u, pw)
        PROVE  Kept /\ CopiesFresh'
    BY <1>1, <1>5, <2>1 DEF ChangePassword, ResetPassword
  <2>2. ASSUME NEW u \in Users, NEW role \in Role, NEW active \in BOOLEAN, UpdateAccess(r, u, role, active)
        PROVE  Kept /\ CopiesFresh'
    <3> DEFINE row == [users[u] EXCEPT !.role = role, !.active = active]
               q == Begun("ready", "save", u, row, NoToken)
    <3>1. Exists(u) /\ users' = users /\ req' = [req EXCEPT ![r] = q] /\ Kept
      BY <1>1, <2>2 DEF UpdateAccess, Handed
    <3>2. row.role # "none" /\ row.password = users[u].password
      BY <1>0 DEF Row, Role
    <3>3. Fresh(q)'
      BY <3>1, <3>2 DEF Fresh, Begun, Exists
    <3>. QED BY <1>3, <3>1, <3>3
  <2>3. ASSUME NEW u \in Users, NEW pw \in Passwords, NEW role \in GrantedRoles, CreateUser(r, u, pw, role)
        PROVE  Kept /\ CopiesFresh'
    <3>1. Kept
      BY <1>0, <2>3 DEF CreateUser, Kept, Exists
    <3>. QED BY <1>4, <2>3, <3>1 DEF CreateUser
  <2>4. ASSUME Logout(r)
        PROVE  Kept /\ CopiesFresh'
    BY <1>1, <1>4, <2>4 DEF Logout
  <2>5. ASSUME NEW pw \in Passwords, ChangePassword(r, pw)
        PROVE  Kept /\ CopiesFresh'
    BY <1>1, <1>5, <2>5 DEF ChangePassword
  <2>. QED BY <1>7, <2>1, <2>2, <2>3, <2>4, <2>5 DEF Handle
<1>8. ASSUME NEW r \in Reqs, Stamp(r) \/ Lock(r)
      PROVE  Kept /\ CopiesFresh'
  <2>1. PICK q : /\ req' = [req EXCEPT ![r] = q] /\ users' = users
                 /\ q.op = req[r].op /\ q.user = req[r].user /\ q.row = req[r].row
    <3> DEFINE stamped == [req[r] EXCEPT !.pc = "waiting", !.at = now]
               locked == [req[r] EXCEPT !.pc = "locked", !.doomed = ToRevoke(r)]
    <3>1. users' = users /\ (req' = [req EXCEPT ![r] = stamped] \/ req' = [req EXCEPT ![r] = locked])
      BY <1>8 DEF Stamp, Lock
    <3>2. /\ stamped.op = req[r].op /\ stamped.user = req[r].user /\ stamped.row = req[r].row
          /\ locked.op = req[r].op /\ locked.user = req[r].user /\ locked.row = req[r].row
      BY <1>0 DEF Request
    <3>. HIDE DEF stamped, locked
    <3>. QED BY <3>1, <3>2
  <2>2. Fresh(req[r])
    BY DEF CopiesFresh
  <2>3. Fresh(q)'
    BY <2>1, <2>2 DEF Fresh, Exists
  <2>. QED BY <1>1, <1>3, <2>1, <2>3
<1>9. ASSUME NEW r \in Reqs, Refuse(r) \/ End(r) \/ \E t \in Tokens : CommitSession(r, t)
      PROVE  Kept /\ CopiesFresh'
  BY <1>1, <1>4, <1>9 DEF Refuse, End, CommitSession
<1>10. ASSUME NEW r \in Reqs, CommitSave(r)
       PROVE  Kept /\ CopiesFresh'
  <2>1. /\ req[r].user \in Users /\ req[r].row.role # "none"
        /\ req[r].row.password = users[req[r].user].password
        /\ users' = [users EXCEPT ![req[r].user] = req[r].row] /\ req' = Released(r)
    BY <1>10 DEF CommitSave, CopiesFresh, Fresh
  <2>2. Kept
    BY <1>0, <2>1 DEF Kept, Exists
  <2>. QED BY <1>4, <2>1, <2>2
<1>11. ASSUME NEW r \in Reqs, CommitPassword(r)
       PROVE  /\ CopiesFresh'
              /\ \A u \in Users :
                   users'[u].password # users[u].password
                   => req[r].op = "password" /\ req[r].user = u /\ req'[r] # req[r]
  <2>1. /\ req[r].pc = "locked" /\ req[r].op = "password" /\ req[r].user \in Users
        /\ req' = [req EXCEPT ![r] = Idle]
        /\ users' = [users EXCEPT ![req[r].user].password = req[r].row.password]
    BY <1>0, <1>11 DEF CommitPassword, Released
  <2>2. req'[r] # req[r]
    BY <1>0, <2>1 DEF Idle, Begun
  <2>3. \A v \in Users : users'[v].role = users[v].role
                         /\ (v # req[r].user => users'[v] = users[v])
    BY <1>0, <2>1 DEF Row
  <2>4. CopiesFresh'
    <3> SUFFICES ASSUME NEW s \in Reqs PROVE Fresh(req[s])'
      BY DEF CopiesFresh
    <3>1. CASE s = r
      BY <1>0, <2>1, <3>1, IdleFresh DEF Fresh, Idle, Begun
    <3>2. CASE s # r
      <4>1. req'[s] = req[s] /\ Fresh(req[s])
        BY <1>0, <2>1, <3>2 DEF CopiesFresh
      <4>2. req[s].op = "save" => req[s].user # req[r].user
        BY <2>1 DEF Outdating
      <4>. QED BY <2>3, <4>1, <4>2 DEF Fresh, Exists
    <3>. QED BY <3>1, <3>2
  <2>. QED BY <2>1, <2>2, <2>3, <2>4
<1>12. CASE Tick \/ UNCHANGED vars
  <2>1. req' = req /\ users' = users
    BY <1>12 DEF Tick, vars
  <2>. QED BY <1>1, <1>2, <2>1 DEF CopiesFresh, Fresh, Exists
<1>13. ASSUME NEW r \in Reqs, Arrive(r) \/ Handle(r) \/ Stamp(r) \/ Lock(r) \/ Refuse(r) \/ End(r)
                               \/ (\E t \in Tokens : CommitSession(r, t)) \/ CommitSave(r)
       PROVE  Kept /\ CopiesFresh'
  BY <1>6, <1>7, <1>8, <1>9, <1>10, <1>13
<1>14. ASSUME NEW r \in Reqs, Arrive(r) \/ Handle(r) \/ Stamp(r) \/ Lock(r) \/ Refuse(r) \/ Commit(r) \/ End(r)
       PROVE  (Kept /\ CopiesFresh') \/ CommitPassword(r)
  BY <1>13, <1>14 DEF Commit
<1>. QED BY <1>2, <1>11, <1>12, <1>14 DEF Next

-----------------------------------------------------------------------------
(* The store implements SessionSlot *)

\* A set of at most one token is what one slot holds.
LEMMA OneSlot ==
  ASSUME NEW C \in SUBSET Tokens, \A a, b \in C : a = b
  PROVE  LET s == IF C = {} THEN NoToken ELSE CHOOSE t \in C : TRUE
         IN  s \in Tokens \union {NoToken} /\ C = {s} \ {NoToken}
<1>1. CASE C = {}
  BY <1>1
<1>2. CASE C # {}
  <2>1. (CHOOSE t \in C : TRUE) \in C
    BY <1>2
  <2>. QED BY <1>2, <2>1
<1>. QED BY <1>1, <1>2

\* The slots say of each user which session is current.
Fits == \A u \in Users : /\ SlotOf(u) \in Tokens \union {NoToken}
                         /\ Current(u) = {SlotOf(u)} \ {NoToken}

LEMMA SlotsFit == ASSUME OneCurrentSession PROVE Fits
<1> SUFFICES ASSUME NEW u \in Users
             PROVE  SlotOf(u) \in Tokens \union {NoToken} /\ Current(u) = {SlotOf(u)} \ {NoToken}
  BY DEF Fits
<1>1. Current(u) \in SUBSET Tokens /\ \A a, b \in Current(u) : a = b
  BY DEF OneCurrentSession, Current
<1>. QED BY <1>1, OneSlot DEF SlotOf

LEMMA SlotsFitNext == ASSUME OneCurrentSession' PROVE Fits'
<1> SUFFICES ASSUME NEW u \in Users
             PROVE  SlotOf(u)' \in Tokens \union {NoToken} /\ Current(u)' = {SlotOf(u)'} \ {NoToken}
  BY DEF Fits
<1>1. Current(u)' \in SUBSET Tokens /\ \A a, b \in Current(u)' : a = b
  BY DEF OneCurrentSession, Current
<1>. QED BY <1>1, OneSlot DEF SlotOf

Closed == {t \in Tokens : sessions[t].revoked # 0}
Enabled == {u \in Users : users[u].active}

\* Where a step leaves the sessions of all users but u alone and closes what u
\* had and has no more, the slots open, close, are disabled or enabled, or rest.
LEMMA SlotStep ==
  ASSUME Fits, Fits', NEW u \in Users,
         \A v \in Users \ {u} : Current(v)' = Current(v) /\ users'[v].active = users[v].active,
         users[u].active \in BOOLEAN, users'[u].active \in BOOLEAN,
         Closed' = Closed \union (Current(u) \ Current(u)'),
         \/ Current(u)' = Current(u)
         \/ Current(u)' = {} /\ (users'[u].active => users[u].active)
         \/ /\ users[u].active /\ users'[u].active
            /\ \E t \in Tokens \ Closed : /\ Current(u)' = {t}
                                          /\ \A v \in Users : t \notin Current(v),
         users'[u].active \/ Current(u)' = {}
  PROVE  [Slot!SlotNext]_(Slot!svars)
<1> DEFINE slot == [v \in Users |-> SlotOf(v)]
           slotN == [v \in Users |-> SlotOf(v)']
<1>1. \A v \in Users \ {u} : SlotOf(v)' = SlotOf(v)
  BY DEF Fits
<1>2. slotN = [slot EXCEPT ![u] = SlotOf(u)']
  BY <1>1
<1>3. \A v \in Users : v # u => (v \in Enabled' <=> v \in Enabled)
  BY DEF Enabled
<1>4. CASE Current(u)' = Current(u) /\ users'[u].active = users[u].active
  <2>1. SlotOf(u)' = SlotOf(u)
    BY <1>4 DEF Fits
  <2>2. slotN = slot /\ Closed' = Closed /\ Enabled' = Enabled
    BY <1>2, <1>3, <1>4, <2>1 DEF Enabled
  <2>. QED BY <2>2 DEF Slot!svars, Closed, Enabled
<1>5. CASE Current(u)' = Current(u) /\ ~users[u].active /\ users'[u].active
  <2>1. SlotOf(u)' = SlotOf(u)
    BY <1>5 DEF Fits
  <2>2. slotN = slot /\ Closed' = Closed /\ Enabled' = Enabled \union {u} /\ u \notin Enabled
    BY <1>2, <1>3, <1>5, <2>1 DEF Enabled
  <2>3. Slot!Enable(u)
    BY <2>2 DEF Slot!Enable, Closed, Enabled
  <2>. QED BY <2>3 DEF Slot!SlotNext
<1>6. CASE Current(u)' = {} /\ ~users'[u].active /\ users[u].active
  <2>1. SlotOf(u)' = NoToken
    BY <1>6 DEF Fits
  <2>2. Closed' = Closed \union ({slot[u]} \ {NoToken})
    BY <1>6 DEF Fits
  <2>3. slotN = [slot EXCEPT ![u] = NoToken] /\ u \in Enabled /\ Enabled' = Enabled \ {u}
    BY <1>2, <1>3, <1>6, <2>1 DEF Enabled
  <2>4. Slot!Disable(u)
    BY <2>2, <2>3 DEF Slot!Disable, Slot!Spent, Closed, Enabled
  <2>. QED BY <2>4 DEF Slot!SlotNext
<1>7. CASE Current(u)' = {} /\ Current(u) # {} /\ users'[u].active = users[u].active
  <2>1. SlotOf(u)' = NoToken /\ slot[u] # NoToken
    BY <1>7 DEF Fits
  <2>2. Closed' = Closed \union ({slot[u]} \ {NoToken})
    BY <1>7 DEF Fits
  <2>3. slotN = [slot EXCEPT ![u] = NoToken] /\ Enabled' = Enabled
    BY <1>2, <1>3, <1>7, <2>1 DEF Enabled
  <2>4. Slot!Close(u)
    BY <2>1, <2>2, <2>3 DEF Slot!Close, Slot!Spent, Closed, Enabled
  <2>. QED BY <2>4 DEF Slot!SlotNext
<1>8. ASSUME NEW t \in Tokens \ Closed, users[u].active, users'[u].active,
             Current(u)' = {t}, \A v \in Users : t \notin Current(v)
      PROVE  Slot!SlotNext
  <2>1. SlotOf(u)' = t /\ \A v \in Users : slot[v] # t
    BY <1>8 DEF Fits
  <2>2. Closed' = Closed \union ({slot[u]} \ {NoToken})
    BY <1>8 DEF Fits
  <2>3. slotN = [slot EXCEPT ![u] = t] /\ Enabled' = Enabled /\ u \in Enabled
    BY <1>2, <1>3, <1>8, <2>1 DEF Enabled
  <2>4. Slot!Open(u, t)
    BY <1>8, <2>1, <2>2, <2>3 DEF Slot!Open, Slot!Spent, Closed, Enabled
  <2>. QED BY <2>4 DEF Slot!SlotNext
<1>. QED BY <1>4, <1>5, <1>6, <1>7, <1>8

LEMMA QuietSlot ==
  ASSUME Fits, Fits', UNCHANGED <<users, sessions>>
  PROVE  UNCHANGED Slot!svars
<1>1. \A v \in Users : Current(v)' = Current(v)
  BY DEF Current
<1>2. \A v \in Users : SlotOf(v)' = SlotOf(v)
  BY <1>1 DEF Fits
<1>. QED BY <1>2 DEF Slot!svars

\* Revoking what is current for u closes it and touches no other slot.
LEMMA RevokingCloses ==
  ASSUME IInv, NEW u \in Users, NEW at \in Nat \ {0},
         sessions' = Revoked(Current(u), at)
  PROVE  /\ Current(u)' = {}
         /\ \A v \in Users \ {u} : Current(v)' = Current(v)
         /\ Closed' = Closed \union Current(u)
<1>1. TypeOK /\ Current(u) \in SUBSET Tokens
  BY DEF IInv, Current
<1>2. \A x \in Tokens :
        /\ sessions'[x].user = sessions[x].user
        /\ sessions'[x].revoked = IF x \in Current(u)
                                  THEN Greatest(sessions[x].created, at) ELSE sessions[x].revoked
        /\ sessions[x].created \in Nat
  BY <1>1, RevokedRows
<1>3. \A x \in Current(u) : sessions'[x].revoked # 0
  <2> TAKE x \in Current(u)
  <2>1. sessions'[x].revoked = Greatest(sessions[x].created, at) /\ sessions[x].created \in Nat
    BY <1>1, <1>2
  <2>2. Greatest(sessions[x].created, at) # 0
    BY <2>1 DEF Greatest
  <2>. QED BY <2>1, <2>2
<1>4. Closed' = Closed \union Current(u)
  BY <1>1, <1>2, <1>3 DEF Closed
<1>5. \A v \in Users \ {u} : Current(v)' = Current(v)
  BY <1>2 DEF Current
<1>. QED BY <1>4, <1>5, RevokingClears

\* A new account has no session yet.
LEMMA AccountImplements ==
  ASSUME IInv, Fits, Fits', TypeOK', NEW u \in Users, NEW row \in Row, row.active,
         users' = [users EXCEPT ![u] = row], UNCHANGED sessions
  PROVE  [Slot!SlotNext]_(Slot!svars)
<1>1. TypeOK
  BY DEF IInv
<1>2. \A v \in Users : Current(v)' = Current(v)
  BY DEF Current
<1>3. Closed' = Closed \union (Current(u) \ Current(u)')
  BY <1>2 DEF Closed
<1>4. users[u].active \in BOOLEAN /\ users'[u].active /\ \A v \in Users \ {u} : users'[v] = users[v]
  BY <1>1 DEF TypeOK, Row
<1>. QED BY <1>2, <1>3, <1>4, SlotStep

LEMMA LogoutImplements ==
  ASSUME IInv, Fits, Fits', NEW r \in Reqs, Logout(r)
  PROVE  [Slot!SlotNext]_(Slot!svars)
<1>0. PICK t \in Tokens, u \in Users : t = req[r].token /\ u = sessions[t].user
  BY DEF Logout, IInv, RequestsWellFormed
<1>1. /\ TypeOK /\ now \in Nat \ {0} /\ users' = users
      /\ sessions \in [Tokens -> Session] /\ users[u].active \in BOOLEAN
  BY DEF Logout, IInv, TypeOK, Row
<1>2. CASE sessions[t].revoked # 0
  BY <1>0, <1>1, <1>2, QuietSlot DEF Logout
<1>3. CASE sessions[t].revoked = 0
  <2>1. sessions' = [sessions EXCEPT ![t].revoked = now]
    BY <1>0, <1>3 DEF Logout
  <2>2. \A x \in Tokens : /\ sessions'[x].user = sessions[x].user
                          /\ sessions'[x].revoked = IF x = t THEN now ELSE sessions[x].revoked
    BY <1>1, <2>1 DEF Session
  <2>3. t \in Current(u)
    BY <1>0, <1>3 DEF Current
  <2>4. Current(u) = {t}
    BY <2>3 DEF Fits
  <2>5. Current(u)' = {}
    BY <1>1, <2>2, <2>4 DEF Current
  <2>6. \A v \in Users \ {u} : Current(v)' = Current(v)
    BY <1>1, <2>2, <2>3 DEF Current
  <2>7. Closed' = Closed \union (Current(u) \ Current(u)')
    BY <1>1, <2>2, <2>4, <2>5 DEF Closed
  <2>. QED BY <1>1, <2>5, <2>6, <2>7, SlotStep
<1>. QED BY <1>2, <1>3

LEMMA WriteImplements ==
  ASSUME IInv, Fits, Fits', TypeOK', NEW r \in Reqs, CommitPassword(r) \/ CommitSave(r)
  PROVE  [Slot!SlotNext]_(Slot!svars)
<1>0. PICK u \in Users, at \in Nat \ {0} : u = req[r].user /\ at = req[r].at
  BY DEF CommitPassword, CommitSave, IInv, RequestsWellFormed, TypeOK
<1>1. /\ TypeOK /\ req[r].doomed = ToRevoke(r)
      /\ req[r].row \in Row /\ users \in [Users -> Row] /\ users' \in [Users -> Row]
      /\ sessions \in [Tokens -> Session]
  BY DEF CommitPassword, CommitSave, IInv, RequestsWellFormed, ReadsHold, TypeOK, Request
<1>2. /\ users[u].active \in BOOLEAN /\ users'[u].active \in BOOLEAN
      /\ \A v \in Users \ {u} : users'[v].active = users[v].active
  BY <1>0, <1>1 DEF CommitPassword, CommitSave, Row
<1>3. sessions' = Revoked(req[r].doomed, at)
  BY <1>0 DEF CommitPassword, CommitSave
<1>4. CASE req[r].op = "save" /\ req[r].row.active
  <2>1. req[r].doomed = {} /\ users'[u].active
    BY <1>0, <1>1, <1>4 DEF ToRevoke, CommitPassword, CommitSave
  <2>2. sessions' = sessions
    BY <1>1, <1>3, <2>1 DEF Revoked
  <2>3. (\A v \in Users : Current(v)' = Current(v)) /\ Closed' = Closed
    BY <2>2 DEF Current, Closed
  <2>4. Closed' = Closed \union (Current(u) \ Current(u)')
    BY <1>1, <2>3
  <2>. QED BY <1>1, <1>2, <2>1, <2>3, <2>4, SlotStep
<1>5. CASE ~(req[r].op = "save" /\ req[r].row.active)
  <2>1. req[r].doomed = Current(u)
    BY <1>0, <1>1, <1>5 DEF ToRevoke
  <2>2. /\ Current(u)' = {} /\ Closed' = Closed \union (Current(u) \ Current(u)')
        /\ \A v \in Users \ {u} : Current(v)' = Current(v)
    BY <1>1, <1>3, <2>1, RevokingCloses
  <2>3. users'[u].active => users[u].active
    BY <1>0, <1>1, <1>5 DEF CommitPassword, CommitSave, Row
  <2>. QED BY <1>1, <1>2, <2>2, <2>3, SlotStep
<1>. QED BY <1>4, <1>5

LEMMA SessionImplements ==
  ASSUME IInv, Fits, Fits', NEW r \in Reqs, NEW t \in Tokens, CommitSession(r, t)
  PROVE  [Slot!SlotNext]_(Slot!svars)
<1>0. PICK u \in Users, at \in Nat \ {0} : u = req[r].user /\ at = req[r].at
  BY DEF CommitSession, IInv, RequestsWellFormed, TypeOK
<1>1. /\ TypeOK /\ req[r].doomed = Current(u)
      /\ users' = users /\ users[u].active
      /\ sessions[t].user = NoUser /\ sessions[t].revoked = 0
      /\ Current(u) \in SUBSET Tokens
  <2>1. req[r].pc = "locked" /\ req[r].op = "session" /\ sessions[t] = NoSession /\ users' = users
    BY DEF CommitSession
  <2>2. req[r].doomed = ToRevoke(r) /\ users[u].active
    BY <1>0, <2>1 DEF IInv, ReadsHold
  <2>3. ToRevoke(r) = Current(u)
    BY <1>0, <2>1 DEF ToRevoke
  <2>4. Current(u) \in SUBSET Tokens
    BY DEF Current
  <2>. QED BY <2>1, <2>2, <2>3, <2>4 DEF NoSession, IInv
<1>2. /\ sessions'[t].user = u /\ sessions'[t].revoked = 0
      /\ \A x \in Tokens \ {t} : sessions'[x] = Revoked(Current(u), at)[x]
  BY <1>0, <1>1, RevokedTyped DEF CommitSession, TypeOK
<1>3. \A x \in Tokens \ {t} :
        /\ sessions'[x].user = sessions[x].user
        /\ sessions'[x].revoked = IF x \in Current(u)
                                  THEN Greatest(sessions[x].created, at) ELSE sessions[x].revoked
        /\ sessions[x].created \in Nat
  BY <1>1, <1>2, RevokedRows
<1>4. \A x \in Current(u) \ {t} : sessions'[x].revoked # 0
  <2> TAKE x \in Current(u) \ {t}
  <2>1. sessions'[x].revoked = Greatest(sessions[x].created, at) /\ sessions[x].created \in Nat
    BY <1>1, <1>3
  <2>2. Greatest(sessions[x].created, at) # 0
    BY <2>1 DEF Greatest
  <2>. QED BY <2>1, <2>2
<1>5. \A v \in Users : t \notin Current(v)
  BY <1>1 DEF Current
<1>6. Current(u)' = {t}
  BY <1>2, <1>3, <1>4 DEF Current
<1>7. \A v \in Users \ {u} : Current(v)' = Current(v)
  BY <1>1, <1>2, <1>3 DEF Current
<1>8. t \in Tokens \ Closed
  BY <1>1 DEF Closed
<1>9. Closed' = Closed \union (Current(u) \ Current(u)')
  BY <1>1, <1>2, <1>3, <1>4, <1>5, <1>6 DEF Closed
<1>10. users'[u].active /\ users[u].active \in BOOLEAN /\ users'[u].active \in BOOLEAN
  BY <1>1 DEF IInv, TypeOK, Row
<1>. QED BY <1>1, <1>5, <1>6, <1>7, <1>8, <1>9, <1>10, SlotStep

LEMMA StoreStep ==
  ASSUME IInv, IInv', [Next]_vars
  PROVE  [Slot!SlotNext]_(Slot!svars)
<1>1. Fits /\ Fits' /\ TypeOK'
  BY SlotsFit, SlotsFitNext DEF IInv
<1>2. CASE UNCHANGED <<users, sessions>>
  BY <1>1, <1>2, QuietSlot
<1>3. ASSUME NEW r \in Reqs, NEW u \in Users, NEW pw \in Passwords, Register(r, u, pw)
      PROVE  [Slot!SlotNext]_(Slot!svars)
  <2>1. [role |-> "viewer", password |-> pw, active |-> TRUE] \in Row
    BY DEF Row, Role
  <2>. QED BY <1>1, <1>3, <2>1, AccountImplements DEF Register
<1>4. ASSUME NEW r \in Reqs, NEW u \in Users, NEW pw \in Passwords, NEW role \in GrantedRoles,
             CreateUser(r, u, pw, role)
      PROVE  [Slot!SlotNext]_(Slot!svars)
  <2>1. [role |-> role, password |-> pw, active |-> TRUE] \in Row
    BY DEF Row
  <2>. QED BY <1>1, <1>4, <2>1, AccountImplements DEF CreateUser
<1>5. ASSUME NEW r \in Reqs, Arrive(r) \/ Handle(r) PROVE [Slot!SlotNext]_(Slot!svars)
  BY <1>1, <1>2, <1>3, <1>4, <1>5, LogoutImplements
     DEF Arrive, Handle, LoginRead, Authenticate, ChangePassword, ResetPassword, UpdateAccess
<1>6. ASSUME NEW r \in Reqs, Stamp(r) \/ Lock(r) \/ Refuse(r) \/ End(r)
      PROVE  [Slot!SlotNext]_(Slot!svars)
  BY <1>2, <1>6 DEF Stamp, Lock, Refuse, End
<1>7. ASSUME NEW r \in Reqs, Commit(r) PROVE [Slot!SlotNext]_(Slot!svars)
  BY <1>1, <1>7, WriteImplements, SessionImplements DEF Commit
<1>8. CASE Tick \/ UNCHANGED vars
  BY <1>2, <1>8 DEF Tick, vars
<1>. QED BY <1>5, <1>6, <1>7, <1>8 DEF Next

LEMMA StoreStart == Init => Slot!SlotInit
<1> SUFFICES ASSUME Init PROVE Slot!SlotInit
  OBVIOUS
<1>1. \A u \in Users : Current(u) = {}
  BY DEF Init, NoSession, Current
<1>2. \A u \in Users : SlotOf(u) = NoToken
  BY <1>1 DEF SlotOf
<1>3. {t \in Tokens : sessions[t].revoked # 0} = {}
  BY DEF Init, NoSession
<1>. QED BY <1>2, <1>3 DEF Slot!SlotInit

-----------------------------------------------------------------------------
(* Theorems *)

\* Every reachable state satisfies the inductive invariant, for any number of
\* accounts, tokens and concurrent requests.
THEOREM Invariance == Spec => []IInv
BY InitIInv, NextKeepsIInv, PTL DEF Spec

\* The tables and the requests in flight keep their types.
THEOREM TypeCorrect == Spec => []TypeOK
<1>1. IInv => TypeOK
  BY DEF IInv
<1>. QED BY <1>1, Invariance, PTL

\* No interleaving of logins, registrations and logouts gives a user two
\* current sessions (ReplaceSession, user_repository.go:230-252).
THEOREM AtMostOneSession == Spec => []OneCurrentSession
<1>1. IInv => OneCurrentSession
  BY DEF IInv
<1>. QED BY <1>1, Invariance, PTL

\* A deactivated account never has a current session (user_repository.go:161-165,
\* 236-238).
THEOREM DeactivationSignsOut == Spec => []InactiveSignedOut
<1>1. IInv => InactiveSignedOut
  BY DEF IInv
<1>. QED BY <1>1, Invariance, PTL

\* The table's CHECK on revoked_at never refuses a write (migration 00003:20).
THEOREM StampsInOrder == Spec => []RevokedNotBeforeCreated
<1>1. IInv => RevokedNotBeforeCreated
  BY DEF IInv
<1>. QED BY <1>1, Invariance, PTL

\* A committed change or reset of a password leaves its user without a current
\* session, whichever logins raced it (UpdatePassword, user_repository.go:205-228).
THEOREM PasswordChangesSignOut == Spec => PasswordChangeSignsOut
<1> DEFINE Signs == \A r \in Reqs, u \in Users :
             /\ req[r].pc = "locked" /\ req[r].op = "password" /\ req[r].user = u
             /\ req'[r].pc # "locked"
             /\ <<users, sessions>>' # <<users, sessions>>
             => Current(u)' = {}
<1>1. IInv /\ [Next]_vars => Signs
  BY PasswordStep
<1>. HIDE DEF Signs
<1>2. IInv /\ [Next]_vars => [Signs]_vars
  BY <1>1
<1>3. Spec => [][Signs]_vars
  BY <1>2, Invariance, PTL DEF Spec
<1>. QED BY <1>3 DEF PasswordChangeSignsOut, Signs

\* The promise that the code breaks is broken in one way only: where no password
\* change commits while a PATCH of the account is under way, nothing but password
\* requests changes a stored password (users.go:210-219, user_repository.go:148-158).
THEOREM PasswordsAreOwn == Spec => ([]~Outdating => OnlyPasswordRequestsSetPasswords)
<1> DEFINE Own == \A u \in Users :
                    Exists(u) /\ users'[u].password # users[u].password
                    => \E r \in Reqs : req[r].op = "password" /\ req[r].user = u /\ req'[r] # req[r]
<1>1. Init => CopiesFresh
  BY IdleFresh DEF Init, CopiesFresh
<1>2. IInv /\ CopiesFresh /\ ~Outdating /\ [Next]_vars => CopiesFresh' /\ Own
  BY StepKeepsFresh
<1>. HIDE DEF Own
<1>3. IInv /\ CopiesFresh /\ ~Outdating /\ [Next]_vars => CopiesFresh' /\ [Own]_vars
  BY <1>2
<1>4. Spec => ([]~Outdating => [][Own]_vars)
  BY <1>1, <1>3, Invariance, PTL DEF Spec
<1>. QED BY <1>4 DEF OnlyPasswordRequestsSetPasswords, Own

\* The rows, locks and clocks of the store implement one slot per user, whose
\* closed tokens never open again (user_repository.go:135-283).
THEOREM StoreImplementsSlot == Spec => ImplementsSlot
BY StoreStart, StoreStep, Invariance, PTL DEF Spec, ImplementsSlot, Slot!SlotSpec

\* What the slot promises of a token holds of its row: once revoked, a session is
\* never current again, for its user or for another ("The token is rejected
\* immediately after logout", README.MD:73).
THEOREM RevokedForGood == Spec => [][Closed \subseteq Closed']_vars
<1>1. [Slot!SlotNext]_(Slot!svars) => Closed \subseteq Closed'
  BY DEF Slot!SlotNext, Slot!Open, Slot!Close, Slot!Disable, Slot!Enable, Slot!Spent, Slot!svars, Closed
<1>2. [Slot!SlotNext]_(Slot!svars) => [Closed \subseteq Closed']_vars
  BY <1>1
<1>. QED BY <1>2, StoreImplementsSlot, PTL DEF ImplementsSlot, Slot!SlotSpec
=============================================================================
