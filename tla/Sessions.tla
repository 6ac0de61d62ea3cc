------------------------------ MODULE Sessions ------------------------------
(***************************************************************************)
(* Accounts and bearer sessions: the handlers of auth_api.go and           *)
(* users_api.go, the UserService they call and the statements of           *)
(* user_repository.go, run by concurrent requests against PostgreSQL at    *)
(* READ COMMITTED.                                                         *)
(*                                                                         *)
(* A request first reads (the credentials, the bearer's row, the row an    *)
(* admin patches) and later runs one transaction that takes the user's row *)
(* lock, reads the sessions it will revoke under that lock, and commits    *)
(* all its writes at once.  Between those steps every other request may    *)
(* run, so what was read may be stale when it is written.                  *)
(*                                                                         *)
(* Usernames and user ids are one name here, a password stands for its     *)
(* hash, a token for its SHA-256 digest.  Team membership, which the same  *)
(* rows carry, is the Teams module's.                                      *)
(***************************************************************************)
EXTENDS Naturals, FiniteSets

CONSTANTS
  Users,          \* user ids
  Passwords,      \* passwords in use
  Tokens,         \* the random tokens NewSession may draw
  Reqs,           \* requests in flight at a time
  NoUser, NoPassword, NoToken,
  GrantedRoles,   \* the roles an admin may send in a PATCH or POST
  FirstAdmin,     \* the account made by `vialboard user create`
  FirstPassword,
  Lifetime,       \* sessionLifetime, in clock ticks
  MaxTime         \* bound on the clock

Role == {"viewer", "manager", "admin"}

ASSUME SentinelAssumption ==
  /\ NoUser \notin Users
  /\ NoPassword \notin Passwords
  /\ NoToken \notin Tokens

ASSUME InputAssumption ==
  /\ GrantedRoles \subseteq Role
  /\ FirstAdmin \in Users
  /\ FirstPassword \in Passwords

ASSUME ClockAssumption ==
  /\ Lifetime \in Nat \ {0}
  /\ MaxTime \in Nat

VARIABLES
  users,      \* the users table: role "none" is a row not there yet
  sessions,   \* the sessions table: user NoUser is a row not there yet
  req,        \* what each request in flight has read and is about to write
  now         \* the clock the application and the database read

vars == <<users, sessions, req, now>>

Row == [role : Role \union {"none"},
        password : Passwords \union {NoPassword},
        active : BOOLEAN]

NoRow == [role |-> "none", password |-> NoPassword, active |-> FALSE]

\* revoked = 0 is revoked_at IS NULL: stamps count from 1.
Session == [user : Users \union {NoUser}, created : Nat, revoked : Nat]

NoSession == [user |-> NoUser, created |-> 0, revoked |-> 0]

Request == [pc : {"idle", "authed", "ready", "waiting", "locked"},
            op : {"none", "session", "password", "save"},
            user : Users \union {NoUser},
            row : Row,
            token : Tokens \union {NoToken},
            at : Nat,
            doomed : SUBSET Tokens]

\* A request that has not yet reached the repository's transaction.
Begun(pc, op, u, row, t) ==
  [pc |-> pc, op |-> op, user |-> u, row |-> row, token |-> t, at |-> 0, doomed |-> {}]

Idle == Begun("idle", "none", NoUser, NoRow, NoToken)

PasswordOnly(pw) == [role |-> "none", password |-> pw, active |-> FALSE]

TypeOK ==
  /\ users \in [Users -> Row]
  /\ sessions \in [Tokens -> Session]
  /\ req \in [Reqs -> Request]
  /\ now \in Nat \ {0}

-----------------------------------------------------------------------------
(* Reading the tables *)

Exists(u) == users[u].role # "none"

Current(u) == {t \in Tokens : sessions[t].user = u /\ sessions[t].revoked = 0}

ExpiresAt(t) == sessions[t].created + Lifetime

Locked(u) == \E q \in Reqs : req[q].pc = "locked" /\ req[q].user = u

\* A session row another open transaction has already revoked is locked.
SessionRowFree(t) == \A q \in Reqs : t \notin req[q].doomed

-----------------------------------------------------------------------------
(* Helpers the actions are written with *)

Greatest(a, b) == IF a >= b THEN a ELSE b

\* The request is handed to the repository, which will run operation o on user u.
Handed(r, o, u, row) == [req EXCEPT ![r] = Begun("ready", o, u, row, NoToken)]

\* Slip: the connection goes back to the pool with its transaction still open.
ReleasedButOpen(r) ==
  [req EXCEPT ![r].op = "none", ![r].pc = IF @ = "locked" THEN "locked" ELSE "idle"]

\* The response is sent, and the transaction, if there is one, has ended.
Released(r) == [req EXCEPT ![r] = Idle]

\* Slip: revoked_at is set to the caller's clock without GREATEST.
StampedAt(set, at) ==
  [t \in Tokens |-> IF t \in set THEN [sessions[t] EXCEPT !.revoked = at] ELSE sessions[t]]

\* SET revoked_at = GREATEST(created_at, at) on the rows of the set.
Revoked(set, at) ==
  [t \in Tokens |->
     IF t \in set
     THEN [sessions[t] EXCEPT !.revoked = Greatest(sessions[t].created, at)]
     ELSE sessions[t]]

-----------------------------------------------------------------------------
(* Requests without a bearer token *)

\* Login finds the row by username, verifies the password against it and
\* checks active; a failed check answers 401 and changes nothing.
LoginRead(r, u, pw) ==
  /\ req[r].pc = "idle"
  /\ Exists(u)
  /\ users[u].password = pw
  /\ users[u].active
  /\ req' = Handed(r, "session", u, NoRow)
  /\ UNCHANGED <<users, sessions, now>>

\* Register commits the account first and starts its session afterwards, in a
\* second transaction; a taken username answers 409.
Register(r, u, pw) ==
  /\ req[r].pc = "idle"
  /\ ~Exists(u)
  /\ users' = [users EXCEPT ![u] = [role |-> "viewer", password |-> pw, active |-> TRUE]]
  /\ req' = Handed(r, "session", u, NoRow)
  /\ UNCHANGED <<sessions, now>>

-----------------------------------------------------------------------------
(* Requests with a bearer token *)

\* The middleware's one SELECT joins the session and its user; the row it
\* returns is the actor for the rest of the request.
Authenticate(r, t) ==
  LET u == sessions[t].user IN
  /\ req[r].pc = "idle"
  /\ u # NoUser
  /\ sessions[t].revoked = 0
  /\ ExpiresAt(t) > now
  /\ users[u].active
  /\ req' = [req EXCEPT ![r] = Begun("authed", "none", u, users[u], t)]
  /\ UNCHANGED <<users, sessions, now>>

\* requireRole(admin), against the row read by the middleware.
ActsAsAdmin(r) == req[r].pc = "authed" /\ req[r].row.role = "admin"

\* The current password is verified against the actor's row, so the caller
\* who gets here supplied req[r].row.password; any other answers 400.
ChangePassword(r, pw) ==
  /\ req[r].pc = "authed"
  /\ req' = Handed(r, "password", req[r].user, PasswordOnly(pw))
  /\ UNCHANGED <<users, sessions, now>>

ResetPassword(r, u, pw) ==
  /\ ActsAsAdmin(r)
  /\ Exists(u)
  /\ req' = Handed(r, "password", u, PasswordOnly(pw))
  /\ UNCHANGED <<users, sessions, now>>

\* Slip: the role is not optional, so one that was not sent is saved as "".
UpdateAccessEmptied(r, u, role, active) ==
  LET sent == IF role \in GrantedRoles THEN role ELSE "" IN
  /\ ActsAsAdmin(r)
  /\ Exists(u)
  /\ role \in GrantedRoles \union {users[u].role}
  /\ req' = Handed(r, "save", u, [users[u] EXCEPT !.role = sent, !.active = active])
  /\ UNCHANGED <<users, sessions, now>>

\* UpdateAccess reads the whole row, applies the fields the admin sent to that
\* copy and hands the copy over.  Sending neither field answers 400; a field not
\* sent keeps the value just read, as if that value had been sent.
UpdateAccess(r, u, role, active) ==
  /\ ActsAsAdmin(r)
  /\ Exists(u)
  /\ role \in GrantedRoles \union {users[u].role}
  /\ req' = Handed(r, "save", u, [users[u] EXCEPT !.role = role, !.active = active])
  /\ UNCHANGED <<users, sessions, now>>

CreateUser(r, u, pw, role) ==
  /\ ActsAsAdmin(r)
  /\ ~Exists(u)
  /\ users' = [users EXCEPT ![u] = [role |-> role, password |-> pw, active |-> TRUE]]
  /\ req' = Released(r)
  /\ UNCHANGED <<sessions, now>>

\* RevokeSession is one UPDATE: it waits for a transaction that already holds
\* the session's row, and then finds nothing to revoke (401).
Logout(r) ==
  LET t == req[r].token IN
  /\ req[r].pc = "authed"
  /\ SessionRowFree(t)
  /\ sessions' = IF sessions[t].revoked = 0
                 THEN [sessions EXCEPT ![t].revoked = now]
                 ELSE sessions
  /\ req' = Released(r)
  /\ UNCHANGED <<users, now>>

-----------------------------------------------------------------------------
(* The transactions of UserRepository *)

\* time.Now() for a new session or password; the start of the transaction,
\* which is what CURRENT_TIMESTAMP reads, for a PATCH.
Stamp(r) ==
  /\ req[r].pc = "ready"
  /\ req' = [req EXCEPT ![r].pc = "waiting", ![r].at = now]
  /\ UNCHANGED <<users, sessions, now>>

\* The sessions the transaction's UPDATE finds once it holds the user's row.
ToRevoke(r) ==
  IF req[r].op = "save" /\ req[r].row.active THEN {} ELSE Current(req[r].user)

\* Slip: the row is read without FOR UPDATE.
LockWithoutWaiting(r) ==
  /\ req[r].pc = "waiting"
  /\ req[r].op = "session" => users[req[r].user].active
  /\ req' = [req EXCEPT ![r].pc = "locked", ![r].doomed = ToRevoke(r)]
  /\ UNCHANGED <<users, sessions, now>>

\* Slip: ReplaceSession trusts the active flag that Login read.
LockTrustingLogin(r) ==
  /\ req[r].pc = "waiting"
  /\ ~Locked(req[r].user)
  /\ req' = [req EXCEPT ![r].pc = "locked", ![r].doomed = ToRevoke(r)]
  /\ UNCHANGED <<users, sessions, now>>

\* SELECT ... FOR UPDATE, or the UPDATE of the users row, gets the row lock;
\* ReplaceSession checks active again in the locked row.
Lock(r) ==
  /\ req[r].pc = "waiting"
  /\ ~Locked(req[r].user)
  /\ req[r].op = "session" => users[req[r].user].active
  /\ req' = [req EXCEPT ![r].pc = "locked", ![r].doomed = ToRevoke(r)]
  /\ UNCHANGED <<users, sessions, now>>

\* ReplaceSession finds the user deactivated since Login read it: ErrInvalidCredentials.
Refuse(r) ==
  /\ req[r].pc = "waiting" /\ req[r].op = "session"
  /\ ~Locked(req[r].user)
  /\ ~users[req[r].user].active
  /\ req' = Released(r)
  /\ UNCHANGED <<users, sessions, now>>

\* Slip: the session is upserted, so a token that was revoked may come back.
CommitSessionUpserted(r, t) ==
  /\ req[r].pc = "locked" /\ req[r].op = "session"
  /\ sessions[t] = NoSession \/ sessions[t].user = req[r].user
  /\ sessions' = [Revoked(req[r].doomed, req[r].at) EXCEPT
                    ![t] = [user |-> req[r].user, created |-> req[r].at, revoked |-> 0]]
  /\ req' = Released(r)
  /\ UNCHANGED <<users, now>>

\* ReplaceSession commits: the user's other sessions are revoked at the new
\* session's creation time, or their own where that is later.
CommitSession(r, t) ==
  /\ req[r].pc = "locked" /\ req[r].op = "session"
  /\ sessions[t] = NoSession
  /\ sessions' = [Revoked(req[r].doomed, req[r].at) EXCEPT
                    ![t] = [user |-> req[r].user, created |-> req[r].at, revoked |-> 0]]
  /\ req' = Released(r)
  /\ UNCHANGED <<users, now>>

CommitPassword(r) ==
  /\ req[r].pc = "locked" /\ req[r].op = "password"
  /\ users' = [users EXCEPT ![req[r].user].password = req[r].row.password]
  /\ sessions' = Revoked(req[r].doomed, req[r].at)
  /\ req' = Released(r)
  /\ UNCHANGED now

\* Update saves the whole row as it was read before the lock, and revokes the
\* sessions of a row it saves as inactive.
CommitSave(r) ==
  /\ req[r].pc = "locked" /\ req[r].op = "save"
  /\ users' = [users EXCEPT ![req[r].user] = req[r].row]
  /\ sessions' = Revoked(req[r].doomed, req[r].at)
  /\ req' = Released(r)
  /\ UNCHANGED now

\* The request ends with nothing more written: a check failed, a statement
\* failed and the transaction rolled back, the client went away or the process
\* died.  What it committed before stays.
End(r) ==
  /\ req[r].pc # "idle"
  /\ req' = Released(r)
  /\ UNCHANGED <<users, sessions, now>>

Tick ==
  /\ now < MaxTime
  /\ now' = now + 1
  /\ UNCHANGED <<users, sessions, req>>

-----------------------------------------------------------------------------
Init ==
  /\ users = [u \in Users |->
                IF u = FirstAdmin
                THEN [role |-> "admin", password |-> FirstPassword, active |-> TRUE]
                ELSE NoRow]
  /\ sessions = [t \in Tokens |-> NoSession]
  /\ req = [r \in Reqs |-> Idle]
  /\ now = 1

Arrive(r) ==
  \/ \E u \in Users, pw \in Passwords : LoginRead(r, u, pw) \/ Register(r, u, pw)
  \/ \E t \in Tokens : Authenticate(r, t)

Handle(r) ==
  \/ \E pw \in Passwords : ChangePassword(r, pw)
  \/ \E u \in Users, pw \in Passwords : ResetPassword(r, u, pw)
  \/ \E u \in Users, role \in Role, active \in BOOLEAN : UpdateAccess(r, u, role, active)
  \/ \E u \in Users, pw \in Passwords, role \in GrantedRoles : CreateUser(r, u, pw, role)
  \/ Logout(r)

Commit(r) ==
  \/ \E t \in Tokens : CommitSession(r, t)
  \/ CommitPassword(r)
  \/ CommitSave(r)

Next ==
  \/ \E r \in Reqs : Arrive(r) \/ Handle(r) \/ Stamp(r) \/ Lock(r) \/ Refuse(r)
                   \/ Commit(r) \/ End(r)
  \/ Tick

\* A handler in progress goes on, and a transaction that has its lock commits or
\* rolls back: neither waits for anything.  PostgreSQL queues the waiters of a
\* row lock, so a request is not passed over for ever (strong fairness).
Fairness ==
  \A r \in Reqs :
    /\ WF_vars(Handle(r) \/ Commit(r) \/ (req[r].pc \in {"authed", "locked"} /\ End(r)))
    /\ WF_vars(Stamp(r))
    /\ SF_vars(Lock(r) \/ Refuse(r))

Spec == Init /\ [][Next]_vars
FairSpec == Spec /\ Fairness

-----------------------------------------------------------------------------
(* Properties *)

\* No user has two current sessions, whatever logins and registrations race:
\* the partial unique index of migration 00006 is never what stops a login
\* (user_repository.go:230-252).
OneCurrentSession ==
  \A t1, t2 \in Tokens :
    /\ sessions[t1].user # NoUser /\ sessions[t1].user = sessions[t2].user
    /\ sessions[t1].revoked = 0 /\ sessions[t2].revoked = 0
    => t1 = t2

\* A deactivated account has no current session, even when its login was
\* verified before the deactivation and stored after it
\* (user_repository.go:161-165, 236-238).
InactiveSignedOut ==
  \A t \in Tokens :
    sessions[t].user # NoUser /\ sessions[t].revoked = 0 => users[sessions[t].user].active

\* No statement is refused by CHECK (revoked_at >= created_at), although two
\* logins may commit in the opposite order of their clock readings and a PATCH
\* reads the start of its transaction (migration 00003:20).
RevokedNotBeforeCreated ==
  \A t \in Tokens : sessions[t].revoked # 0 => sessions[t].revoked >= sessions[t].created

\* A committed password change or reset leaves the user without a current
\* session, whichever logins raced it ("Password changes and resets revoke the
\* user's current session", README.MD:75).
PasswordChangeSignsOut ==
  [][\A r \in Reqs, u \in Users :
       /\ req[r].pc = "locked" /\ req[r].op = "password" /\ req[r].user = u
       /\ req'[r].pc # "locked"
       /\ <<users, sessions>>' # <<users, sessions>>
       => Current(u)' = {}]_vars

\* Only a password change or reset of that user changes a stored password: the
\* routes are listed as "Change role or activation (admin)" and "Reset a user's
\* password (admin)" (README.MD:39-40).  The code breaks this: CommitSave.
OnlyPasswordRequestsSetPasswords ==
  [][\A u \in Users :
       Exists(u) /\ users'[u].password # users[u].password
       => \E r \in Reqs : req[r].op = "password" /\ req[r].user = u /\ req'[r] # req[r]]_vars

\* A password change is about to commit while a PATCH of the same account has
\* read the row and not yet written its copy.
Outdating ==
  \E q, r \in Reqs :
    /\ req[q].op = "save"
    /\ req[r].op = "password" /\ req[r].pc = "locked"
    /\ req[q].user = req[r].user

\* Every request gets its answer: none waits for ever for a row lock.
Served == \A r \in Reqs : req[r].pc # "idle" ~> req[r].pc = "idle"

-----------------------------------------------------------------------------
(* Why the invariants hold: what a request knows at each step. *)

RequestsWellFormed ==
  \A r \in Reqs :
    /\ req[r].pc \in {"ready", "waiting", "locked"} => req[r].user \in Users
    /\ req[r].pc = "authed" =>
         /\ req[r].user \in Users /\ req[r].token \in Tokens
         /\ sessions[req[r].token].user = req[r].user
    /\ req[r].pc \in {"waiting", "locked"} => req[r].at \in 1..now
    /\ req[r].pc # "locked" => req[r].doomed = {}

\* FOR UPDATE: one transaction at a time holds a user's row.
Exclusive ==
  \A q, r \in Reqs :
    req[q].pc = "locked" /\ req[r].pc = "locked" /\ req[q].user = req[r].user => q = r

\* What a transaction read under its lock is still so when it commits.
ReadsHold ==
  \A r \in Reqs :
    req[r].pc = "locked" =>
      /\ req[r].doomed = ToRevoke(r)
      /\ req[r].op = "session" => users[req[r].user].active

StampsPast ==
  \A t \in Tokens :
    /\ sessions[t].created <= now
    /\ sessions[t].user # NoUser => sessions[t].created >= 1

\* The inductive invariant: the three promises of the store, and why they hold
\* when any number of requests race (user_repository.go:135-252).
IInv ==
  /\ TypeOK
  /\ RequestsWellFormed
  /\ Exclusive
  /\ ReadsHold
  /\ StampsPast
  /\ OneCurrentSession
  /\ InactiveSignedOut
  /\ RevokedNotBeforeCreated

-----------------------------------------------------------------------------
(* The store implements SessionSlot *)

SlotOf(u) == IF Current(u) = {} THEN NoToken ELSE CHOOSE t \in Current(u) : TRUE

Slot == INSTANCE SessionSlot
          WITH slot <- [u \in Users |-> SlotOf(u)],
               closed <- {t \in Tokens : sessions[t].revoked # 0},
               enabled <- {u \in Users : users[u].active}

\* Logging in, logging out, changing a password and changing access behave as
\* one slot per user whose closed tokens never open again (user_repository.go).
ImplementsSlot == Slot!SlotSpec
=============================================================================
