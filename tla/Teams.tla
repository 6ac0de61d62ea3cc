------------------------------- MODULE Teams -------------------------------
(***************************************************************************)
(* Teams and their members: the handlers of teams_api.go and the PATCH of  *)
(* an account's role or activation, TeamService, UserRepository.SetTeam    *)
(* and Update, TeamRepository, and the triggers and foreign keys of        *)
(* migrations 00011 and 00013, run by concurrent requests at READ          *)
(* COMMITTED.                                                              *)
(*                                                                         *)
(* Accounts and teams point at each other: a viewer belongs to at most one *)
(* team, a team names the manager it belongs to, and an issue of a team is *)
(* assigned to one of its members.  Writes to users take the row FOR       *)
(* UPDATE.  Writes to teams check the manager in a trigger, which reads    *)
(* without locking, and take FOR KEY SHARE on the manager's row only when  *)
(* the foreign key is checked, at the end of the statement; FOR KEY SHARE  *)
(* waits for FOR UPDATE.                                                   *)
(*                                                                         *)
(* Who may send a request is the Sessions module's: here an active account *)
(* is an account that has a token.                                         *)
(***************************************************************************)
EXTENDS Naturals, FiniteSets

CONSTANTS
  Users, Teams, Issues, Reqs,
  NoUser, NoTeam,
  GrantedRoles,     \* the roles an admin may send in a PATCH
  StartUsers, StartTeams, StartIssues   \* the board the requests find

Role == {"viewer", "manager", "admin"}

\* An account; role "none" is a row not there yet.
Account == [role : Role \union {"none"}, active : BOOLEAN, team : Teams \union {NoTeam}]

Placement == [team : Teams \union {NoTeam}, assignee : Users \union {NoUser}]

NoAccount == [role |-> "none", active |-> FALSE, team |-> NoTeam]

ASSUME SentinelAssumption == NoUser \notin Users /\ NoTeam \notin Teams

ASSUME RoleAssumption == GrantedRoles \subseteq Role \union {"worker"}

\* The board at the start has what the code keeps (MembersAreViewers and
\* AssigneesBelong, below).
ASSUME StartAssumption ==
  /\ StartUsers \in [Users -> Account]
  /\ StartTeams \in [Teams -> Users \union {NoUser}]
  /\ StartIssues \in [Issues -> Placement]
  /\ \A u \in Users : StartUsers[u].team # NoTeam => StartUsers[u].role = "viewer"
  /\ \A i \in Issues :
       StartIssues[i].team # NoTeam /\ StartIssues[i].assignee # NoUser
       => StartUsers[StartIssues[i].assignee].team = StartIssues[i].team

VARIABLES
  users,      \* the users table
  teams,      \* teams[t] is the team's manager; NoUser: no such team yet
  issues,     \* where the issues are placed
  req         \* what each request in flight has read and is about to write

vars == <<users, teams, issues, req>>

\* role is the actor's, as the middleware read it.
Request == [pc : {"idle", "authed", "managing", "ready", "checked", "locked", "saved"},
            op : {"none", "create", "assign", "move", "save"},
            actor : Users \union {NoUser},
            role : Role \union {"none"},
            user : Users \union {NoUser},
            team : Teams \union {NoTeam},
            from : Teams \union {NoTeam},
            row : Account]

\* A request that has not yet reached a repository's write.
Begun(pc, actor, role, t) ==
  [pc |-> pc, op |-> "none", actor |-> actor, role |-> role, user |-> NoUser,
   team |-> t, from |-> NoTeam, row |-> NoAccount]

Idle == Begun("idle", NoUser, "none", NoTeam)

TypeOK ==
  /\ users \in [Users -> Account]
  /\ teams \in [Teams -> Users \union {NoUser}]
  /\ issues \in [Issues -> Placement]
  /\ req \in [Reqs -> Request]

-----------------------------------------------------------------------------
(* Reading the tables *)

Exists(u) == users[u].role # "none"

ActiveManager(u) == users[u].role = "manager" /\ users[u].active

Manages(u) == \E t \in Teams : teams[t] = u

\* A row to be saved that is not an active manager's.
Demotes(row) == row.role # "manager" \/ ~row.active

\* A transaction holds the row FOR UPDATE.
Locked(u) == \E q \in Reqs : req[q].pc \in {"locked", "saved"} /\ req[q].user = u

\* A statement is updating the team's row.
TeamLocked(t) ==
  \E q \in Reqs : req[q].pc = "checked" /\ req[q].op = "assign" /\ req[q].team = t

-----------------------------------------------------------------------------
(* Helpers the actions are written with *)

\* The service hands the write o of user u and team t over to a repository.
Handed(r, o, u, t, from, row) ==
  [req EXCEPT ![r] = [pc |-> "ready", op |-> o, actor |-> NoUser, role |-> req[r].role,
                      user |-> u, team |-> t, from |-> from, row |-> row]]

Moved(r, pc) == [req EXCEPT ![r].pc = pc]

Released(r) == [req EXCEPT ![r] = Idle]

\* Slip: assignments are cleared only when the member joins another team.
UnassignedOnTransfer(u, t) ==
  [i \in Issues |->
     IF issues[i].team = users[u].team /\ issues[i].assignee = u /\ t \notin {NoTeam, users[u].team}
     THEN [issues[i] EXCEPT !.assignee = NoUser]
     ELSE issues[i]]

\* A member who leaves the team for t is unassigned from its issues.
Unassigned(u, t) ==
  [i \in Issues |->
     IF /\ users[u].team # NoTeam /\ users[u].team # t
        /\ issues[i].team = users[u].team /\ issues[i].assignee = u
     THEN [issues[i] EXCEPT !.assignee = NoUser]
     ELSE issues[i]]

\* "worker" is another name of the viewer.
ParseRole(role) == IF role = "worker" THEN "viewer" ELSE role

\* Slip: the role is stored as it was sent.
PatchedUnparsed(row, role, active) ==
  [row EXCEPT !.active = active, !.role = IF role = "unsent" THEN @ ELSE role]

\* Slip: a new role leaves the account in its team.
PatchedRoleOnly(row, role, active) ==
  [row EXCEPT !.active = active, !.role = IF role = "unsent" THEN @ ELSE ParseRole(role)]

\* ApplyAccessUpdate: a role other than viewer ends the membership.
Patched(row, role, active) ==
  [role |-> IF role = "unsent" THEN row.role ELSE ParseRole(role),
   active |-> active,
   team |-> IF role = "unsent" \/ ParseRole(role) = "viewer" THEN row.team ELSE NoTeam]

-----------------------------------------------------------------------------
(* The first half of a handler: authorization and reads *)

Authenticate(r, u) ==
  /\ req[r].pc = "idle"
  /\ users[u].active
  /\ req' = [req EXCEPT ![r] = Begun("authed", u, users[u].role, NoTeam)]
  /\ UNCHANGED <<users, teams, issues>>

\* A manager creates a team for themselves, unchecked here; an admin names an
\* active manager.
CreateTeam(r, t, m) ==
  /\ req[r].pc = "authed"
  /\ \/ req[r].role = "manager" /\ m = req[r].actor
     \/ req[r].role = "admin" /\ ActiveManager(m)
  /\ req' = Handed(r, "create", m, t, NoTeam, NoAccount)
  /\ UNCHANGED <<users, teams, issues>>

\* Naming the manager the team already has changes nothing.
AssignManager(r, t, m) ==
  /\ req[r].pc = "authed" /\ req[r].role = "admin"
  /\ teams[t] \notin {NoUser, m}
  /\ ActiveManager(m)
  /\ req' = Handed(r, "assign", m, t, NoTeam, NoAccount)
  /\ UNCHANGED <<users, teams, issues>>

RequireManaged(r, t) ==
  /\ req[r].pc = "authed"
  /\ teams[t] # NoUser
  /\ \/ req[r].role = "admin"
     \/ req[r].role = "manager" /\ teams[t] = req[r].actor
  /\ req' = [req EXCEPT ![r] = Begun("managing", NoUser, req[r].role, t)]
  /\ UNCHANGED <<users, teams, issues>>

\* Adding a member of the team changes nothing; a member of another team is
\* taken over by an admin only.
AddMember(r, u) ==
  /\ req[r].pc = "managing"
  /\ users[u].role = "viewer" /\ users[u].active
  /\ users[u].team # req[r].team
  /\ users[u].team = NoTeam \/ req[r].role = "admin"
  /\ req' = Handed(r, "move", u, req[r].team, users[u].team, NoAccount)
  /\ UNCHANGED <<users, teams, issues>>

RemoveMember(r, u) ==
  /\ req[r].pc = "managing"
  /\ Exists(u) /\ users[u].team = req[r].team
  /\ req' = Handed(r, "move", u, NoTeam, req[r].team, NoAccount)
  /\ UNCHANGED <<users, teams, issues>>

CreateInTeam(r, u) ==
  /\ req[r].pc = "managing"
  /\ ~Exists(u)
  /\ users' = [users EXCEPT ![u] = [role |-> "viewer", active |-> TRUE, team |-> req[r].team]]
  /\ req' = Released(r)
  /\ UNCHANGED <<teams, issues>>

\* The row is read whole and patched; it is written back whole by CommitSave.
UpdateAccess(r, u, role, active) ==
  /\ req[r].pc = "authed" /\ req[r].role = "admin"
  /\ Exists(u)
  /\ req' = Handed(r, "save", u, NoTeam, NoTeam, Patched(users[u], role, active))
  /\ UNCHANGED <<users, teams, issues>>

-----------------------------------------------------------------------------
(* The second half: one statement of TeamRepository *)

\* Slip: the trigger looks at the role and forgets the activation.
CheckManagerRole(r) ==
  /\ req[r].pc = "ready" /\ req[r].op \in {"create", "assign"}
  /\ req[r].op = "assign" => ~TeamLocked(req[r].team)
  /\ users[req[r].user].role = "manager"
  /\ req' = Moved(r, "checked")
  /\ UNCHANGED <<users, teams, issues>>

\* require_active_team_manager, after the row of an existing team is locked.
CheckManager(r) ==
  /\ req[r].pc = "ready" /\ req[r].op \in {"create", "assign"}
  /\ req[r].op = "assign" => ~TeamLocked(req[r].team)
  /\ ActiveManager(req[r].user)
  /\ req' = Moved(r, "checked")
  /\ UNCHANGED <<users, teams, issues>>

\* Slip: the manager is not a foreign key.
CommitManagerUnreferenced(r) ==
  /\ req[r].pc = "checked"
  /\ req[r].op = "create" => teams[req[r].team] = NoUser
  /\ teams' = [teams EXCEPT ![req[r].team] = req[r].user]
  /\ req' = Released(r)
  /\ UNCHANGED <<users, issues>>

\* The statement ends: the unique index refuses a second team of the name, and
\* the foreign key of a new manager_id waits for a transaction that holds the
\* manager's row.
CommitManager(r) ==
  /\ req[r].pc = "checked"
  /\ req[r].op = "create" => teams[req[r].team] = NoUser
  /\ teams[req[r].team] # req[r].user => ~Locked(req[r].user)
  /\ teams' = [teams EXCEPT ![req[r].team] = req[r].user]
  /\ req' = Released(r)
  /\ UNCHANGED <<users, issues>>

-----------------------------------------------------------------------------
(* The second half: the transactions of UserRepository *)

\* Slip: the team read before the lock is not compared again.
LockForMoveUnexpected(r) ==
  /\ req[r].pc = "ready" /\ req[r].op = "move"
  /\ ~Locked(req[r].user)
  /\ users[req[r].user].role = "viewer"
  /\ req' = Moved(r, "locked")
  /\ UNCHANGED <<users, teams, issues>>

\* Slip: the row is found by its id alone.
LockForMoveAnyRole(r) ==
  /\ req[r].pc = "ready" /\ req[r].op = "move"
  /\ ~Locked(req[r].user)
  /\ users[req[r].user].team = req[r].from
  /\ req' = Moved(r, "locked")
  /\ UNCHANGED <<users, teams, issues>>

\* SetTeam: SELECT ... FOR UPDATE of a viewer, who must still be where the
\* service found them.
LockForMove(r) ==
  /\ req[r].pc = "ready" /\ req[r].op = "move"
  /\ ~Locked(req[r].user)
  /\ users[req[r].user].role = "viewer"
  /\ users[req[r].user].team = req[r].from
  /\ req' = Moved(r, "locked")
  /\ UNCHANGED <<users, teams, issues>>

CommitMove(r) ==
  /\ req[r].pc = "locked" /\ req[r].op = "move"
  /\ users' = [users EXCEPT ![req[r].user] = [users[req[r].user] EXCEPT !.team = req[r].team]]
  /\ issues' = Unassigned(req[r].user, req[r].team)
  /\ req' = Released(r)
  /\ UNCHANGED teams

LockForSave(r) ==
  /\ req[r].pc = "ready" /\ req[r].op = "save"
  /\ ~Locked(req[r].user)
  /\ req' = Moved(r, "locked")
  /\ UNCHANGED <<users, teams, issues>>

\* Slip: the trigger looks at demotions and forgets deactivations.
CheckDemotion(r) ==
  /\ req[r].pc = "locked" /\ req[r].op = "save"
  /\ req[r].row.role # "manager" => ~Manages(req[r].user)
  /\ req' = Moved(r, "saved")
  /\ UNCHANGED <<users, teams, issues>>

\* Slip: the trigger waits for statements on the teams it reads.
CheckManagedWaiting(r) ==
  /\ req[r].pc = "locked" /\ req[r].op = "save"
  /\ Demotes(req[r].row) => ~Manages(req[r].user) /\ \A t \in Teams : ~TeamLocked(t)
  /\ req' = Moved(r, "saved")
  /\ UNCHANGED <<users, teams, issues>>

\* UPDATE users with preserve_managed_team_manager, which sees committed teams.
CheckManaged(r) ==
  /\ req[r].pc = "locked" /\ req[r].op = "save"
  /\ Demotes(req[r].row) => ~Manages(req[r].user)
  /\ req' = Moved(r, "saved")
  /\ UNCHANGED <<users, teams, issues>>

CommitSave(r) ==
  /\ req[r].pc = "saved"
  /\ users' = [users EXCEPT ![req[r].user] = req[r].row]
  /\ issues' = Unassigned(req[r].user, req[r].row.team)
  /\ req' = Released(r)
  /\ UNCHANGED teams

\* A check fails: the trigger on teams, the name of a new team, the row SetTeam
\* expected, the trigger on users.  The transaction rolls back.
Refuse(r) ==
  LET u == req[r].user IN
  /\ \/ /\ req[r].pc = "ready" /\ req[r].op \in {"create", "assign"}
        /\ ~ActiveManager(u)
     \/ /\ req[r].pc = "checked" /\ req[r].op = "create"
        /\ teams[req[r].team] # NoUser
     \/ /\ req[r].pc = "ready" /\ req[r].op = "move"
        /\ ~Locked(u)
        /\ users[u].role # "viewer" \/ users[u].team # req[r].from
     \/ /\ req[r].pc = "locked" /\ req[r].op = "save"
        /\ Demotes(req[r].row) /\ Manages(u)
  /\ req' = Released(r)
  /\ UNCHANGED <<users, teams, issues>>

\* The service refuses or has nothing to do, a statement fails, the client goes
\* away or the process dies: nothing is written.
End(r) ==
  /\ req[r].pc # "idle"
  /\ req' = Released(r)
  /\ UNCHANGED <<users, teams, issues>>

-----------------------------------------------------------------------------
Init ==
  /\ users = StartUsers
  /\ teams = StartTeams
  /\ issues = StartIssues
  /\ req = [r \in Reqs |-> Idle]

ManageTeam(r) ==
  \/ \E t \in Teams, m \in Users : CreateTeam(r, t, m) \/ AssignManager(r, t, m)
  \/ \E t \in Teams : RequireManaged(r, t)

ManageMember(r) ==
  \/ \E u \in Users : AddMember(r, u) \/ RemoveMember(r, u) \/ CreateInTeam(r, u)
  \/ \E u \in Users, role \in GrantedRoles \union {"unsent"}, active \in BOOLEAN :
       UpdateAccess(r, u, role, active)

Write(r) ==
  \/ CheckManager(r) \/ CommitManager(r)
  \/ LockForMove(r) \/ CommitMove(r)
  \/ LockForSave(r) \/ CheckManaged(r) \/ CommitSave(r)
  \/ Refuse(r)

Next ==
  \E r \in Reqs :
    \/ \E u \in Users : Authenticate(r, u)
    \/ ManageTeam(r) \/ ManageMember(r)
    \/ Write(r)
    \/ End(r)

\* A handler goes on or answers; a statement that waits for a row is not passed
\* over for ever, because PostgreSQL queues the waiters (strong fairness).
Fairness ==
  \A r \in Reqs :
    /\ WF_vars(ManageTeam(r) \/ ManageMember(r)
               \/ (req[r].pc \in {"authed", "managing"} /\ End(r)))
    /\ SF_vars(Write(r))

Spec == Init /\ [][Next]_vars
FairSpec == Spec /\ Fairness

-----------------------------------------------------------------------------
(* Properties *)

\* Only viewers belong to a team, although SetTeam and a PATCH of the role may
\* each have read the row before the other wrote it (user_repository.go:178-198,
\* auth.go:87-96).
MembersAreViewers == \A u \in Users : users[u].team # NoTeam => users[u].role = "viewer"

\* An issue of a team is assigned to a member of that team however members are
\* moved, removed, promoted and patched with stale rows: "Removing a worker from
\* a team also clears their assignments for that team's issues" (README.MD:75,
\* user_repository.go:151-157, 190-196).
AssigneesBelong ==
  \A i \in Issues :
    issues[i].team # NoTeam /\ issues[i].assignee # NoUser
    => users[issues[i].assignee].team = issues[i].team

\* While a committed team names an account as its manager, no PATCH that commits
\* demotes or deactivates it: the trigger's unlocked read is still true at the
\* commit, because a new manager_id waits for the row (migration 00013:50-64).
ManagersStay ==
  [][\A u \in Users : ActiveManager(u) /\ ~ActiveManager(u)' => ~Manages(u)]_vars

\* A manager never takes a member of another team: only an admin's request moves
\* a user straight from one team to another (teams.go:161-163,
\* user_repository.go:187-189).
OnlyAdminsTransfer ==
  [][\A u \in Users :
       users[u].team # NoTeam /\ users'[u].team \notin {NoTeam, users[u].team}
       => \E r \in Reqs : req[r].role = "admin" /\ req[r].user = u /\ req'[r] # req[r]]_vars

\* "Managers with teams cannot be demoted or deactivated" (README.MD:75): every
\* team has an active manager.  The code breaks this: CheckManager reads the
\* manager before the foreign key makes the statement wait for the demotion.
TeamsHaveActiveManagers == \A t \in Teams : teams[t] # NoUser => ActiveManager(teams[t])

\* A team is being given to an account that is being demoted or deactivated: each
\* trigger has looked, and neither transaction is visible to the other.
Skewed ==
  \E q, r \in Reqs :
    /\ req[q].pc = "checked" /\ req[r].pc = "saved"
    /\ req[q].user = req[r].user /\ Demotes(req[r].row)

\* That overlap is the only way: without it the promise is kept whatever else
\* races, because each trigger sees what the other transaction has committed
\* (migration 00013:8-64).
ActiveUnlessSkewed == []~Skewed => []TeamsHaveActiveManagers

\* Every request gets its answer: the row locks on users and teams are never
\* taken in opposite orders.
Served == \A r \in Reqs : req[r].pc # "idle" ~> req[r].pc = "idle"

-----------------------------------------------------------------------------
(* Why the invariants hold *)

WellFormed(q) ==
  /\ q.pc \in {"ready", "checked", "locked", "saved"} => q.user \in Users
  /\ q.op \in {"create", "assign"} => q.team \in Teams
  /\ q.op = "save" /\ q.row.team # NoTeam => q.row.role = "viewer"
  /\ q.pc = "checked" => q.op \in {"create", "assign"}
  /\ q.pc = "locked" => q.op \in {"move", "save"}
  /\ q.pc = "saved" => q.op = "save"

RequestsWellFormed == \A r \in Reqs : WellFormed(req[r])

\* FOR UPDATE: one transaction at a time holds a user's row.
Exclusive ==
  \A q, r \in Reqs :
    /\ req[q].pc \in {"locked", "saved"} /\ req[r].pc \in {"locked", "saved"}
    /\ req[q].user = req[r].user
    => q = r

\* What a transaction checked under its lock is still so when it commits.
CheckHolds(q) ==
  /\ q.pc = "locked" /\ q.op = "move" => users[q.user].role = "viewer"
  /\ q.pc = "saved" /\ Demotes(q.row) => ~Manages(q.user)

ChecksHold == \A r \in Reqs : CheckHolds(req[r])

\* The part of it that holds whoever else writes issues (user_repository.go:135-203,
\* migration 00013).
MemberInv ==
  /\ TypeOK
  /\ RequestsWellFormed
  /\ Exclusive
  /\ ChecksHold
  /\ MembersAreViewers

\* The inductive invariant.
IInv == MemberInv /\ AssigneesBelong
=============================================================================
