---------------------------- MODULE TeamsProofs ----------------------------
(***************************************************************************)
(* Theorems about Teams, for any board to start from and any number of     *)
(* accounts, teams, issues and concurrent requests.                        *)
(***************************************************************************)
EXTENDS Teams, TLAPS

USE SentinelAssumption, RoleAssumption

Holding(q) == q.pc \in {"locked", "saved"}

\* What a step of a membership request promises: the assignments it keeps, it
\* keeps whether or not somebody else has broken them before.
Keeps == MemberInv' /\ (AssigneesBelong => AssigneesBelong')

-----------------------------------------------------------------------------
(* The constant records have their types. *)

LEMMA BegunTyped ==
  ASSUME NEW pc \in {"idle", "authed", "managing"}, NEW a \in Users \union {NoUser},
         NEW role \in Role \union {"none"}, NEW t \in Teams \union {NoTeam}
  PROVE  Begun(pc, a, role, t) \in Request /\ WellFormed(Begun(pc, a, role, t))
BY DEF Begun, Request, NoAccount, Account, WellFormed

LEMMA IdleTyped == Idle \in Request /\ WellFormed(Idle) /\ Idle.pc = "idle"
BY BegunTyped DEF Idle, Begun

\* The request that a handler leaves behind when it calls a repository.
HandedOver(r, o, u, t, from, row) ==
  [pc |-> "ready", op |-> o, actor |-> NoUser, role |-> req[r].role,
   user |-> u, team |-> t, from |-> from, row |-> row]

LEMMA HandedTyped ==
  ASSUME TypeOK, NEW r \in Reqs, NEW o \in {"create", "assign", "move", "save"},
         NEW u \in Users, NEW t \in Teams \union {NoTeam}, NEW from \in Teams \union {NoTeam},
         NEW row \in Account,
         o \in {"create", "assign"} => t \in Teams,
         row.team # NoTeam => row.role = "viewer"
  PROVE  /\ HandedOver(r, o, u, t, from, row) \in Request
         /\ WellFormed(HandedOver(r, o, u, t, from, row))
         /\ HandedOver(r, o, u, t, from, row).pc = "ready"
<1>1. req[r].role \in Role \union {"none"}
  BY DEF TypeOK, Request
<1>. QED BY <1>1 DEF HandedOver, Request, WellFormed

LEMMA NoAccountTyped == NoAccount \in Account /\ NoAccount.team = NoTeam
BY DEF NoAccount, Account

\* A patched row is an account again, and a patched viewer's team is the only
\* team a patched row has.
LEMMA PatchedTyped ==
  ASSUME NEW row \in Account, NEW role \in GrantedRoles \union {"unsent"}, NEW active \in BOOLEAN,
         row.team # NoTeam => row.role = "viewer"
  PROVE  /\ Patched(row, role, active) \in Account
         /\ Patched(row, role, active).team # NoTeam => Patched(row, role, active).role = "viewer"
BY DEF Patched, ParseRole, Account, Role

LEMMA UnassignedTyped ==
  ASSUME TypeOK, NEW u \in Users, NEW t \in Teams \union {NoTeam}
  PROVE  /\ Unassigned(u, t) \in [Issues -> Placement]
         /\ \A i \in Issues :
              /\ Unassigned(u, t)[i].team = issues[i].team
              /\ Unassigned(u, t)[i].assignee \in {issues[i].assignee, NoUser}
              /\ /\ issues[i].assignee = u /\ issues[i].team = users[u].team
                 /\ users[u].team \notin {NoTeam, t}
                 => Unassigned(u, t)[i].assignee = NoUser
BY DEF Unassigned, TypeOK, Placement

-----------------------------------------------------------------------------
(* Steps that write no table *)

\* A request that takes no row lock somebody else holds, and whose checks hold,
\* may read, lock, check or end.
LEMMA QuietStep ==
  ASSUME MemberInv, NEW r \in Reqs, NEW q \in Request,
         req' = [req EXCEPT ![r] = q],
         UNCHANGED <<users, teams, issues>>,
         WellFormed(q), CheckHolds(q),
         Holding(q) => \A s \in Reqs \ {r} : Holding(req[s]) => req[s].user # q.user
  PROVE  Keeps
<1>0. TypeOK /\ req \in [Reqs -> Request]
  BY DEF MemberInv, TypeOK
<1>1. \A s \in Reqs : req'[s] = IF s = r THEN q ELSE req[s]
  BY <1>0
<1>2. TypeOK'
  BY <1>0 DEF TypeOK
<1>3. RequestsWellFormed'
  BY <1>1 DEF MemberInv, RequestsWellFormed
<1>4. Exclusive'
  BY <1>1 DEF MemberInv, Exclusive, Holding
<1>5. ChecksHold'
  <2> SUFFICES ASSUME NEW s \in Reqs PROVE CheckHolds(req[s])'
    BY DEF ChecksHold
  <2>1. CheckHolds(req[s])
    BY DEF MemberInv, ChecksHold
  <2>2. \A u : Manages(u)' = Manages(u)
    BY DEF Manages
  <2>. QED BY <1>1, <2>1, <2>2 DEF CheckHolds
<1>6. MembersAreViewers' /\ (AssigneesBelong => AssigneesBelong')
  BY DEF MemberInv, MembersAreViewers, AssigneesBelong
<1>. QED BY <1>2, <1>3, <1>4, <1>5, <1>6 DEF MemberInv, Keeps

LEMMA ReleaseStep ==
  ASSUME MemberInv, NEW r \in Reqs, req' = Released(r), UNCHANGED <<users, teams, issues>>
  PROVE  Keeps
<1>1. CheckHolds(Idle) /\ ~Holding(Idle)
  BY IdleTyped DEF CheckHolds, Holding
<1>. QED BY <1>1, IdleTyped, QuietStep DEF Released

LEMMA HandedStep ==
  ASSUME MemberInv, NEW r \in Reqs, NEW o \in {"create", "assign", "move", "save"},
         NEW u \in Users, NEW t \in Teams \union {NoTeam}, NEW from \in Teams \union {NoTeam},
         NEW row \in Account,
         o \in {"create", "assign"} => t \in Teams,
         row.team # NoTeam => row.role = "viewer",
         req' = Handed(r, o, u, t, from, row), UNCHANGED <<users, teams, issues>>
  PROVE  Keeps
<1> DEFINE q == HandedOver(r, o, u, t, from, row)
<1>1. q \in Request /\ WellFormed(q) /\ q.pc = "ready"
  BY HandedTyped DEF MemberInv
<1>2. req' = [req EXCEPT ![r] = q]
  BY DEF Handed, HandedOver
<1>. HIDE DEF q
<1>3. CheckHolds(q) /\ ~Holding(q)
  BY <1>1 DEF CheckHolds, Holding
<1>. QED BY <1>1, <1>2, <1>3, QuietStep

LEMMA BegunStep ==
  ASSUME MemberInv, NEW r \in Reqs, NEW pc \in {"authed", "managing"},
         NEW a \in Users \union {NoUser}, NEW role \in Role \union {"none"},
         NEW t \in Teams \union {NoTeam},
         req' = [req EXCEPT ![r] = Begun(pc, a, role, t)], UNCHANGED <<users, teams, issues>>
  PROVE  Keeps
<1> DEFINE q == Begun(pc, a, role, t)
<1>1. q \in Request /\ WellFormed(q)
  BY BegunTyped
<1>2. q.pc = pc
  BY DEF Begun
<1>. HIDE DEF q
<1>3. CheckHolds(q) /\ ~Holding(q)
  BY <1>2 DEF CheckHolds, Holding
<1>. QED BY <1>1, <1>3, QuietStep DEF q

\* Reading, and handing over what was read.
LEMMA ReadersKeep ==
  ASSUME MemberInv, NEW r \in Reqs,
         \/ \E u \in Users : Authenticate(r, u) \/ AddMember(r, u) \/ RemoveMember(r, u)
         \/ ManageTeam(r)
         \/ \E u \in Users, role \in GrantedRoles \union {"unsent"}, active \in BOOLEAN :
              UpdateAccess(r, u, role, active)
  PROVE  Keeps
<1>0. /\ TypeOK /\ req[r] \in Request
      /\ req[r].role \in Role \union {"none"} /\ req[r].team \in Teams \union {NoTeam}
  BY DEF MemberInv, TypeOK, Request
<1>1. \A u \in Users : users[u] \in Account /\ users[u].team \in Teams \union {NoTeam}
                       /\ users[u].role \in Role \union {"none"}
  BY <1>0 DEF TypeOK, Account
<1>2. ASSUME NEW u \in Users, Authenticate(r, u)
      PROVE  Keeps
  BY <1>1, <1>2, BegunStep DEF Authenticate
<1>3. ASSUME NEW u \in Users, AddMember(r, u)
      PROVE  Keeps
  BY <1>0, <1>1, <1>3, HandedStep, NoAccountTyped DEF AddMember
<1>4. ASSUME NEW u \in Users, RemoveMember(r, u)
      PROVE  Keeps
  BY <1>0, <1>1, <1>4, HandedStep, NoAccountTyped DEF RemoveMember
<1>5. ASSUME NEW t \in Teams, NEW m \in Users, CreateTeam(r, t, m) \/ AssignManager(r, t, m)
      PROVE  Keeps
  BY <1>5, HandedStep, NoAccountTyped DEF CreateTeam, AssignManager
<1>6. ASSUME NEW t \in Teams, RequireManaged(r, t)
      PROVE  Keeps
  BY <1>0, <1>6, BegunStep DEF RequireManaged
<1>7. ASSUME NEW u \in Users, NEW role \in GrantedRoles \union {"unsent"}, NEW active \in BOOLEAN,
             UpdateAccess(r, u, role, active)
      PROVE  Keeps
  <2>1. users[u].team # NoTeam => users[u].role = "viewer"
    BY DEF MemberInv, MembersAreViewers
  <2>2. /\ Patched(users[u], role, active) \in Account
        /\ Patched(users[u], role, active).team # NoTeam
             => Patched(users[u], role, active).role = "viewer"
    BY <1>1, <2>1, PatchedTyped
  <2>. QED BY <1>7, <2>2, HandedStep DEF UpdateAccess
<1>. QED BY <1>2, <1>3, <1>4, <1>5, <1>6, <1>7 DEF ManageTeam

\* Taking a row lock, and checking under it.
LEMMA CheckersKeep ==
  ASSUME MemberInv, NEW r \in Reqs,
         CheckManager(r) \/ LockForMove(r) \/ LockForSave(r) \/ CheckManaged(r)
  PROVE  Keeps
<1>0. /\ TypeOK /\ req \in [Reqs -> Request] /\ req[r] \in Request
      /\ WellFormed(req[r]) /\ CheckHolds(req[r])
  BY DEF MemberInv, TypeOK, RequestsWellFormed, ChecksHold
<1>1. ASSUME NEW pc \in {"checked", "locked", "saved"}, req' = Moved(r, pc),
             UNCHANGED <<users, teams, issues>>,
             pc = "checked" => req[r].op \in {"create", "assign"},
             pc = "locked" => req[r].op \in {"move", "save"},
             pc = "saved" => req[r].op = "save",
             req[r].user \in Users,
             pc = "locked" /\ req[r].op = "move" => users[req[r].user].role = "viewer",
             pc = "saved" /\ Demotes(req[r].row) => ~Manages(req[r].user),
             pc \in {"locked", "saved"} => ~Locked(req[r].user) \/ Holding(req[r])
      PROVE  Keeps
  <2> DEFINE q == [req[r] EXCEPT !.pc = pc]
  <2>1. q \in Request /\ req' = [req EXCEPT ![r] = q]
    BY <1>0, <1>1 DEF Moved, Request
  <2>2. /\ q.pc = pc /\ q.op = req[r].op /\ q.user = req[r].user /\ q.team = req[r].team
        /\ q.row = req[r].row
    BY <1>0 DEF Request
  <2>. HIDE DEF q
  <2>3. WellFormed(q) /\ CheckHolds(q)
    BY <1>0, <1>1, <2>2 DEF WellFormed, CheckHolds
  <2>4. Holding(q) => \A s \in Reqs \ {r} : Holding(req[s]) => req[s].user # q.user
    BY <1>1, <2>2 DEF Holding, Locked, MemberInv, Exclusive
  <2>. QED BY <1>1, <2>1, <2>3, <2>4, QuietStep
<1>2. CASE CheckManager(r)
  BY <1>0, <1>1, <1>2 DEF CheckManager, WellFormed
<1>3. CASE LockForMove(r)
  BY <1>0, <1>1, <1>3 DEF LockForMove, WellFormed
<1>4. CASE LockForSave(r)
  BY <1>0, <1>1, <1>4 DEF LockForSave, WellFormed
<1>5. CASE CheckManaged(r)
  BY <1>0, <1>1, <1>5 DEF CheckManaged, WellFormed, Holding
<1>. QED BY <1>2, <1>3, <1>4, <1>5

LEMMA EndersKeep ==
  ASSUME MemberInv, NEW r \in Reqs, Refuse(r) \/ End(r)
  PROVE  Keeps
BY ReleaseStep DEF Refuse, End

-----------------------------------------------------------------------------
(* Steps that commit *)

\* What the end of a request does to the invariant's conjuncts about requests,
\* when the accounts that others hold stay viewers and no team is given to them.
LEMMA CommitStep ==
  ASSUME MemberInv, NEW r \in Reqs, req' = Released(r),
         \A s \in Reqs \ {r} :
           Holding(req[s]) =>
             /\ users[req[s].user].role = "viewer" => users'[req[s].user].role = "viewer"
             /\ \A t \in Teams : teams'[t] = req[s].user => Manages(req[s].user)
  PROVE  RequestsWellFormed' /\ Exclusive' /\ ChecksHold' /\ req' \in [Reqs -> Request]
<1>0. TypeOK /\ req \in [Reqs -> Request]
  BY DEF MemberInv, TypeOK
<1>1. \A s \in Reqs : req'[s] = IF s = r THEN Idle ELSE req[s]
  BY <1>0 DEF Released
<1>2. ~Holding(Idle)
  BY IdleTyped DEF Holding
<1>3. RequestsWellFormed'
  BY <1>1, IdleTyped DEF MemberInv, RequestsWellFormed
<1>4. Exclusive'
  BY <1>1, <1>2 DEF MemberInv, Exclusive, Holding
<1>5. ChecksHold'
  <2> SUFFICES ASSUME NEW s \in Reqs PROVE CheckHolds(req[s])'
    BY DEF ChecksHold
  <2>1. CASE s = r
    BY <1>1, <2>1, IdleTyped DEF CheckHolds
  <2>2. CASE s # r
    <3>1. CheckHolds(req[s]) /\ req'[s] = req[s]
      BY <1>1, <2>2 DEF MemberInv, ChecksHold
    <3>2. Holding(req[s]) =>
            /\ users[req[s].user].role = "viewer" => users'[req[s].user].role = "viewer"
            /\ \A t \in Teams : teams'[t] = req[s].user => Manages(req[s].user)
      BY <2>2
    <3>. QED BY <3>1, <3>2 DEF CheckHolds, Holding, Manages
  <2>. QED BY <2>1, <2>2
<1>6. req' \in [Reqs -> Request]
  BY <1>0, IdleTyped DEF Released
<1>. QED BY <1>3, <1>4, <1>5, <1>6

\* A team gets a manager.
LEMMA ManagerKeeps ==
  ASSUME MemberInv, NEW r \in Reqs, CommitManager(r)
  PROVE  Keeps
<1> DEFINE m == req[r].user
           t == req[r].team
<1>0. /\ TypeOK /\ WellFormed(req[r]) /\ teams \in [Teams -> Users \union {NoUser}]
      /\ m \in Users /\ t \in Teams /\ ~Holding(req[r])
  BY DEF MemberInv, TypeOK, RequestsWellFormed, CommitManager, WellFormed, Holding
<1>1. /\ req' = Released(r) /\ users' = users /\ issues' = issues
      /\ teams' = [teams EXCEPT ![t] = m]
      /\ teams[t] # m => ~Locked(m)
  BY DEF CommitManager
<1>. HIDE DEF m, t
<1>2. ASSUME NEW s \in Reqs \ {r}, NEW x \in Teams, Holding(req[s]), teams'[x] = req[s].user
      PROVE  Manages(req[s].user)
  <2>1. CASE x # t \/ teams[t] = m
    <3>1. teams[x] = req[s].user
      BY <1>0, <1>1, <1>2, <2>1
    <3>. QED BY <3>1 DEF Manages
  <2>2. CASE x = t /\ teams[t] # m
    <3>1. req[s].user = m /\ ~Locked(m)
      BY <1>0, <1>1, <1>2, <2>2
    <3>. QED BY <1>2, <3>1 DEF Locked, Holding
  <2>. QED BY <2>1, <2>2
<1>3. RequestsWellFormed' /\ Exclusive' /\ ChecksHold' /\ req' \in [Reqs -> Request]
  BY <1>1, <1>2, CommitStep
<1>4. TypeOK'
  BY <1>0, <1>1, <1>3 DEF TypeOK
<1>5. MembersAreViewers' /\ (AssigneesBelong => AssigneesBelong')
  BY <1>1 DEF MemberInv, MembersAreViewers, AssigneesBelong
<1>. QED BY <1>3, <1>4, <1>5 DEF MemberInv, Keeps

\* One account's row is written, and it is unassigned from a team it leaves.
LEMMA RowKeeps ==
  ASSUME MemberInv, NEW r \in Reqs, NEW u \in Users, NEW row \in Account,
         row.team # NoTeam => row.role = "viewer",
         row.role = "viewer" \/ \A s \in Reqs \ {r} : Holding(req[s]) => req[s].user # u,
         req' = Released(r), teams' = teams,
         users' = [users EXCEPT ![u] = row],
         issues' = Unassigned(u, row.team)
  PROVE  Keeps
<1>0. /\ TypeOK /\ users \in [Users -> Account] /\ issues \in [Issues -> Placement]
      /\ row.team \in Teams \union {NoTeam}
  BY DEF MemberInv, TypeOK, Account
<1>1. \A v \in Users : users'[v] = IF v = u THEN row ELSE users[v]
  BY <1>0
<1>2. \A v : \A t \in Teams : teams'[t] = v => Manages(v)
  BY DEF Manages
<1>3. \A s \in Reqs : Holding(req[s]) => req[s].user \in Users
  BY DEF MemberInv, RequestsWellFormed, WellFormed, Holding
<1>4. RequestsWellFormed' /\ Exclusive' /\ ChecksHold' /\ req' \in [Reqs -> Request]
  BY <1>1, <1>2, <1>3, CommitStep
<1>5. TypeOK'
  BY <1>0, <1>4, UnassignedTyped DEF TypeOK
<1>6. MembersAreViewers'
  BY <1>1 DEF MemberInv, MembersAreViewers
<1>7. AssigneesBelong => AssigneesBelong'
  <2> SUFFICES ASSUME AssigneesBelong, NEW i \in Issues, issues'[i].team # NoTeam, issues'[i].assignee # NoUser
               PROVE  users'[issues'[i].assignee].team = issues'[i].team
    BY DEF AssigneesBelong
  <2>1. /\ issues'[i].team = issues[i].team /\ issues'[i].assignee = issues[i].assignee
        /\ issues[i].assignee \in Users
    BY <1>0, UnassignedTyped DEF Placement
  <2>2. users[issues[i].assignee].team = issues[i].team
    BY <2>1 DEF AssigneesBelong
  <2>3. CASE issues[i].assignee # u
    BY <1>1, <2>1, <2>2, <2>3
  <2>4. CASE issues[i].assignee = u
    <3>1. users[u].team = row.team
      BY <1>0, <2>1, <2>2, <2>4, UnassignedTyped
    <3>. QED BY <1>1, <2>1, <2>2, <2>4, <3>1
  <2>. QED BY <2>3, <2>4
<1>. QED BY <1>4, <1>5, <1>6, <1>7 DEF MemberInv, Keeps

LEMMA RowCommitsKeep ==
  ASSUME MemberInv, NEW r \in Reqs,
         CommitMove(r) \/ CommitSave(r) \/ \E u \in Users : CreateInTeam(r, u)
  PROVE  Keeps
<1>0. /\ TypeOK /\ WellFormed(req[r]) /\ CheckHolds(req[r]) /\ req[r] \in Request
      /\ users \in [Users -> Account]
      /\ req[r].team \in Teams \union {NoTeam} /\ req[r].row \in Account
  BY DEF MemberInv, TypeOK, RequestsWellFormed, ChecksHold, Request
<1>1. Holding(req[r]) => /\ req[r].user \in Users
                         /\ \A s \in Reqs \ {r} : Holding(req[s]) => req[s].user # req[r].user
  BY <1>0 DEF WellFormed, MemberInv, Exclusive, Holding
<1>2. CASE CommitMove(r)
  <2> DEFINE row == [users[req[r].user] EXCEPT !.team = req[r].team]
  <2>1. Holding(req[r]) /\ users[req[r].user].role = "viewer"
    BY <1>0, <1>2 DEF CommitMove, CheckHolds, Holding
  <2>2. row \in Account /\ row.team = req[r].team /\ row.role = "viewer"
    BY <1>0, <1>1, <2>1 DEF Account
  <2>3. /\ req' = Released(r) /\ teams' = teams /\ users' = [users EXCEPT ![req[r].user] = row]
        /\ issues' = Unassigned(req[r].user, row.team)
    BY <1>2, <2>2 DEF CommitMove
  <2>. HIDE DEF row
  <2>. QED BY <1>1, <2>1, <2>2, <2>3, RowKeeps
<1>3. CASE CommitSave(r)
  <2>1. Holding(req[r]) /\ (req[r].row.team # NoTeam => req[r].row.role = "viewer")
    BY <1>0, <1>3 DEF CommitSave, WellFormed, Holding
  <2>. QED BY <1>0, <1>1, <1>3, <2>1, RowKeeps DEF CommitSave
<1>4. ASSUME NEW u \in Users, CreateInTeam(r, u)
      PROVE  Keeps
  <2> DEFINE row == [role |-> "viewer", active |-> TRUE, team |-> req[r].team]
  <2>1. row \in Account /\ row.role = "viewer"
    BY <1>0 DEF Account, Role
  <2>2. users[u].team = NoTeam
    BY <1>4 DEF CreateInTeam, Exists, MemberInv, MembersAreViewers
  <2>3. issues = Unassigned(u, row.team)
    BY <1>0, <2>2 DEF Unassigned, TypeOK
  <2>4. /\ req' = Released(r) /\ teams' = teams /\ users' = [users EXCEPT ![u] = row]
        /\ issues' = Unassigned(u, row.team)
    BY <1>4, <2>3 DEF CreateInTeam
  <2>. HIDE DEF row
  <2>. QED BY <2>1, <2>4, RowKeeps
<1>. QED BY <1>2, <1>3, <1>4

-----------------------------------------------------------------------------
(* The invariant *)

LEMMA InitIInv == Init => IInv
<1> SUFFICES ASSUME Init PROVE MemberInv /\ AssigneesBelong
  BY DEF IInv
<1>1. \A r \in Reqs : req[r] = Idle
  BY DEF Init
<1>2. TypeOK
  BY IdleTyped, StartAssumption DEF Init, TypeOK
<1>3. RequestsWellFormed /\ Exclusive /\ ChecksHold
  BY <1>1, IdleTyped DEF RequestsWellFormed, Exclusive, ChecksHold, CheckHolds
<1>4. MembersAreViewers /\ AssigneesBelong
  BY StartAssumption DEF Init, MembersAreViewers, AssigneesBelong
<1>. QED BY <1>2, <1>3, <1>4 DEF MemberInv

LEMMA NextKeeps == MemberInv /\ [Next]_vars => Keeps
<1> SUFFICES ASSUME MemberInv, [Next]_vars PROVE Keeps
  OBVIOUS
<1>1. ASSUME NEW r \in Reqs, (\E u \in Users : Authenticate(r, u)) \/ ManageTeam(r) \/ ManageMember(r)
      PROVE  Keeps
  BY <1>1, ReadersKeep, RowCommitsKeep DEF ManageMember
<1>2. ASSUME NEW r \in Reqs, Write(r) \/ End(r)
      PROVE  Keeps
  BY <1>2, CheckersKeep, ManagerKeeps, RowCommitsKeep, EndersKeep DEF Write
<1>3. CASE UNCHANGED vars
  <2>1. TypeOK' /\ RequestsWellFormed' /\ Exclusive'
    BY <1>3 DEF vars, MemberInv, TypeOK, RequestsWellFormed, Exclusive
  <2>2. ChecksHold' /\ MembersAreViewers' /\ (AssigneesBelong => AssigneesBelong')
    BY <1>3 DEF vars, MemberInv, ChecksHold, CheckHolds, Manages, MembersAreViewers, AssigneesBelong
  <2>. QED BY <2>1, <2>2 DEF MemberInv, Keeps
<1>. QED BY <1>1, <1>2, <1>3 DEF Next

LEMMA NextKeepsIInv == IInv /\ [Next]_vars => IInv'
BY NextKeeps DEF IInv, Keeps

\* An active manager ceases to be one by the commit of a save that says so.
LEMMA StepDemotes ==
  ASSUME MemberInv, [Next]_vars, NEW u \in Users, ActiveManager(u), ~ActiveManager(u)'
  PROVE  \E r \in Reqs : req[r].pc = "saved" /\ req[r].user = u /\ Demotes(req[r].row)
<1>0. users \in [Users -> Account] /\ req \in [Reqs -> Request]
  BY DEF MemberInv, TypeOK
<1>1. users'[u] # users[u]
  BY DEF ActiveManager
<1>2. PICK r \in Reqs : CommitMove(r) \/ CommitSave(r) \/ \E v \in Users : CreateInTeam(r, v)
  BY <1>1 DEF Next, vars, ManageTeam, ManageMember, Write, Authenticate, CreateTeam, AssignManager,
              RequireManaged, AddMember, RemoveMember, UpdateAccess, CheckManager, CommitManager,
              LockForMove, LockForSave, CheckManaged, Refuse, End
<1>3. CASE CommitMove(r)
  <2>1. users'[u].role = users[u].role /\ users'[u].active = users[u].active
    BY <1>0, <1>3 DEF CommitMove, Account
  <2>. QED BY <2>1 DEF ActiveManager
<1>4. CASE CommitSave(r)
  <2>1. req[r].user = u /\ users'[u] = req[r].row
    BY <1>0, <1>1, <1>4 DEF CommitSave
  <2>2. Demotes(req[r].row)
    BY <2>1 DEF ActiveManager, Demotes
  <2>. QED BY <1>4, <2>1, <2>2 DEF CommitSave
<1>5. ASSUME NEW v \in Users, CreateInTeam(r, v)
      PROVE  FALSE
  BY <1>0, <1>1, <1>5 DEF CreateInTeam, Exists, ActiveManager
<1>. QED BY <1>2, <1>3, <1>4, <1>5

\* Nobody loses an active manager's row while a team names them.
LEMMA StepKeepsManagers ==
  ASSUME MemberInv, [Next]_vars, NEW u \in Users, ActiveManager(u), ~ActiveManager(u)'
  PROVE  ~Manages(u)
BY StepDemotes DEF MemberInv, ChecksHold, CheckHolds

-----------------------------------------------------------------------------
(* Teams whose manager is active *)

\* What the trigger on teams checked is so until the statement ends.
StillActive == \A q \in Reqs : req[q].pc = "checked" => ActiveManager(req[q].user)

\* A statement that has passed the trigger passed it before or passes it now.
LEMMA StepChecks ==
  ASSUME MemberInv, [Next]_vars, NEW q \in Reqs, req'[q].pc = "checked"
  PROVE  \/ req[q].pc = "checked" /\ req'[q].user = req[q].user
         \/ CheckManager(q) /\ req'[q].user = req[q].user
<1>0. req \in [Reqs -> Request] /\ Idle.pc # "checked"
  BY IdleTyped DEF MemberInv, TypeOK
<1> SUFFICES ASSUME req'[q] # req[q] PROVE CheckManager(q) /\ req'[q].user = req[q].user
  OBVIOUS
<1>1. CASE (\E u \in Users : Authenticate(q, u)) \/ ManageTeam(q) \/ ManageMember(q)
  BY <1>0, <1>1 DEF Authenticate, ManageTeam, ManageMember, CreateTeam, AssignManager,
                    RequireManaged, AddMember, RemoveMember, CreateInTeam, UpdateAccess, Handed,
                    Begun, Released
<1>2. CASE Write(q) \/ End(q)
  BY <1>0, <1>2 DEF Write, CheckManager, CommitManager, LockForMove, CommitMove, LockForSave,
                    CheckManaged, CommitSave, Refuse, End, Moved, Released, Request
<1>3. ASSUME NEW r \in Reqs \ {q},
             \/ \E u \in Users : Authenticate(r, u)
             \/ ManageTeam(r) \/ ManageMember(r) \/ Write(r) \/ End(r)
      PROVE  req'[q] = req[q]
  BY <1>0, <1>3 DEF Authenticate, ManageTeam, ManageMember, CreateTeam, AssignManager,
                    RequireManaged, AddMember, RemoveMember, CreateInTeam, UpdateAccess, Write,
                    CheckManager, CommitManager, LockForMove, CommitMove, LockForSave,
                    CheckManaged, CommitSave, Refuse, End, Handed, Moved, Released
<1>. QED BY <1>1, <1>2, <1>3 DEF Next, vars

\* A team gets the manager of a statement that has passed the trigger.
LEMMA StepGivesTeam ==
  ASSUME MemberInv, [Next]_vars, NEW t \in Teams, teams'[t] # teams[t]
  PROVE  users' = users /\ \E q \in Reqs : req[q].pc = "checked" /\ teams'[t] = req[q].user
<1>1. PICK r \in Reqs : CommitManager(r)
  BY DEF Next, vars, ManageTeam, ManageMember, Write, Authenticate, CreateTeam, AssignManager,
         RequireManaged, AddMember, RemoveMember, CreateInTeam, UpdateAccess, CheckManager,
         LockForMove, CommitMove, LockForSave, CheckManaged, CommitSave, Refuse, End
<1>. QED BY <1>1 DEF CommitManager, MemberInv, TypeOK

\* Unless the two are skewed, no step makes inactive a manager who has a team or
\* is being given one.
LEMMA StepKeepsActive ==
  ASSUME MemberInv, StillActive, TeamsHaveActiveManagers, ~Skewed, [Next]_vars
  PROVE  StillActive' /\ TeamsHaveActiveManagers'
<1>0. \A q \in Reqs : req[q].pc = "checked" => req[q].user \in Users
  BY DEF MemberInv, RequestsWellFormed, WellFormed
<1>1. ASSUME NEW q \in Reqs, req'[q].pc = "checked"
      PROVE  ActiveManager(req[q].user)'
  <2>1. CASE CheckManager(q) /\ req'[q].user = req[q].user
    BY <2>1 DEF CheckManager, ActiveManager
  <2>2. CASE req[q].pc = "checked" /\ req'[q].user = req[q].user
    <3>1. ActiveManager(req[q].user) /\ req[q].user \in Users
      BY <1>0, <2>2 DEF StillActive
    <3>2. ASSUME NEW u \in Users, u = req[q].user, ActiveManager(u), ~ActiveManager(u)'
          PROVE  FALSE
      BY <2>2, <3>2, StepDemotes DEF Skewed
    <3>. QED BY <2>2, <3>1, <3>2 DEF ActiveManager
  <2>. QED BY <1>1, <2>1, <2>2, StepChecks
<1>2. ASSUME NEW t \in Teams, teams'[t] # NoUser
      PROVE  ActiveManager(teams[t])'
  <2>1. CASE teams'[t] # teams[t]
    BY <2>1, StepGivesTeam DEF StillActive, ActiveManager
  <2>2. CASE teams'[t] = teams[t]
    <3>1. teams[t] \in Users /\ ActiveManager(teams[t])
      BY <1>2, <2>2 DEF MemberInv, TypeOK, TeamsHaveActiveManagers
    <3>2. ASSUME NEW u \in Users, u = teams[t], ActiveManager(u), ~ActiveManager(u)'
          PROVE  FALSE
      BY <3>2, StepKeepsManagers DEF Manages
    <3>. QED BY <2>2, <3>1, <3>2 DEF ActiveManager
  <2>. QED BY <2>1, <2>2
<1>. QED BY <1>1, <1>2 DEF StillActive, TeamsHaveActiveManagers

-----------------------------------------------------------------------------
(* Who may transfer *)

\* The role a transferring request acts with, and the team a locked member is
\* still in: SetTeam compares it with the one the service read (teams.go:161-163,
\* user_repository.go:187-189).
Authorized(q) ==
  /\ /\ q.op = "move" /\ q.pc \in {"ready", "locked"}
     /\ q.team # NoTeam /\ q.from # NoTeam
     => q.role = "admin"
  /\ q.op = "save" /\ q.pc \in {"ready", "locked", "saved"} => q.role = "admin"
  /\ q.op = "move" /\ q.pc = "locked" => users[q.user].team = q.from

AllAuthorized == \A r \in Reqs : Authorized(req[r])

LEMMA IdleAuthorized == Authorized(Idle)
BY DEF Authorized, Idle, Begun

\* A step of one request that writes no account.
LEMMA QuietAuthorized ==
  ASSUME TypeOK, AllAuthorized, NEW r \in Reqs, NEW q,
         req' = [req EXCEPT ![r] = q], users' = users, Authorized(q)
  PROVE  AllAuthorized'
<1>1. \A s \in Reqs : req'[s] = IF s = r THEN q ELSE req[s]
  BY DEF TypeOK
<1>2. \A s \in Reqs : Authorized(req[s])
  BY DEF AllAuthorized
<1>. QED BY <1>1, <1>2 DEF AllAuthorized, Authorized

\* A step that ends a request and writes an account no other request moves.
LEMMA WriteAuthorized ==
  ASSUME TypeOK, AllAuthorized, NEW r \in Reqs, NEW u \in Users, NEW row,
         users' = [users EXCEPT ![u] = row], req' = Released(r),
         \A s \in Reqs \ {r} : req[s].op = "move" /\ req[s].pc = "locked" => req[s].user # u
  PROVE  AllAuthorized'
<1>1. \A s \in Reqs : req'[s] = IF s = r THEN Idle ELSE req[s]
  BY DEF TypeOK, Released
<1>2. \A v \in Users \union {NoUser} : v # u => users'[v] = users[v]
  BY DEF TypeOK
<1>3. \A s \in Reqs : Authorized(req[s]) /\ req[s].user \in Users \union {NoUser}
  BY DEF AllAuthorized, TypeOK, Request
<1>4. Idle.op = "none"
  BY DEF Idle, Begun
<1>. QED BY <1>1, <1>2, <1>3, <1>4 DEF AllAuthorized, Authorized

LEMMA NextKeepsAuthorized == MemberInv /\ AllAuthorized /\ [Next]_vars => AllAuthorized'
<1> SUFFICES ASSUME MemberInv, AllAuthorized, [Next]_vars PROVE AllAuthorized'
  OBVIOUS
<1>0. TypeOK
  BY DEF MemberInv
<1>1. ASSUME NEW r \in Reqs, req' = Released(r), users' = users
      PROVE  AllAuthorized'
  BY <1>0, <1>1, IdleAuthorized, QuietAuthorized DEF Released
<1>2. ASSUME NEW r \in Reqs, NEW pc \in {"authed", "managing"}, NEW a, NEW role, NEW t,
             req' = [req EXCEPT ![r] = Begun(pc, a, role, t)], users' = users
      PROVE  AllAuthorized'
  <2>1. Authorized(Begun(pc, a, role, t))
    BY DEF Authorized, Begun
  <2>. QED BY <1>0, <1>2, <2>1, QuietAuthorized
<1>3. ASSUME NEW r \in Reqs, NEW o \in {"create", "assign", "move", "save"},
             NEW u, NEW t, NEW from, NEW row,
             req' = Handed(r, o, u, t, from, row), users' = users,
             req[r].role = "admin" \/ o \in {"create", "assign"}
             \/ (o = "move" /\ (t = NoTeam \/ from = NoTeam))
      PROVE  AllAuthorized'
  <2>1. Authorized(HandedOver(r, o, u, t, from, row))
    BY <1>3 DEF Authorized, HandedOver
  <2>. QED BY <1>0, <1>3, <2>1, QuietAuthorized DEF Handed, HandedOver
<1>4. ASSUME NEW r \in Reqs, NEW u \in Users, AddMember(r, u)
      PROVE  AllAuthorized'
  BY <1>3, <1>4 DEF AddMember
<1>5. ASSUME NEW r \in Reqs, NEW u \in Users, RemoveMember(r, u)
      PROVE  AllAuthorized'
  BY <1>3, <1>5 DEF RemoveMember
<1>6. ASSUME NEW r \in Reqs, NEW u \in Users, NEW role, NEW active, UpdateAccess(r, u, role, active)
      PROVE  AllAuthorized'
  BY <1>3, <1>6 DEF UpdateAccess
<1>7. ASSUME NEW r \in Reqs, ManageTeam(r) \/ \E u \in Users : Authenticate(r, u)
      PROVE  AllAuthorized'
  <2>1. CASE ManageTeam(r)
    <3>1. ASSUME NEW t \in Teams, NEW m \in Users, CreateTeam(r, t, m) \/ AssignManager(r, t, m)
          PROVE  AllAuthorized'
      BY <1>3, <3>1 DEF CreateTeam, AssignManager
    <3>2. ASSUME NEW t \in Teams, RequireManaged(r, t)
          PROVE  AllAuthorized'
      BY <1>2, <3>2 DEF RequireManaged
    <3>. QED BY <2>1, <3>1, <3>2 DEF ManageTeam
  <2>2. CASE \E u \in Users : Authenticate(r, u)
    <3>1. PICK u \in Users : req' = [req EXCEPT ![r] = Begun("authed", u, users[u].role, NoTeam)]
                            /\ users' = users
      BY <2>2 DEF Authenticate
    <3>. QED BY <1>2, <3>1
  <2>. QED BY <1>7, <2>1, <2>2
<1>8. ASSUME NEW r \in Reqs, NEW pc \in {"checked", "locked", "saved"}, req' = Moved(r, pc), users' = users,
             CheckManager(r) \/ LockForMove(r) \/ LockForSave(r) \/ CheckManaged(r)
      PROVE  AllAuthorized'
  <2> DEFINE q == [req[r] EXCEPT !.pc = pc]
  <2>1. /\ q.pc = pc /\ q.op = req[r].op /\ q.team = req[r].team /\ q.from = req[r].from
        /\ q.role = req[r].role /\ q.user = req[r].user
    BY <1>0 DEF TypeOK, Request
  <2>2. req' = [req EXCEPT ![r] = q]
    BY <1>8 DEF Moved
  <2>3. pc = "locked" /\ req[r].op = "move" => users[req[r].user].team = req[r].from
    <3>1. req'[r].pc = pc
      BY <1>0, <2>1, <2>2 DEF TypeOK
    <3>. QED BY <1>0, <1>8, <3>1 DEF CheckManager, LockForMove, LockForSave, CheckManaged
  <2>4. Authorized(req[r]) /\ req[r].pc \in {"ready", "locked"}
    BY <1>8 DEF AllAuthorized, CheckManager, LockForMove, LockForSave, CheckManaged
  <2>. HIDE DEF q
  <2>5. Authorized(q)
    BY <2>1, <2>3, <2>4 DEF Authorized
  <2>. QED BY <1>0, <1>8, <2>2, <2>5, QuietAuthorized
<1>9. ASSUME NEW r \in Reqs, CommitMove(r) \/ CommitSave(r)
      PROVE  AllAuthorized'
  <2>1. req[r].user \in Users /\ Holding(req[r])
    BY <1>9 DEF MemberInv, RequestsWellFormed, WellFormed, CommitMove, CommitSave, Holding
  <2>2. \A s \in Reqs \ {r} : req[s].op = "move" /\ req[s].pc = "locked" => req[s].user # req[r].user
    BY <2>1 DEF MemberInv, Exclusive, Holding
  <2>. QED BY <1>0, <1>9, <2>1, <2>2, WriteAuthorized DEF CommitMove, CommitSave
<1>10. ASSUME NEW r \in Reqs, NEW u \in Users, CreateInTeam(r, u)
       PROVE  AllAuthorized'
  <2>1. \A s \in Reqs \ {r} : req[s].op = "move" /\ req[s].pc = "locked" => req[s].user # u
    BY <1>10 DEF CreateInTeam, Exists, MemberInv, ChecksHold, CheckHolds
  <2>. QED BY <1>0, <1>10, <2>1, WriteAuthorized DEF CreateInTeam
<1>11. ASSUME NEW r \in Reqs, Write(r)
       PROVE  AllAuthorized'
  <2>1. CASE CheckManager(r) \/ LockForMove(r) \/ LockForSave(r) \/ CheckManaged(r)
    BY <1>8, <2>1 DEF CheckManager, LockForMove, LockForSave, CheckManaged
  <2>2. CASE CommitManager(r) \/ Refuse(r)
    BY <1>1, <2>2 DEF CommitManager, Refuse
  <2>. QED BY <1>9, <1>11, <2>1, <2>2 DEF Write
<1>12. CASE UNCHANGED vars
  BY <1>12 DEF vars, AllAuthorized, Authorized
<1>13. ASSUME NEW r \in Reqs, ManageMember(r) \/ End(r)
       PROVE  AllAuthorized'
  BY <1>1, <1>4, <1>5, <1>6, <1>10, <1>13 DEF ManageMember, End
<1>. QED BY <1>7, <1>11, <1>12, <1>13 DEF Next

\* A member's team changes by the commit of a move or of a save.
LEMMA StepLeaves ==
  ASSUME MemberInv, [Next]_vars, NEW u \in Users,
         users[u].team # NoTeam, users'[u].team # users[u].team
  PROVE  \E r \in Reqs :
           /\ req[r].user = u /\ req'[r] # req[r]
           /\ \/ /\ req[r].pc = "locked" /\ req[r].op = "move"
                 /\ users'[u].team = req[r].team
              \/ /\ req[r].pc = "saved" /\ req[r].op = "save"
                 /\ users'[u].team = req[r].row.team
<1>0. users \in [Users -> Account] /\ req \in [Reqs -> Request]
  BY DEF MemberInv, TypeOK
<1>1. users'[u] # users[u]
  OBVIOUS
<1>2. PICK r \in Reqs : CommitMove(r) \/ CommitSave(r) \/ \E v \in Users : CreateInTeam(r, v)
  BY <1>1 DEF Next, vars, ManageTeam, ManageMember, Write, Authenticate, CreateTeam, AssignManager,
              RequireManaged, AddMember, RemoveMember, UpdateAccess, CheckManager, CommitManager,
              LockForMove, LockForSave, CheckManaged, Refuse, End
<1>3. ASSUME NEW v \in Users, CreateInTeam(r, v)
      PROVE  FALSE
  <2>1. v = u
    BY <1>0, <1>1, <1>3 DEF CreateInTeam
  <2>. QED BY <1>3, <2>1 DEF CreateInTeam, Exists, MemberInv, MembersAreViewers
<1>4. CASE CommitMove(r)
  <2>1. req[r].user = u /\ users'[u].team = req[r].team
    BY <1>0, <1>1, <1>4 DEF CommitMove, Account
  <2>2. req'[r] # req[r]
    BY <1>0, <1>4, IdleTyped DEF CommitMove, Released
  <2>. QED BY <1>4, <2>1, <2>2 DEF CommitMove
<1>5. CASE CommitSave(r)
  <2>1. req[r].user = u /\ users'[u].team = req[r].row.team
    BY <1>0, <1>1, <1>5 DEF CommitSave
  <2>2. req'[r] # req[r] /\ req[r].op = "save"
    BY <1>0, <1>5, IdleTyped DEF CommitSave, Released, MemberInv, RequestsWellFormed, WellFormed
  <2>. QED BY <1>5, <2>1, <2>2 DEF CommitSave
<1>. QED BY <1>2, <1>3, <1>4, <1>5

\* The step that changes a member's team is a commit of an authorized request.
LEMMA StepTransfers ==
  ASSUME MemberInv, AllAuthorized, [Next]_vars, NEW u \in Users,
         users[u].team # NoTeam, users'[u].team \notin {NoTeam, users[u].team}
  PROVE  \E r \in Reqs : req[r].role = "admin" /\ req[r].user = u /\ req'[r] # req[r]
BY StepLeaves DEF AllAuthorized, Authorized

-----------------------------------------------------------------------------
(* Theorems *)

\* Every reachable state of any board satisfies the inductive invariant.
THEOREM Invariance == Spec => []IInv
BY InitIInv, NextKeepsIInv, PTL DEF Spec

\* Every row and every request in flight keeps its type (teams.go, users.go).
THEOREM TypeCorrect == Spec => []TypeOK
<1>1. IInv => TypeOK
  BY DEF IInv, MemberInv
<1>. QED BY <1>1, Invariance, PTL

\* No race of membership and role changes leaves a manager or admin in a team
\* (user_repository.go:178-198, auth.go:87-96).
THEOREM OnlyViewersBelong == Spec => []MembersAreViewers
<1>1. IInv => MembersAreViewers
  BY DEF IInv, MemberInv
<1>. QED BY <1>1, Invariance, PTL

\* Whoever leaves a team, by whichever request, leaves its issues
\* (user_repository.go:151-157, 190-196).
THEOREM LeavingUnassigns == Spec => []AssigneesBelong
<1>1. IInv => AssigneesBelong
  BY DEF IInv, MemberInv
<1>. QED BY <1>1, Invariance, PTL

\* A committed demotion never meets a committed team (migration 00013:50-64).
THEOREM ManagersAreKept == Spec => ManagersStay
<1>1. IInv /\ [Next]_vars => [\A u \in Users : ActiveManager(u) /\ ~ActiveManager(u)' => ~Manages(u)]_vars
  BY StepKeepsManagers DEF IInv
<1>. QED BY <1>1, Invariance, PTL DEF Spec, ManagersStay

\* Only an admin's request moves a member straight from one team to another,
\* whatever was read before the member's row was locked (teams.go:161-163,
\* user_repository.go:187-189).
THEOREM TransfersAreAdmins == Spec => OnlyAdminsTransfer
<1>1. Init => AllAuthorized
  BY IdleAuthorized DEF Init, AllAuthorized
<1>2. IInv /\ AllAuthorized /\ [Next]_vars
      => [\A u \in Users :
            users[u].team # NoTeam /\ users'[u].team \notin {NoTeam, users[u].team}
            => \E r \in Reqs : req[r].role = "admin" /\ req[r].user = u /\ req'[r] # req[r]]_vars
  BY StepTransfers DEF IInv
<1>3. IInv => MemberInv
  BY DEF IInv
<1>. QED BY <1>1, <1>2, <1>3, NextKeepsAuthorized, Invariance, PTL DEF Spec, OnlyAdminsTransfer

\* The promise that the code breaks is broken in one way only: where no statement
\* names a manager whose demotion is about to commit, every team has an active
\* manager (migration 00013:8-64).
THEOREM ActiveManagersUnlessSkewed ==
  Spec /\ TeamsHaveActiveManagers => ActiveUnlessSkewed
<1>1. Init => StillActive
  BY IdleTyped DEF Init, StillActive
<1>2. IInv /\ StillActive /\ TeamsHaveActiveManagers /\ ~Skewed /\ [Next]_vars
      => StillActive' /\ TeamsHaveActiveManagers'
  BY StepKeepsActive DEF IInv
<1>. QED BY <1>1, <1>2, Invariance, PTL DEF Spec, ActiveUnlessSkewed
=============================================================================
