\* A team, its manager, a worker with an issue, a team to be created: every role and membership race.
SPECIFICATION Spec
CONSTANTS
  Users = {admin, manager, worker}
  Teams = {t1, t2}
  Issues = {i1}
  GrantedRoles = {"worker", "manager"}
  StartUsers <- OneTeamUsers
  StartTeams <- OneTeamOfTwo
  StartIssues <- OneIssue
  Reqs = {r1, r2}
  NoUser = NoUser
  NoTeam = NoTeam
  admin = admin
  manager = manager
  other = other
  worker = worker
  t1 = t1
  t2 = t2
  i1 = i1
SYMMETRY Symmetry
INVARIANTS
  TypeOK
  IInv
  MembersAreViewers
  AssigneesBelong
PROPERTIES
  ManagersStay
  OnlyAdminsTransfer
\* Requests come from outside: with every account inactive none can start.
CHECK_DEADLOCK FALSE
