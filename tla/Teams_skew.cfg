\* A manager demoted while a team is given to them.
SPECIFICATION Spec
CONSTANTS
  Users = {admin, manager, other, worker}
  Teams = {t1}
  Issues = {}
  GrantedRoles = {"viewer"}
  StartUsers <- TwoManagerUsers
  StartTeams <- OneTeam
  StartIssues <- NoIssues
  Reqs = {r1, r2}
  NoUser = NoUser
  NoTeam = NoTeam
  admin = admin
  manager = manager
  other = other
  worker = worker
  t1 = t1
  t2 = t2
  i1 = i1
INVARIANTS
  TeamsHaveActiveManagers
\* Requests come from outside: with every account inactive none can start.
CHECK_DEADLOCK FALSE
