\* Team statements and demotions that wait for each other.  No symmetry: liveness.
SPECIFICATION FairSpec
CONSTANTS
  Users = {admin, manager, other, worker}
  Teams = {t1}
  Issues = {}
  GrantedRoles = {}
  StartUsers <- TwoManagerUsers
  StartTeams <- OneTeam
  StartIssues <- NoIssues
  Reqs = {r1, r2}
  NoUser = NoUser
  NoTeam = NoTeam
  admin = admin
  manager = manager
  other = other
  worker = worker
  t1 = t1
  t2 = t2
  i1 = i1
PROPERTIES
  Served
  ActiveUnlessSkewed
\* Requests come from outside: with every account inactive none can start.
CHECK_DEADLOCK FALSE
