\* A worker closes an issue while an admin edits it.
SPECIFICATION Spec
CONSTANTS
  Users = {admin, worker}
  Teams = {}
  Issues = {i1}
  Texts = {a, b}
  Reqs = {r1, r2}
  Movers = {}
  GrantedRoles = {}
  StartUsers <- LoneUsers
  StartTeams <- NoTeams
  StartIssues <- OutsideTeam
  StartCards <- AnAdminsCard
  NoUser = NoUser
  NoTeam = NoTeam
  NoIssue = NoIssue
  NoText = NoText
  admin = admin
  manager = manager
  worker = worker
  t1 = t1
  i1 = i1
  i2 = i2
  a = a
  b = b
SYMMETRY Symmetry
PROPERTIES
  WorkersChangeStatusOnly
\* Requests come from outside: with every account inactive none can start.
CHECK_DEADLOCK FALSE
