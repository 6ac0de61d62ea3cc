\* An admin and a worker edit, comment on and delete an issue; no membership requests.
SPECIFICATION Spec
CONSTANTS
  Users = {admin, worker}
  Teams = {}
  Issues = {i1, i2}
  Texts = {a}
  Reqs = {r1, r2}
  Movers = {}
  GrantedRoles = {}
  StartUsers <- LoneUsers
  StartTeams <- NoTeams
  StartIssues <- OutsideTeams
  StartCards <- TwoCards
  NoUser = NoUser
  NoTeam = NoTeam
  NoIssue = NoIssue
  NoText = NoText
  admin = admin
  manager = manager
  worker = worker
  t1 = t1
  i1 = i1
  i2 = i2
  a = a
  b = b
SYMMETRY Symmetry
INVARIANTS
  TypeOK
  IInv
  HistoryKept
PROPERTIES
  DeletedStays
  WorkersWriteOwn
\* Requests come from outside: with every account inactive none can start.
CHECK_DEADLOCK FALSE
