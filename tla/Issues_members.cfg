\* Issue requests beside a membership request that clears assignments and locks in the opposite order.
SPECIFICATION FairSpec
CONSTANTS
  Users = {manager, worker}
  Teams = {t1}
  Issues = {i1}
  Texts = {a}
  Reqs = {r1}
  Movers = {m1}
  GrantedRoles = {}
  StartUsers <- TeamUsers
  StartTeams <- OneTeam
  StartIssues <- InTeam
  StartCards <- AnOpenCard
  NoUser = NoUser
  NoTeam = NoTeam
  NoIssue = NoIssue
  NoText = NoText
  admin = admin
  manager = manager
  worker = worker
  t1 = t1
  i1 = i1
  i2 = i2
  a = a
  b = b
INVARIANTS
  IInv
PROPERTIES
  Served
  UnassignedUnlessCrossing
\* Requests come from outside: with every account inactive none can start.
CHECK_DEADLOCK FALSE
