\* A PATCH of role or activation writes back the password it read.
SPECIFICATION Spec
CONSTANTS
  Users = {admin, worker}
  Passwords = {p1, p2}
  Tokens = {t1, t2}
  Reqs = {r1, r2}
  NoUser = NoUser
  NoPassword = NoPassword
  NoToken = NoToken
  GrantedRoles = {"viewer", "admin"}
  FirstAdmin = admin
  FirstPassword = p1
  Lifetime = 1
  MaxTime = 1
PROPERTIES
  OnlyPasswordRequestsSetPasswords
\* Requests come from outside: with every account inactive none can start.
CHECK_DEADLOCK FALSE
