\* One account and a moving clock: logins that commit out of order, expiry, and requests that queue.
SPECIFICATION FairSpec
CONSTANTS
  Users = {admin}
  Passwords = {p1}
  Tokens = {t1, t2}
  Reqs = {r1, r2}
  NoUser = NoUser
  NoPassword = NoPassword
  NoToken = NoToken
  GrantedRoles = {"viewer"}
  FirstAdmin = admin
  FirstPassword = p1
  Lifetime = 1
  MaxTime = 3
INVARIANTS
  TypeOK
  IInv
  RevokedNotBeforeCreated
PROPERTIES
  Served
\* Requests come from outside: with every account inactive none can start.
CHECK_DEADLOCK FALSE
