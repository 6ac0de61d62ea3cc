\* A page beside a user without one, and a user who acts.
SPECIFICATION MCSpec
CONSTANTS
  Users = {u1, u2, actor}
  Pages = {u1}
  NoUser = NoUser
  MaxID = 3
  ListLimit = 2
  InboxLimit = 2
  HubBuffer = 1
  MaxTime = 2
  Clicks = {r1, r2}
  actor = actor
  r1 = r1
  r2 = r2
INVARIANTS
  TypeOK
  IInv
  NoGap
  ShownOnce
  ShownReadIsRead
PROPERTIES
  PublishedOnce
  StoredIsShown
\* With all ids drawn and every page live and up to date nothing is left to do.
CHECK_DEADLOCK FALSE
