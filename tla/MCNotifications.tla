-------------------------- MODULE MCNotifications --------------------------
(***************************************************************************)
(* A page beside a user without one, and a third user who only acts.  The  *)
(* bounds of a behaviour are chosen at its start: more notifications, more *)
(* breaks, a click and a break, or two clicks.  Where there are clicks all *)
(* notifications are for the page's user.                                  *)
(***************************************************************************)
EXTENDS NotificationReads

CONSTANTS actor, r1, r2

VARIABLE bound

Notified == Users \ {actor}

Bounds ==
  {[ids |-> MaxID, breaks |-> 1, clicks |-> {}, notified |-> Notified],
   [ids |-> 2, breaks |-> MaxTime, clicks |-> {}, notified |-> Notified],
   [ids |-> 2, breaks |-> 1, clicks |-> {r1}, notified |-> Pages],
   [ids |-> 2, breaks |-> 0, clicks |-> {r1, r2}, notified |-> Pages]}

MCInit == ReadsInit /\ bound \in Bounds

MCNext ==
  /\ ReadsNext
  /\ bound' = bound
  /\ drawn' <= bound.ids /\ now' <= bound.breaks
  /\ \A r \in Clicks \ bound.clicks : req'[r] = Idle
  /\ \A n \in Ids : owner'[n] \in bound.notified \union {NoUser}

MCSpec == MCInit /\ [][MCNext]_<<readsvars, bound>> /\ Fairness
=============================================================================
