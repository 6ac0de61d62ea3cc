------------------------- MODULE NotificationReads -------------------------
(***************************************************************************)
(* What is read: the read_at column of the notifications table and what a  *)
(* page makes of it.  Every step of Notifications happens here too; those  *)
(* that bring items to a page bring their readAt with them.                *)
(*                                                                         *)
(* A click sends a request and shows the item as read when the answer      *)
(* comes; so does "mark all", for every item the page has by then.  In     *)
(* between, frames arrive, inboxes are loaded and other clicks are made.   *)
(* The time in read_at is left out: no step looks at it.                   *)
(***************************************************************************)
EXTENDS Notifications

CONSTANTS Clicks      \* clicks whose request is in flight at a time

VARIABLES
  read,        \* rows with read_at IS NOT NULL
  seen,        \* items of state.notifications that have a readAt
  answerSeen,  \* the same of the inbox that was read for the page,
  lateSeen,    \*   and of the late one
  tooNew,      \* seen since the answer of a "mark all" that did not cover them
  req          \* the requests that the clicks sent

tvars == <<read, seen, answerSeen, lateSeen, tooNew, req>>
readsvars == <<vars, tvars>>

\* item 0 stands for all.  saw: rows that the UPDATE of a "mark all" is for.
\* fresh: the list still holds the item clicked on.
Request == [pc : {"idle", "sent", "matched", "written"}, page : Users \union {NoUser},
            item : Ids \union {0}, saw : SUBSET Ids, fresh : BOOLEAN]

Idle == [pc |-> "idle", page |-> NoUser, item |-> 0, saw |-> {}, fresh |-> FALSE]

Sent(u, n) == [Idle EXCEPT !.pc = "sent", !.page = u, !.item = n, !.fresh = n # 0]

-----------------------------------------------------------------------------
(* Items that come to a page *)

\* The answer of GET /notifications replaces the list, and with it its items.
Replaced(u, items) ==
  /\ seen' = [seen EXCEPT ![u] = items]
  /\ tooNew' = [tooNew EXCEPT ![u] = {}]
  /\ req' = [r \in Clicks |-> IF req[r].page = u THEN [req[r] EXCEPT !.fresh = FALSE] ELSE req[r]]

ReadInboxItems(u) ==
  /\ ReadInbox(u)
  /\ answerSeen' = [answerSeen EXCEPT ![u] = Listed(answer'[u]) \intersect read]
  /\ UNCHANGED <<read, seen, lateSeen, tooNew, req>>

ShowInboxItems(u) ==
  /\ ShowInbox(u)
  /\ Replaced(u, answerSeen[u])
  /\ answerSeen' = [answerSeen EXCEPT ![u] = {}]
  /\ UNCHANGED <<read, lateSeen>>

ReadLateItems(u) ==
  /\ ReadLate(u)
  /\ lateSeen' = [lateSeen EXCEPT ![u] = Listed(late'[u].items) \intersect read]
  /\ UNCHANGED <<read, seen, answerSeen, tooNew, req>>

ShowLateItems(u) ==
  /\ ShowLate(u)
  /\ Replaced(u, lateSeen[u])
  /\ lateSeen' = [lateSeen EXCEPT ![u] = {}]
  /\ UNCHANGED <<read, answerSeen>>

\* The connection ends, and with it its load of the inbox.
DisconnectItems(u, error) ==
  /\ Disconnect(u, error)
  /\ answerSeen' = [answerSeen EXCEPT ![u] = {}]
  /\ UNCHANGED <<read, seen, lateSeen, tooNew, req>>

\* The item of a frame is as it was when the poller listed the row: it may have a
\* readAt when the row has one now.  What the list drops is gone.
DeliverItem(u, n) ==
  /\ Deliver(u, n)
  /\ \E items \in SUBSET (({n} \intersect read) \ Listed(shown[u])) :
       seen' = [seen EXCEPT ![u] = (@ \union items) \intersect Listed(shown'[u])]
  /\ tooNew' = [tooNew EXCEPT ![u] = @ \intersect Listed(shown'[u])]
  /\ UNCHANGED <<read, answerSeen, lateSeen, req>>

-----------------------------------------------------------------------------
(* Clicks *)

\* Slip: the item is shown as read at once.
ClickEagerly(r, u, n) ==
  /\ req[r].pc = "idle"
  /\ n \in Listed(shown[u]) \ seen[u]
  /\ req' = [req EXCEPT ![r] = Sent(u, n)]
  /\ seen' = [seen EXCEPT ![u] = @ \union {n}]
  /\ UNCHANGED <<vars, read, answerSeen, lateSeen, tooNew>>

\* A click on an item without readAt; a second one before the answer sends a
\* second request.
Click(r, u, n) ==
  /\ req[r].pc = "idle"
  /\ n \in Listed(shown[u]) \ seen[u]
  /\ req' = [req EXCEPT ![r] = Sent(u, n)]
  /\ UNCHANGED <<vars, read, seen, answerSeen, lateSeen, tooNew>>

\* The button, which the page disables while its badge is 0.
ClickAll(r, u) ==
  /\ req[r].pc = "idle"
  /\ req' = [req EXCEPT ![r] = Sent(u, 0)]
  /\ UNCHANGED <<vars, read, seen, answerSeen, lateSeen, tooNew>>

\* WHERE id = ? AND user_id = ? AND read_at IS NULL
MarkRead(r) ==
  /\ req[r].pc = "sent" /\ req[r].item # 0
  /\ req' = [req EXCEPT ![r].pc = "written"]
  /\ read' = read \union ({req[r].item} \intersect Own(req[r].page))
  /\ UNCHANGED <<vars, seen, answerSeen, lateSeen, tooNew>>

\* The UPDATE of a "mark all" is for the rows that its user has in its snapshot,
Match(r) ==
  /\ req[r].pc = "sent" /\ req[r].item = 0
  /\ req' = [req EXCEPT ![r].pc = "matched", ![r].saw = Own(req[r].page)]
  /\ UNCHANGED <<vars, read, seen, answerSeen, lateSeen, tooNew>>

\* and writes read_at where it is still NULL, once it has the row locks.
MarkAllRead(r) ==
  /\ req[r].pc = "matched"
  /\ req' = [req EXCEPT ![r].pc = "written"]
  /\ read' = read \union req[r].saw
  /\ UNCHANGED <<vars, seen, answerSeen, lateSeen, tooNew>>

\* 204, also when the row was read before: then the COUNT found it.  The item
\* clicked on gets its readAt, but not one that has replaced it in the list.
Answer(r) ==
  LET u == req[r].page  n == req[r].item IN
  /\ req[r].pc = "written" /\ n # 0 /\ n \in Own(u)
  /\ seen' = IF req[r].fresh /\ n \in Listed(shown[u])
             THEN [seen EXCEPT ![u] = @ \union {n}] ELSE seen
  /\ req' = [req EXCEPT ![r] = Idle]
  /\ UNCHANGED <<vars, read, answerSeen, lateSeen, tooNew>>

\* Every item that the page has now gets a readAt, if it has none.
AnswerAll(r) ==
  LET u == req[r].page  items == Listed(shown[u]) IN
  /\ req[r].pc = "written" /\ req[r].item = 0
  /\ seen' = [seen EXCEPT ![u] = @ \union items]
  /\ tooNew' = [tooNew EXCEPT ![u] = (@ \union (items \ seen[u])) \ req[r].saw]
  /\ req' = [req EXCEPT ![r] = Idle]
  /\ UNCHANGED <<vars, read, answerSeen, lateSeen>>

\* The request fails, before or after its UPDATE, and the page shows an error.
End(r) ==
  /\ req[r].pc # "idle"
  /\ req' = [req EXCEPT ![r] = Idle]
  /\ UNCHANGED <<vars, read, seen, answerSeen, lateSeen, tooNew>>

\* The requests in flight end with the process: an UPDATE not committed has done nothing.
RestartWithClicks ==
  /\ Restart
  /\ req' = [r \in Clicks |-> Idle]
  /\ answerSeen' = [u \in Pages |-> {}]
  /\ lateSeen' = [u \in Pages |-> {}]
  /\ UNCHANGED <<read, seen, tooNew>>

-----------------------------------------------------------------------------
ReadsInit ==
  /\ Init
  /\ read = {}
  /\ seen = [u \in Pages |-> {}]
  /\ answerSeen = [u \in Pages |-> {}]
  /\ lateSeen = [u \in Pages |-> {}]
  /\ tooNew = [u \in Pages |-> {}]
  /\ req = [r \in Clicks |-> Idle]

ReadsNext ==
  \/ ServerNext /\ UNCHANGED tvars
  \/ RestartWithClicks
  \/ \E u \in Pages :
       \/ Connect(u) /\ UNCHANGED tvars
       \/ \E error \in BOOLEAN : DisconnectItems(u, error)
       \/ ReadInboxItems(u) \/ ShowInboxItems(u)
       \/ \E n \in topic[u] : DeliverItem(u, n)
       \/ ReadLateItems(u) \/ ShowLateItems(u)
       \/ \E r \in Clicks : ClickAll(r, u) \/ \E n \in Ids : Click(r, u, n)
  \/ \E r \in Clicks :
       MarkRead(r) \/ Match(r) \/ MarkAllRead(r) \/ Answer(r) \/ AnswerAll(r) \/ End(r)

ReadsSpec == ReadsInit /\ [][ReadsNext]_readsvars

-----------------------------------------------------------------------------
(* Properties *)

\* A page shows as read only what is read in the table, whichever clicks, loads,
\* frames, failures and restarts cross, but for the items that reached it between
\* the UPDATE of a "mark all" and its answer: those it takes for covered
\* (notifications.js:21-48, notification_repository.go:56-80).
ShownReadIsRead == \A u \in Pages : seen[u] \ tooNew[u] \subseteq read

-----------------------------------------------------------------------------
(* Why it holds *)

ReadsTypeOK ==
  /\ read \in SUBSET Ids
  /\ seen \in [Pages -> SUBSET Ids]
  /\ answerSeen \in [Pages -> SUBSET Ids]
  /\ lateSeen \in [Pages -> SUBSET Ids]
  /\ tooNew \in [Pages -> SUBSET Ids]
  /\ req \in [Clicks -> Request]

\* What comes from the table is read there, and stays so.
LoadsAreRead == \A u \in Pages : answerSeen[u] \union lateSeen[u] \subseteq read

\* A click is for a row of its page's user, so the UPDATE finds it, and when the
\* UPDATE has been made all that it was for is read.
ClicksCover ==
  \A r \in Clicks :
    req[r].pc # "idle" =>
      /\ req[r].page \in Pages
      /\ req[r].item # 0 => req[r].item \in Own(req[r].page)
      /\ req[r].pc = "sent" => req[r].saw = {}
      /\ req[r].pc = "matched" => req[r].item = 0
      /\ req[r].pc = "written" => req[r].saw \union ({req[r].item} \ {0}) \subseteq read

\* The inductive invariant, beside that of Notifications (notifications.js:21-48).
ReadsInv ==
  /\ ReadsTypeOK
  /\ LoadsAreRead
  /\ ClicksCover
  /\ ShownReadIsRead
=============================================================================
