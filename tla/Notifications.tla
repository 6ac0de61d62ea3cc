--------------------------- MODULE Notifications ---------------------------
(***************************************************************************)
(* Notifications and their live delivery: NotificationService and its      *)
(* repository, the poller of notification_realtime.go, the hub of app.go,  *)
(* the stream of notifications_api.go and the page that reads it           *)
(* (dashboard/static/notifications.js).                                    *)
(*                                                                         *)
(* An INSERT draws its ids before it commits.  Every half second the       *)
(* poller lists what is stored above its cursor and publishes it, row by   *)
(* row, to the hub, which hands an event to the open stream of its user or *)
(* drops it.  A page subscribes first and loads its inbox afterwards.      *)
(* What a page shows as read is the NotificationReads module's.            *)
(***************************************************************************)
EXTENDS Naturals, Sequences, FiniteSets

CONSTANTS
  Users,
  Pages,        \* the users with a dashboard open, one page each
  NoUser,
  MaxID,        \* bound: ids the sequence may draw
  ListLimit,    \* rows a poll lists (100)
  InboxLimit,   \* notifications a page keeps (50)
  HubBuffer,    \* events that wait for one stream
  MaxTime       \* bound: broken streams and restarts together

Ids == 1..MaxID

ASSUME NotificationAssumption ==
  /\ IsFiniteSet(Users) /\ Pages \subseteq Users /\ NoUser \notin Users
  /\ MaxID \in Nat /\ MaxTime \in Nat
  /\ ListLimit \in Nat \ {0} /\ InboxLimit \in Nat \ {0} /\ HubBuffer \in Nat

VARIABLES
  drawn,      \* the sequence: ids 1..drawn have been drawn
  owner,      \* user_id of the row that has the id
  pending,    \* the ids of each INSERT that has not committed
  stored,     \* the committed rows
  polling,    \* the poller has read its first cursor
  cursor,     \* latestID
  found,      \* listed by the last poll, to be published
  published,  \* published since the process started
  passed,     \* stored when the poller had already read on
  conn,       \* how far the page's connection has come
  topic,      \* events in the hub for the page's stream
  answer,     \* the inbox read for the page
  shown,      \* state.notifications
  late,       \* a load of the inbox that no connection waits for
  lost,       \* missed since the inbox was read for the page
  now         \* a clock that ticks with each break

rvars == <<drawn, owner, pending, stored>>
pvars == <<polling, cursor, found, published, passed>>
cvars == <<conn, topic, answer, shown, late, lost>>
vars == <<drawn, owner, pending, stored, polling, cursor, found,
          published, passed, conn, topic, answer, shown, late, lost, now>>

Tick == now < MaxTime /\ now' = now + 1

-----------------------------------------------------------------------------
(* The notifications table *)

Own(u) == {n \in stored : owner[n] = u}

Oldest(S, k) == {n \in S : Cardinality({m \in S : m < n}) < k}

IsLeast(n, S) == n \in S /\ \A m \in S : n <= m

\* Slip: MAX(id) of an empty table is NULL.
LatestIDOrNull == IF stored = {} THEN {NoUser} ELSE {id \in stored : \A n \in stored : n <= id}

\* The highest id, COALESCEd with 0: a set of one.
LatestID == {id \in stored \union {0} : \A n \in stored : n <= id}

\* Slip: the row at the cursor is listed again.
ListFrom(id) == Oldest({n \in stored : n >= id}, ListLimit)

\* WHERE id > ? ORDER BY id LIMIT ?
ListAfter(id) == Oldest({n \in stored : n > id}, ListLimit)

Listed(s) == {s[i] : i \in DOMAIN s}

\* WHERE user_id = ? ORDER BY id DESC LIMIT ?: a set of one list.
List(u) ==
  {s \in UNION {[1..k -> Own(u)] : k \in 0..InboxLimit} :
     /\ \A i, j \in DOMAIN s : i < j => s[i] > s[j]
     /\ Listed(s) = Own(u) \/ Len(s) = InboxLimit
     /\ \A n \in Own(u) \ Listed(s), m \in Listed(s) : n < m}

-----------------------------------------------------------------------------
(* Notify: everyone named but the actor, once; a failure is only logged *)

Recipients(named, actor) == named \ {actor}

\* One INSERT of a row per recipient; which row gets which id is open.
CreateMany(to) ==
  LET new == drawn + 1 .. drawn + Cardinality(to) IN
  /\ to # {} /\ new \subseteq Ids
  /\ \E row \in [new -> to] :
       /\ \A u \in to : \E n \in new : row[n] = u
       /\ owner' = [n \in Ids |-> IF n \in new THEN row[n] ELSE owner[n]]
  /\ drawn' = drawn + Cardinality(to)
  /\ pending' = pending \union {new}
  /\ UNCHANGED <<stored, now, pvars, cvars>>

\* After an issue was created, changed or commented on: its creator, its assignee
\* and the manager of its team.
NotifyIssue(actor, creator, others) ==
  CreateMany(Recipients({creator} \union others, actor))

\* After a member was added or removed, or a team changed hands.
NotifyMember(actor, u) == CreateMany(Recipients({u}, actor))

\* These rows will not be published any more: a page that has read its inbox
\* misses its own among them.
Missing(S) ==
  [u \in Pages |-> IF conn[u] \in {"loaded", "live"}
                   THEN lost[u] \union {n \in S : owner[n] = u} ELSE lost[u]]

Commit(b) ==
  /\ b \in pending
  /\ pending' = pending \ {b}
  /\ stored' = stored \union b
  /\ passed' = passed \union {n \in b : n <= cursor \/ \E m \in found : n < m}
  /\ lost' = Missing(passed' \ passed)
  /\ UNCHANGED <<drawn, owner, now, polling, cursor, found, published,
                 conn, topic, answer, shown, late>>

\* The INSERT fails or its request goes away: the ids are not used again.
Rollback(b) ==
  /\ b \in pending
  /\ pending' = pending \ {b}
  /\ UNCHANGED <<drawn, owner, stored, now, pvars, cvars>>

-----------------------------------------------------------------------------
(* The poller *)

StartPolling ==
  /\ ~polling
  /\ polling' = TRUE
  /\ cursor' \in LatestID
  /\ passed' = stored
  /\ lost' = Missing(stored)
  /\ UNCHANGED <<found, published, now, conn, topic, answer, shown, late, rvars>>

\* Slip: the cursor jumps to the latest row before the list is read.
PollSkipping ==
  /\ polling /\ found = {} /\ ListAfter(cursor) # {}
  /\ found' = {n \in stored : \A m \in stored : m <= n}
  /\ UNCHANGED <<polling, cursor, published, passed, now, rvars, cvars>>

Poll ==
  /\ polling /\ found = {} /\ ListAfter(cursor) # {}
  /\ found' = ListAfter(cursor)
  /\ UNCHANGED <<polling, cursor, published, passed, now, rvars, cvars>>

\* PublishTopic: the hub drops what a full stream cannot take (DropEvent).
Publish(n) ==
  LET u == owner[n]
      open == u \in Pages /\ conn[u] # "off"
      room == Cardinality(topic[u]) < HubBuffer
  IN
  /\ IsLeast(n, found)
  /\ cursor' = n
  /\ found' = found \ {n}
  /\ published' = published \union {n}
  /\ topic' = IF open /\ room THEN [topic EXCEPT ![u] = @ \union {n}] ELSE topic
  /\ lost' = IF open /\ ~room THEN [lost EXCEPT ![u] = @ \union {n}] ELSE lost
  /\ UNCHANGED <<polling, passed, conn, answer, shown, late, now, rvars>>

-----------------------------------------------------------------------------
(* A page and its stream *)

\* SubscribeTopic comes before the headers that the page waits for.
Connect(u) ==
  /\ conn[u] = "off"
  /\ conn' = [conn EXCEPT ![u] = "open"]
  /\ UNCHANGED <<topic, answer, shown, late, lost, now, rvars, pvars>>

ReadInbox(u) ==
  /\ conn[u] = "open"
  /\ conn' = [conn EXCEPT ![u] = "loaded"]
  /\ \E s \in List(u) : answer' = [answer EXCEPT ![u] = s]
  /\ lost' = [lost EXCEPT ![u] = {}]
  /\ UNCHANGED <<topic, shown, late, now, rvars, pvars>>

\* Slip: the page subscribes when it has its inbox.
ShowInboxFirst(u) ==
  /\ conn[u] = "loaded"
  /\ conn' = [conn EXCEPT ![u] = "live"]
  /\ shown' = [shown EXCEPT ![u] = answer[u]]
  /\ answer' = [answer EXCEPT ![u] = <<>>]
  /\ topic' = [topic EXCEPT ![u] = {}]
  /\ UNCHANGED <<late, lost, now, rvars, pvars>>

ShowInbox(u) ==
  /\ conn[u] = "loaded"
  /\ conn' = [conn EXCEPT ![u] = "live"]
  /\ shown' = [shown EXCEPT ![u] = answer[u]]
  /\ answer' = [answer EXCEPT ![u] = <<>>]
  /\ UNCHANGED <<topic, late, lost, now, rvars, pvars>>

\* unshift, and slice to the limit.
Unshift(n, s) ==
  LET longer == <<n>> \o s IN
  IF Len(longer) > InboxLimit THEN SubSeq(longer, 1, InboxLimit) ELSE longer

\* Slip: what the inbox already had is shown again.
ReceiveAgain(n, s) == Unshift(n, s)

\* receiveFrame
Received(n, s) == IF n \in Listed(s) THEN s ELSE Unshift(n, s)

\* The session is still active: the handler writes the frame, the page reads it.
Deliver(u, n) ==
  /\ conn[u] = "live" /\ IsLeast(n, topic[u])
  /\ topic' = [topic EXCEPT ![u] = @ \ {n}]
  /\ shown' = [shown EXCEPT ![u] = Received(n, @)]
  /\ UNCHANGED <<conn, answer, late, lost, now, rvars, pvars>>

NoLoad == [pc |-> "none", items |-> <<>>]

\* The stream ends; the subscription with it.  After an error a page with an
\* empty list loads the inbox without waiting for the answer.
Disconnect(u, error) ==
  /\ conn[u] # "off"
  /\ Tick
  /\ conn' = [conn EXCEPT ![u] = "off"]
  /\ topic' = [topic EXCEPT ![u] = {}]
  /\ answer' = [answer EXCEPT ![u] = <<>>]
  /\ late' = IF error /\ shown[u] = <<>> /\ late[u].pc = "none"
             THEN [late EXCEPT ![u].pc = "asked"] ELSE late
  /\ UNCHANGED <<shown, lost, rvars, pvars>>

ReadLate(u) ==
  /\ late[u].pc = "asked"
  /\ \E s \in List(u) : late' = [late EXCEPT ![u] = [pc |-> "read", items |-> s]]
  /\ UNCHANGED <<conn, topic, answer, shown, lost, now, rvars, pvars>>

\* The answer replaces the list, whatever a new connection has shown by now.
ShowLate(u) ==
  /\ late[u].pc = "read"
  /\ shown' = [shown EXCEPT ![u] = late[u].items]
  /\ lost' = [lost EXCEPT ![u] = @ \union (Own(u) \ Listed(late[u].items))]
  /\ late' = [late EXCEPT ![u] = NoLoad]
  /\ UNCHANGED <<conn, topic, answer, now, rvars, pvars>>

\* The process restarts: open INSERTs roll back, streams and requests break.
Restart ==
  /\ Tick
  /\ pending' = {}
  /\ polling' = FALSE /\ cursor' = 0 /\ found' = {} /\ published' = {} /\ passed' = {}
  /\ conn' = [u \in Pages |-> "off"]
  /\ topic' = [u \in Pages |-> {}]
  /\ answer' = [u \in Pages |-> <<>>]
  /\ late' = [u \in Pages |-> NoLoad]
  /\ UNCHANGED <<drawn, owner, stored, shown, lost>>

-----------------------------------------------------------------------------
Init ==
  /\ drawn = 0 /\ owner = [n \in Ids |-> NoUser] /\ pending = {} /\ stored = {}
  /\ polling = FALSE /\ cursor = 0 /\ found = {} /\ published = {} /\ passed = {}
  /\ conn = [u \in Pages |-> "off"]
  /\ topic = [u \in Pages |-> {}]
  /\ answer = [u \in Pages |-> <<>>]
  /\ shown = [u \in Pages |-> <<>>]
  /\ late = [u \in Pages |-> NoLoad]
  /\ lost = [u \in Pages |-> {}]
  /\ now = 0

ServerNext ==
  \/ \E actor, creator \in Users, others \in SUBSET Users : NotifyIssue(actor, creator, others)
  \/ \E actor, u \in Users : NotifyMember(actor, u)
  \/ \E b \in pending : Commit(b) \/ Rollback(b)
  \/ StartPolling \/ Poll
  \/ \E n \in found : Publish(n)

PageNext(u) ==
  \/ Connect(u) \/ ReadInbox(u) \/ ShowInbox(u)
  \/ \E n \in topic[u] : Deliver(u, n)
  \/ \E error \in BOOLEAN : Disconnect(u, error)
  \/ ReadLate(u) \/ ShowLate(u)

Next == ServerNext \/ Restart \/ \E u \in Pages : PageNext(u)

\* The ticker keeps polling; a page reconnects after two seconds, and what it
\* and the handlers of its requests have started goes on.
Fairness ==
  /\ WF_vars(StartPolling) /\ WF_vars(Poll) /\ WF_vars(\E n \in found : Publish(n))
  /\ \A u \in Pages :
       /\ WF_vars(Connect(u) \/ ReadInbox(u) \/ ShowInbox(u))
       /\ WF_vars(\E n \in topic[u] : Deliver(u, n))

Spec == Init /\ [][Next]_vars
FairSpec == Spec /\ Fairness

-----------------------------------------------------------------------------
(* Properties *)

Load == [pc : {"none", "asked", "read"}, items : Seq(Ids)]

TypeOK ==
  /\ drawn \in 0..MaxID
  /\ owner \in [Ids -> Users \union {NoUser}]
  /\ pending \in SUBSET SUBSET Ids
  /\ stored \in SUBSET Ids
  /\ polling \in BOOLEAN
  /\ cursor \in 0..MaxID
  /\ found \in SUBSET Ids
  /\ published \in SUBSET Ids
  /\ passed \in SUBSET Ids
  /\ conn \in [Pages -> {"off", "open", "loaded", "live"}]
  /\ topic \in [Pages -> SUBSET Ids]
  /\ answer \in [Pages -> Seq(Ids)]
  /\ shown \in [Pages -> Seq(Ids)]
  /\ late \in [Pages -> Load]
  /\ lost \in [Pages -> SUBSET Ids]
  /\ now \in 0..MaxTime

\* What a page that shows list s need not show yet, or no more.
Excused(u, n, s) ==
  \/ Len(s) = InboxLimit
  \/ n \in topic[u]
  \/ n > cursor /\ n \notin passed
  \/ n \in lost[u]

Complete(u, s) == \A n \in Own(u) : n \in Listed(s) \/ Excused(u, n, s)

\* Between the inbox that a page loaded and the events of its stream there is no
\* gap, and what was not published before is made good by the inbox: a page shows,
\* or is about to get, every notification of its user, but for those that the
\* cursor passed, the hub dropped or a late answer took away since its inbox was
\* read (notifications.js:77-96, notifications_api.go:86, notification_realtime.go:14-40).
NoGap == \A u \in Pages : conn[u] = "live" => Complete(u, shown[u])

\* A notification that comes with the inbox and with the stream is listed once
\* (notifications.js:110-122).
ShownOnce ==
  \A u \in Pages : \A i, j \in DOMAIN shown[u] : shown[u][i] = shown[u][j] => i = j

\* However commits and polls interleave, a process publishes no notification
\* twice (notification_realtime.go:31-32, notification_repository.go:88-94).
PublishedOnce ==
  [][\A n \in found \ found' : polling' => n \notin published]_vars

\* What is stored is shown in the end, although streams break and the process
\* restarts, but for what the cursor passed or the hub dropped since the page read
\* its inbox, and what a late answer or the limit took away
\* (notifications.js:95-107, notification_realtime.go:20-41).
StoredIsShown ==
  \A u \in Pages : \A n \in Ids :
    n \in Own(u) ~> n \in Listed(shown[u]) \/ Len(shown[u]) = InboxLimit
                    \/ n \in lost[u]

-----------------------------------------------------------------------------
(* Why the invariants hold *)

\* An id belongs to one INSERT, and to a row only when that has committed.
IdsDrawnOnce ==
  /\ stored \subseteq 1..drawn
  /\ \A b \in pending : b \subseteq 1..drawn /\ b \intersect stored = {}
  /\ \A b, c \in pending : b = c \/ b \intersect c = {}

\* The cursor parts what was published from what is to be.
CursorParts ==
  /\ found \subseteq stored /\ \A n \in found : n > cursor
  /\ published \subseteq stored /\ \A n \in published : n <= cursor
  /\ passed \subseteq stored
  /\ \A n \in stored :
       \/ n \in published \union passed \union found
       \/ n > cursor /\ \A m \in found : n > m
  /\ ~polling => cursor = 0 /\ found = {} /\ published = {} /\ passed = {}

Distinct(s) == \A i, j \in DOMAIN s : s[i] = s[j] => i = j

ListsDistinct ==
  \A u \in Pages : Distinct(answer[u]) /\ Distinct(shown[u]) /\ Distinct(late[u].items)

\* Nobody is sent or shown a notification of someone else.
ListsOwn ==
  \A u \in Pages :
    topic[u] \union Listed(answer[u]) \union Listed(shown[u]) \union Listed(late[u].items)
      \subseteq Own(u)

\* From the moment the inbox was read, the stream has what came after it.
NoGapWhileLoading ==
  \A u \in Pages : conn[u] = "loaded" => Complete(u, answer[u])

\* The inductive invariant (notification_realtime.go:12-44, notifications.js:77-121).
IInv ==
  /\ TypeOK
  /\ IdsDrawnOnce
  /\ CursorParts
  /\ ListsDistinct
  /\ ListsOwn
  /\ NoGapWhileLoading
  /\ NoGap
=============================================================================
