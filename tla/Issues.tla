------------------------------- MODULE Issues -------------------------------
(***************************************************************************)
(* Issues and their activity: the handlers of issues_api.go, IssueService  *)
(* and IssueRepository, run by concurrent requests at READ COMMITTED       *)
(* beside the membership requests of the Teams module, which write the     *)
(* same issues table when a member leaves a team.                          *)
(*                                                                         *)
(* An update reads the issue, checks what was sent, and later writes all   *)
(* columns of its copy with one UPDATE that takes the row.  That statement *)
(* evaluates the actor's scope again, on the row it locks.  The foreign    *)
(* keys of a new assignee and of the actor in the activity make the        *)
(* transaction wait for SetTeam and Update, which hold accounts FOR UPDATE *)
(* and wait for issues in turn: PostgreSQL breaks the circle.              *)
(*                                                                         *)
(* The issues table is two variables: issues, which Teams knows, holds     *)
(* where an issue is placed, cards the rest of its row.  Title,            *)
(* description, priority and due date are one text.                        *)
(***************************************************************************)
EXTENDS Naturals, FiniteSets

CONSTANTS
  Users, Teams, Issues, Texts,
  Reqs,             \* issue requests in flight at a time
  Movers,           \* membership requests in flight at a time
  NoUser, NoTeam, NoIssue, NoText,
  GrantedRoles,
  StartUsers, StartTeams, StartIssues, StartCards

VARIABLES
  users, teams, issues,   \* as in Teams
  moves,      \* Teams' req
  cards,      \* the issue, apart from its placement
  log,        \* whose activities the issue has
  req         \* what each issue request has read and is about to write

Membership == INSTANCE Teams WITH Reqs <- Movers, req <- moves

ivars == <<cards, log, req>>
vars == <<users, teams, issues, moves, cards, log, req>>

Status == {"open", "closed"}

\* "none" is an id not drawn yet; an id is never drawn twice.
Card == [status : Status \union {"none", "deleted"},
         text : Texts \union {NoText},
         owner : Users \union {NoUser}]

NoCard == [status |-> "none", text |-> NoText, owner |-> NoUser]

Deleted == [NoCard EXCEPT !.status = "deleted"]

Nowhere == [team |-> NoTeam, assignee |-> NoUser]

ASSUME IssueAssumption ==
  /\ NoUser \notin Users /\ NoTeam \notin Teams /\ NoIssue \notin Issues /\ NoText \notin Texts
  /\ Reqs \intersect Movers = {}
  /\ GrantedRoles \subseteq Membership!Role \union {"worker"}

ASSUME BoardAssumption ==
  /\ StartUsers \in [Users -> Membership!Account]
  /\ StartTeams \in [Teams -> Users \union {NoUser}]
  /\ StartIssues \in [Issues -> Membership!Placement]
  /\ StartCards \in [Issues -> Card]
  /\ \A i \in Issues : IF StartCards[i].status \in Status
                      THEN StartCards[i].owner \in Users
                      ELSE StartIssues[i] = Nowhere

\* What Teams keeps, and assumes of its own start.
ASSUME MemberAssumption ==
  \A u \in Users : StartUsers[u].team # NoTeam => StartUsers[u].role = "viewer"

\* logs: the update changes a column, so it writes activities.
Request == [pc : {"idle", "authed", "found", "placing", "teamed", "ready", "counted", "locked"},
            op : {"none", "create", "update", "delete", "comment"},
            actor : Users \union {NoUser},
            role : Membership!Role \union {"none"},
            issue : Issues \union {NoIssue},
            place : Membership!Placement,
            card : Card,
            logs : BOOLEAN]

\* The request as it stands once it has been routed to operation o.
Begun(pc, o, actor, role, i, place, card) ==
  [pc |-> pc, op |-> o, actor |-> actor, role |-> role, issue |-> i,
   place |-> place, card |-> card, logs |-> FALSE]

Idle == Begun("idle", "none", NoUser, "none", NoIssue, Nowhere, NoCard)

TypeOK ==
  /\ Membership!TypeOK
  /\ cards \in [Issues -> Card]
  /\ log \in [Issues -> SUBSET Users]
  /\ req \in [Reqs -> Request]

-----------------------------------------------------------------------------
(* Reading the tables *)

Exists(i) == cards[i].status \in Status

\* scopeIssues: what an actor of a role may see.
Visible(i, actor, role) ==
  /\ Exists(i)
  /\ \/ role = "admin"
     \/ role = "manager" /\ issues[i].team # NoTeam /\ teams[issues[i].team] = actor
     \/ role = "viewer" /\ issues[i].assignee = actor

InScope(r) == Visible(req[r].issue, req[r].actor, req[r].role)

\* An open transaction has updated the row.
IssueLocked(i) == \E q \in Reqs : req[q].pc = "locked" /\ req[q].issue = i

\* The accounts whose rows the foreign keys of r's writes refer to.
Referenced(r) ==
  LET new == req[r].place.assignee IN
  CASE req[r].op = "create" -> {req[r].actor, new} \ {NoUser}
    [] req[r].op = "update" ->
         (IF new = issues[req[r].issue].assignee THEN {} ELSE {new} \ {NoUser})
         \union (IF req[r].logs THEN {req[r].actor} ELSE {})
    [] OTHER -> {req[r].actor}

KeysFree(r) == \A u \in Referenced(r) : ~Membership!Locked(u)

-----------------------------------------------------------------------------
(* Helpers the actions are written with *)

\* Slip: the transaction is left open.
ReleasedButOpen(r) ==
  [req EXCEPT ![r].op = "none", ![r].pc = IF @ = "locked" THEN "locked" ELSE "idle"]

Released(r) == [req EXCEPT ![r] = Idle]

Moved(r, pc) == [req EXCEPT ![r].pc = pc]

\* Slip: a status that was not sent is stored as it is.
StatusAsSent(s) == s

\* An issue created without a status is open.
StatusOf(s) == IF s = "unsent" THEN "open" ELSE s

-----------------------------------------------------------------------------
(* The first half of a handler: reads and checks *)

Authenticate(r, u) ==
  /\ req[r].pc = "idle"
  /\ users[u].active
  /\ req' = [req EXCEPT ![r] = Begun("authed", "none", u, users[u].role, NoIssue, Nowhere, NoCard)]
  /\ UNCHANGED <<users, teams, issues, moves, cards, log>>

\* Workers create nothing; where the issue goes is checked next.
Create(r, status, text, place) ==
  /\ req[r].pc = "authed" /\ req[r].role # "viewer"
  /\ req' = [req EXCEPT ![r] =
               Begun("placing", "create", req[r].actor, req[r].role, NoIssue, place,
                     [status |-> StatusOf(status), text |-> text, owner |-> req[r].actor])]
  /\ UNCHANGED <<users, teams, issues, moves, cards, log>>

\* Update, Delete and AddComment start from the row as the actor may see it.
Find(r, i, o) ==
  /\ req[r].pc = "authed"
  /\ Visible(i, req[r].actor, req[r].role)
  /\ req' = [req EXCEPT ![r] = Begun("found", o, req[r].actor, req[r].role, i, issues[i], cards[i])]
  /\ UNCHANGED <<users, teams, issues, moves, cards, log>>

\* The fields sent are applied to the copy.  A worker may send the status only;
\* a placement that was sent (placed) is checked next.
Update(r, status, text, place, placed) ==
  /\ req[r].pc = "found" /\ req[r].op = "update"
  /\ req[r].role = "viewer" => text = req[r].card.text /\ ~placed
  /\ ~placed => place = req[r].place
  /\ req' = [req EXCEPT
               ![r].pc = IF placed THEN "placing" ELSE "ready",
               ![r].place = place,
               ![r].card = [@ EXCEPT !.status = status, !.text = text],
               ![r].logs = <<status, text, place>> # <<req[r].card.status, req[r].card.text, req[r].place>>]
  /\ UNCHANGED <<users, teams, issues, moves, cards, log>>

\* validatePlacement, first half: a manager's issue is in a team they manage.
CheckTeam(r) ==
  LET t == req[r].place.team IN
  /\ req[r].pc = "placing"
  /\ IF t = NoTeam
     THEN req[r].role # "manager"
     ELSE teams[t] # NoUser /\ (req[r].role = "manager" => teams[t] = req[r].actor)
  /\ req' = Moved(r, "teamed")
  /\ UNCHANGED <<users, teams, issues, moves, cards, log>>

\* Slip: the assignee's team is not compared with the issue's.
CheckAssigneeAnywhere(r) ==
  LET u == req[r].place.assignee IN
  /\ req[r].pc = "teamed"
  /\ u # NoUser => users[u].role = "viewer" /\ users[u].active
  /\ req' = Moved(r, "ready")
  /\ UNCHANGED <<users, teams, issues, moves, cards, log>>

\* Second half: the assignee is an active viewer of the issue's team.
CheckAssignee(r) ==
  LET u == req[r].place.assignee IN
  /\ req[r].pc = "teamed"
  /\ u # NoUser => /\ users[u].role = "viewer" /\ users[u].active
                   /\ users[u].team = req[r].place.team
  /\ req' = Moved(r, "ready")
  /\ UNCHANGED <<users, teams, issues, moves, cards, log>>

\* A manager deletes in the teams they manage, an admin anywhere.
Delete(r) ==
  LET t == req[r].place.team IN
  /\ req[r].pc = "found" /\ req[r].op = "delete"
  /\ \/ req[r].role = "admin"
     \/ req[r].role = "manager" /\ t # NoTeam /\ teams[t] = req[r].actor
  /\ req' = Moved(r, "ready")
  /\ UNCHANGED <<users, teams, issues, moves, cards, log>>

-----------------------------------------------------------------------------
(* The second half: the statements of IssueRepository *)

\* INSERT of the issue and of its first activity.
CommitCreate(r, i) ==
  /\ req[r].pc = "ready" /\ req[r].op = "create"
  /\ cards[i] = NoCard
  /\ KeysFree(r)
  /\ cards' = [cards EXCEPT ![i] = req[r].card]
  /\ issues' = [issues EXCEPT ![i] = req[r].place]
  /\ log' = [log EXCEPT ![i] = {req[r].actor}]
  /\ req' = Released(r)
  /\ UNCHANGED <<users, teams, moves>>

\* Slip: the row is found by its id alone.
LockIssueUnscoped(r) ==
  /\ req[r].pc = "ready" /\ req[r].op = "update"
  /\ Exists(req[r].issue) /\ ~IssueLocked(req[r].issue)
  /\ req' = Moved(r, "locked")
  /\ UNCHANGED <<users, teams, issues, moves, cards, log>>

\* Slip: Save instead of Updates, which inserts a row that is gone.
LockIssueOrInsert(r) ==
  /\ req[r].pc = "ready" /\ req[r].op = "update"
  /\ Exists(req[r].issue) => InScope(r) /\ ~IssueLocked(req[r].issue)
  /\ req' = Moved(r, "locked")
  /\ UNCHANGED <<users, teams, issues, moves, cards, log>>

\* UPDATE issues ... WHERE id = ? and the scope, evaluated on the row it locks.
LockIssue(r) ==
  /\ req[r].pc = "ready" /\ req[r].op = "update"
  /\ InScope(r) /\ ~IssueLocked(req[r].issue)
  /\ req' = Moved(r, "locked")
  /\ UNCHANGED <<users, teams, issues, moves, cards, log>>

\* The statement's foreign keys, the activities and theirs, and COMMIT.
CommitUpdate(r) ==
  LET i == req[r].issue IN
  /\ req[r].pc = "locked"
  /\ KeysFree(r)
  /\ cards' = [cards EXCEPT ![i] = req[r].card]
  /\ issues' = [issues EXCEPT ![i] = req[r].place]
  /\ log' = [log EXCEPT ![i] = IF req[r].logs THEN @ \union {req[r].actor} ELSE @]
  /\ req' = Released(r)
  /\ UNCHANGED <<users, teams, moves>>

\* Slip: activities have no foreign key that cascades.
CommitDeleteAlone(r) ==
  LET i == req[r].issue IN
  /\ req[r].pc = "ready" /\ req[r].op = "delete"
  /\ InScope(r) /\ ~IssueLocked(i)
  /\ cards' = [cards EXCEPT ![i] = Deleted]
  /\ issues' = [issues EXCEPT ![i] = Nowhere]
  /\ req' = Released(r)
  /\ UNCHANGED <<users, teams, moves, log>>

\* One DELETE under the scope, and the cascade to the activities.
CommitDelete(r) ==
  LET i == req[r].issue IN
  /\ req[r].pc = "ready" /\ req[r].op = "delete"
  /\ InScope(r) /\ ~IssueLocked(i)
  /\ cards' = [cards EXCEPT ![i] = Deleted]
  /\ issues' = [issues EXCEPT ![i] = Nowhere]
  /\ log' = [log EXCEPT ![i] = {}]
  /\ req' = Released(r)
  /\ UNCHANGED <<users, teams, moves>>

\* AddComment counts the issues of this id in the actor's scope.
CountIssue(r) ==
  /\ req[r].pc = "found" /\ req[r].op = "comment"
  /\ InScope(r)
  /\ req' = Moved(r, "counted")
  /\ UNCHANGED <<users, teams, issues, moves, cards, log>>

\* Slip: the count is trusted.
CommitCommentCounted(r) ==
  LET i == req[r].issue IN
  /\ req[r].pc = "counted"
  /\ KeysFree(r)
  /\ log' = [log EXCEPT ![i] = @ \union {req[r].actor}]
  /\ req' = Released(r)
  /\ UNCHANGED <<users, teams, issues, moves, cards>>

\* INSERT of the comment, whose foreign keys are the issue and the actor.
CommitComment(r) ==
  LET i == req[r].issue IN
  /\ req[r].pc = "counted"
  /\ Exists(i)
  /\ KeysFree(r)
  /\ log' = [log EXCEPT ![i] = @ \union {req[r].actor}]
  /\ req' = Released(r)
  /\ UNCHANGED <<users, teams, issues, moves, cards>>

\* The statement finds no row: the issue is gone or out of scope (404).
NotFound(r) ==
  /\ \/ req[r].pc = "ready" /\ req[r].op \in {"update", "delete"} /\ ~InScope(r)
     \/ req[r].pc = "counted" /\ ~Exists(req[r].issue)
  /\ req' = Released(r)
  /\ UNCHANGED <<users, teams, issues, moves, cards, log>>

\* A check fails, a statement fails, the client goes away or the process dies.
End(r) ==
  /\ req[r].pc # "idle"
  /\ req' = Released(r)
  /\ UNCHANGED <<users, teams, issues, moves, cards, log>>

-----------------------------------------------------------------------------
(* Membership requests on the same tables *)

\* The transaction of m holds its member's row and has passed its checks.
Moving(m) == moves[m].pc = "saved" \/ (moves[m].pc = "locked" /\ moves[m].op = "move")

\* The team it leaves the member in.
Destination(m) == IF moves[m].op = "move" THEN moves[m].team ELSE moves[m].row.team

\* The assignments it clears.
Clears(m) ==
  LET cleared == Membership!Unassigned(moves[m].user, Destination(m))
  IN {i \in Issues : cleared[i] # issues[i]}

\* A membership step waits for the issues it changes.
Member(step) ==
  /\ step
  /\ \A i \in Issues : issues'[i] # issues[i] => ~IssueLocked(i)
  /\ UNCHANGED ivars

-----------------------------------------------------------------------------
(* PostgreSQL's deadlock detector *)

WaitsFor(p, q) ==
  \/ /\ p \in Reqs /\ q \in Movers
     /\ req[p].pc = "locked" /\ moves[q].pc \in {"locked", "saved"}
     /\ moves[q].user \in Referenced(p)
  \/ /\ p \in Movers /\ q \in Reqs
     /\ Moving(p) /\ req[q].pc = "locked" /\ req[q].issue \in Clears(p)

\* p is in a circle of transactions that wait for each other.
Deadlocked(p) ==
  \E S \in SUBSET (Reqs \union Movers) :
    /\ p \in S
    /\ \A x \in S : (\E y \in S : WaitsFor(x, y)) /\ (\E y \in S : WaitsFor(y, x))

\* The victim's transaction is rolled back and its request answered.
Abort(p) ==
  /\ Deadlocked(p)
  /\ IF p \in Reqs
     THEN req' = Released(p) /\ UNCHANGED moves
     ELSE moves' = [moves EXCEPT ![p] = Membership!Idle] /\ UNCHANGED req
  /\ UNCHANGED <<users, teams, issues, cards, log>>

-----------------------------------------------------------------------------
Init ==
  /\ Membership!Init
  /\ cards = StartCards
  /\ log = [i \in Issues |-> IF StartCards[i].status \in Status THEN {StartCards[i].owner} ELSE {}]
  /\ req = [r \in Reqs |-> Idle]

Placements == Membership!Placement

Handle(r) ==
  \/ \E status \in Status \union {"unsent"}, text \in Texts, place \in Placements :
       Create(r, status, text, place)
  \/ \E i \in Issues, o \in {"update", "delete", "comment"} : Find(r, i, o)
  \/ \E status \in Status, text \in Texts, place \in Placements, placed \in BOOLEAN :
       Update(r, status, text, place, placed)
  \/ CheckTeam(r) \/ CheckAssignee(r)
  \/ Delete(r) \/ CountIssue(r)

Write(r) ==
  \/ \E i \in Issues : CommitCreate(r, i)
  \/ LockIssue(r) \/ CommitUpdate(r)
  \/ CommitDelete(r)
  \/ CommitComment(r)
  \/ NotFound(r)

Next ==
  \/ \E r \in Reqs :
       \/ \E u \in Users : Authenticate(r, u)
       \/ Handle(r) \/ Write(r) \/ End(r)
  \/ Member(Membership!Next)
  \/ \E p \in Reqs \union Movers : Abort(p)

\* A bound of the model: a create ends when Issues has no id left for it.
OutOfIds(r) ==
  req[r].pc = "ready" /\ req[r].op = "create" /\ \A i \in Issues : cards[i] # NoCard

\* Handlers go on or answer; statements that wait for a row are queued (strong
\* fairness); the detector runs deadlock_timeout after a wait began.
Fairness ==
  /\ \A r \in Reqs :
       /\ WF_vars(Handle(r) \/ (req[r].pc \notin {"idle", "ready", "locked"} /\ End(r)))
       /\ SF_vars(Write(r))
       /\ WF_vars(OutOfIds(r) /\ End(r))
  /\ \A m \in Movers :
       /\ WF_vars(Member(Membership!ManageTeam(m) \/ Membership!ManageMember(m)
                         \/ (moves[m].pc \in {"authed", "managing"} /\ Membership!End(m))))
       /\ SF_vars(Member(Membership!Write(m)))
  /\ WF_vars(\E p \in Reqs \union Movers : Abort(p))

Spec == Init /\ [][Next]_vars
FairSpec == Spec /\ Fairness

-----------------------------------------------------------------------------
(* Properties *)

\* Whoever has assigned, moved or reassigned it since it was read, a worker's
\* update writes only an issue assigned to that worker when it commits
\* (issue_repository.go:110-126).
WorkersWriteOwn ==
  [][\A r \in Reqs :
       LET i == req[r].issue IN
       /\ req[r].pc = "locked" /\ req[r].role = "viewer" /\ req'[r] # req[r]
       /\ cards'[i] # cards[i] \/ issues'[i] # issues[i]
       => issues[i].assignee = req[r].actor]_vars

\* An issue has an activity of its creator as long as it is there, and no
\* activity is left of a deleted one, although comments and updates may have
\* found it before (issue_repository.go:95-107, 204-217, migration 00010:4).
HistoryKept ==
  \A i \in Issues : IF Exists(i) THEN cards[i].owner \in log[i] ELSE log[i] = {}

\* What is deleted stays deleted: an update in flight does not bring it back
\* (issue_repository.go:112-126, 140-149).
DeletedStays ==
  [][\A i \in Issues :
       cards[i].status = "deleted" => cards'[i].status = "deleted" /\ issues'[i] = Nowhere]_vars

\* "Workers may only change status" (README.MD:44).  The code breaks this: the
\* UPDATE writes every column of a copy read earlier.
WorkersChangeStatusOnly ==
  [][\A r \in Reqs :
       LET i == req[r].issue IN
       /\ req[r].pc = "locked" /\ req[r].role = "viewer" /\ req'[r] # req[r]
       => cards'[i].text = cards[i].text /\ issues'[i] = issues[i]]_vars

\* An update of an issue is about to commit while a worker's update of it has
\* read the issue and not yet written its copy.
Overtaking ==
  \E q, r \in Reqs :
    /\ q # r /\ req[q].issue = req[r].issue
    /\ req[q].pc = "locked"
    /\ req[r].op = "update" /\ req[r].role = "viewer"

\* "Removing a worker from a team also clears their assignments for that team's
\* issues" (README.MD:75).  The code breaks this: an update that read or checked
\* the assignee before the removal writes it after.
RemovedWorkersUnassigned == Membership!AssigneesBelong

\* A member is about to leave the team of an issue that a create or update in
\* flight, which has read or checked the assignment, gives them.
Crossing ==
  \E r \in Reqs, m \in Movers :
    /\ req[r].op \in {"create", "update"} /\ req[r].pc \in {"found", "ready", "locked"}
    /\ Moving(m) /\ moves[m].user = req[r].place.assignee
    /\ users[moves[m].user].team = req[r].place.team
    /\ req[r].place.team \notin {NoTeam, Destination(m)}

\* That overlap is the only way: without it every other race of issue and
\* membership requests keeps the promise (issues.go:311-345,
\* user_repository.go:151-157, 190-196).
UnassignedUnlessCrossing == []~Crossing => []RemovedWorkersUnassigned

\* Every request gets its answer, although issue updates and membership
\* transactions take issues and accounts in opposite orders.
Served ==
  /\ \A r \in Reqs : req[r].pc # "idle" ~> req[r].pc = "idle"
  /\ \A m \in Movers : moves[m].pc # "idle" ~> moves[m].pc = "idle"

-----------------------------------------------------------------------------
(* Why the invariants hold *)

WellFormed(q) ==
  /\ q.pc # "idle" => q.actor \in Users
  /\ q.op \in {"update", "delete", "comment"} => q.issue \in Issues
  /\ q.op \in {"create", "update"} => q.card.status \in Status
  /\ q.op = "create" => q.card.owner = q.actor
  /\ q.pc \in {"placing", "teamed"} => q.op \in {"create", "update"}
  /\ q.pc = "ready" => q.op \in {"create", "update", "delete"}
  /\ q.pc = "counted" => q.op = "comment"
  /\ q.pc = "locked" => q.op = "update"

RequestsWellFormed == \A r \in Reqs : WellFormed(req[r])

\* One transaction at a time has updated an issue's row.
Exclusive ==
  \A q, r \in Reqs :
    req[q].pc = "locked" /\ req[r].pc = "locked" /\ req[q].issue = req[r].issue => q = r

\* What the scope said of a locked row is still so when its transaction commits.
ScopeHolds ==
  \A r \in Reqs :
    req[r].pc = "locked" =>
      /\ Exists(req[r].issue)
      /\ req[r].role = "viewer" => issues[req[r].issue].assignee = req[r].actor

\* An issue that was found is no new one later, and nobody changes its creator.
OwnersKept ==
  \A r \in Reqs :
    req[r].op = "update" =>
      /\ cards[req[r].issue].status # "none"
      /\ Exists(req[r].issue) => req[r].card.owner = cards[req[r].issue].owner

DeletedNowhere == \A i \in Issues : cards[i].status = "deleted" => issues[i] = Nowhere

\* The inductive invariant (issue_repository.go:95-217).
IInv ==
  /\ TypeOK
  /\ RequestsWellFormed
  /\ Exclusive
  /\ ScopeHolds
  /\ OwnersKept
  /\ DeletedNowhere
  /\ HistoryKept
=============================================================================
