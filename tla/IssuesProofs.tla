---------------------------- MODULE IssuesProofs ----------------------------
(***************************************************************************)
(* Theorems about Issues, for any board to start from and any number of    *)
(* accounts, teams, issues, issue requests and membership requests.        *)
(***************************************************************************)
EXTENDS Issues, TLAPS

USE IssueAssumption

-----------------------------------------------------------------------------
(* What a membership step may do to the tables *)

\* Placements change only by an assignee being cleared in some team.
Unplaced ==
  \A i \in Issues :
    \/ issues'[i] = issues[i]
    \/ issues[i].team # NoTeam /\ issues'[i] = [issues[i] EXCEPT !.assignee = NoUser]

LEMMA MemberIdleTyped == Membership!Idle \in Membership!Request
BY DEF Membership!Idle, Membership!Begun, Membership!Request, Membership!NoAccount,
       Membership!Account

LEMMA UnassignedUnplaces ==
  ASSUME Membership!TypeOK, NEW u, NEW t, issues' = Membership!Unassigned(u, t)
  PROVE  issues' \in [Issues -> Membership!Placement] /\ Unplaced
<1>1. issues \in [Issues -> Membership!Placement]
  BY DEF Membership!TypeOK
<1>2. \A i \in Issues : [issues[i] EXCEPT !.assignee = NoUser] \in Membership!Placement
  BY <1>1 DEF Membership!Placement
<1>. QED BY <1>1, <1>2 DEF Membership!Unassigned, Unplaced

\* The reads and checks of a membership request, and its end.
LEMMA MemberReadsTyped ==
  ASSUME Membership!TypeOK, NEW m \in Movers,
         \/ \E u \in Users : Membership!Authenticate(m, u) \/ Membership!AddMember(m, u)
                             \/ Membership!RemoveMember(m, u)
         \/ Membership!ManageTeam(m)
         \/ Membership!CheckManager(m) \/ Membership!LockForMove(m) \/ Membership!LockForSave(m)
         \/ Membership!CheckManaged(m) \/ Membership!Refuse(m) \/ Membership!End(m)
  PROVE  Membership!TypeOK' /\ issues' = issues
<1>1. /\ moves \in [Movers -> Membership!Request] /\ moves[m] \in Membership!Request
      /\ moves[m].role \in Membership!Role \union {"none"}
      /\ moves[m].team \in Teams \union {NoTeam}
      /\ moves[m].actor \in Users \union {NoUser}
  BY DEF Membership!TypeOK, Membership!Request
<1>2. \A u \in Users : users[u].role \in Membership!Role \union {"none"}
                       /\ users[u].team \in Teams \union {NoTeam}
  BY DEF Membership!TypeOK, Membership!Account
<1>3. Membership!NoAccount \in Membership!Account
  BY DEF Membership!NoAccount, Membership!Account
<1>4. moves' \in [Movers -> Membership!Request] /\ UNCHANGED <<users, teams, issues>>
  <2>1. ASSUME NEW u \in Users, Membership!Authenticate(m, u)
        PROVE  moves' \in [Movers -> Membership!Request] /\ UNCHANGED <<users, teams, issues>>
    BY <1>1, <1>2, <1>3, <2>1 DEF Membership!Authenticate, Membership!Begun, Membership!Request
  <2>2. ASSUME NEW u \in Users, Membership!AddMember(m, u) \/ Membership!RemoveMember(m, u)
        PROVE  moves' \in [Movers -> Membership!Request] /\ UNCHANGED <<users, teams, issues>>
    BY <1>1, <1>2, <1>3, <2>2
    DEF Membership!AddMember, Membership!RemoveMember, Membership!Handed, Membership!Request
  <2>3. CASE Membership!ManageTeam(m)
    BY <1>1, <1>3, <2>3
    DEF Membership!ManageTeam, Membership!CreateTeam, Membership!AssignManager,
        Membership!RequireManaged, Membership!Handed, Membership!Begun, Membership!Request
  <2>4. CASE \/ Membership!CheckManager(m) \/ Membership!LockForMove(m)
             \/ Membership!LockForSave(m) \/ Membership!CheckManaged(m)
    BY <1>1, <2>4
    DEF Membership!CheckManager, Membership!LockForMove, Membership!LockForSave,
        Membership!CheckManaged, Membership!Moved, Membership!Request
  <2>5. CASE Membership!Refuse(m) \/ Membership!End(m)
    BY <1>1, <2>5, MemberIdleTyped DEF Membership!Refuse, Membership!End, Membership!Released
  <2>. QED BY <2>1, <2>2, <2>3, <2>4, <2>5
<1>. QED BY <1>4 DEF Membership!TypeOK

LEMMA MemberWritesTyped ==
  ASSUME Membership!TypeOK, NEW m \in Movers,
         \/ \E u \in Users : Membership!CreateInTeam(m, u)
         \/ \E u \in Users, role \in GrantedRoles \union {"unsent"}, active \in BOOLEAN :
              Membership!UpdateAccess(m, u, role, active)
         \/ Membership!CommitManager(m) \/ Membership!CommitMove(m) \/ Membership!CommitSave(m)
  PROVE  Membership!TypeOK' /\ Unplaced
<1>1. /\ moves \in [Movers -> Membership!Request] /\ moves[m] \in Membership!Request
      /\ moves[m].role \in Membership!Role \union {"none"}
      /\ moves[m].team \in Teams \union {NoTeam}
      /\ moves[m].user \in Users \union {NoUser}
      /\ moves[m].row \in Membership!Account
  BY DEF Membership!TypeOK, Membership!Request
<1>2. /\ users \in [Users -> Membership!Account] /\ teams \in [Teams -> Users \union {NoUser}]
      /\ issues \in [Issues -> Membership!Placement]
  BY DEF Membership!TypeOK
<1>3. Membership!Released(m) \in [Movers -> Membership!Request]
  BY <1>1, MemberIdleTyped DEF Membership!Released
<1>4. issues' = issues => Unplaced
  BY DEF Unplaced
<1>5. ASSUME NEW u \in Users, Membership!CreateInTeam(m, u)
      PROVE  Membership!TypeOK' /\ Unplaced
  <2>1. users' \in [Users -> Membership!Account]
    BY <1>1, <1>2, <1>5 DEF Membership!CreateInTeam, Membership!Account, Membership!Role
  <2>. QED BY <1>2, <1>3, <1>4, <1>5, <2>1 DEF Membership!CreateInTeam, Membership!TypeOK
<1>6. ASSUME NEW u \in Users, NEW role \in GrantedRoles \union {"unsent"}, NEW active \in BOOLEAN,
             Membership!UpdateAccess(m, u, role, active)
      PROVE  Membership!TypeOK' /\ Unplaced
  <2>1. Membership!Patched(users[u], role, active) \in Membership!Account
    BY <1>2 DEF Membership!Patched, Membership!ParseRole, Membership!Account, Membership!Role
  <2>2. moves' \in [Movers -> Membership!Request]
    BY <1>1, <1>6, <2>1 DEF Membership!UpdateAccess, Membership!Handed, Membership!Request
  <2>. QED BY <1>2, <1>4, <1>6, <2>2 DEF Membership!UpdateAccess, Membership!TypeOK
<1>7. CASE Membership!CommitManager(m)
  <2>1. teams' \in [Teams -> Users \union {NoUser}]
    BY <1>1, <1>2, <1>7 DEF Membership!CommitManager
  <2>. QED BY <1>2, <1>3, <1>4, <1>7, <2>1 DEF Membership!CommitManager, Membership!TypeOK
<1>8. CASE Membership!CommitMove(m)
  <2>1. users' \in [Users -> Membership!Account]
    <3>1. moves[m].user \in Users =>
            [users[moves[m].user] EXCEPT !.team = moves[m].team] \in Membership!Account
      BY <1>1, <1>2 DEF Membership!Account
    <3>. QED BY <1>1, <1>2, <1>8, <3>1 DEF Membership!CommitMove
  <2>2. issues' \in [Issues -> Membership!Placement] /\ Unplaced
    BY <1>8, UnassignedUnplaces DEF Membership!CommitMove
  <2>. QED BY <1>2, <1>3, <1>8, <2>1, <2>2 DEF Membership!CommitMove, Membership!TypeOK
<1>9. CASE Membership!CommitSave(m)
  <2>1. users' \in [Users -> Membership!Account]
    BY <1>1, <1>2, <1>9 DEF Membership!CommitSave
  <2>2. issues' \in [Issues -> Membership!Placement] /\ Unplaced
    BY <1>9, UnassignedUnplaces DEF Membership!CommitSave
  <2>. QED BY <1>2, <1>3, <1>9, <2>1, <2>2 DEF Membership!CommitSave, Membership!TypeOK
<1>. QED BY <1>5, <1>6, <1>7, <1>8, <1>9

LEMMA MemberStepTyped ==
  ASSUME Membership!TypeOK, Membership!Next
  PROVE  Membership!TypeOK' /\ Unplaced
<1>1. PICK m \in Movers :
        \/ \E u \in Users : Membership!Authenticate(m, u)
        \/ Membership!ManageTeam(m) \/ Membership!ManageMember(m)
        \/ Membership!Write(m)
        \/ Membership!End(m)
  BY DEF Membership!Next
<1>2. issues' = issues => Unplaced
  BY DEF Unplaced
<1>3. CASE \/ \E u \in Users : Membership!Authenticate(m, u)
           \/ Membership!ManageTeam(m) \/ Membership!End(m)
  BY <1>2, <1>3, MemberReadsTyped
<1>4. CASE Membership!ManageMember(m)
  BY <1>2, <1>4, MemberReadsTyped, MemberWritesTyped DEF Membership!ManageMember
<1>5. CASE Membership!Write(m)
  BY <1>2, <1>5, MemberReadsTyped, MemberWritesTyped DEF Membership!Write
<1>. QED BY <1>1, <1>3, <1>4, <1>5

-----------------------------------------------------------------------------
(* Requests that read, check or end, and write no table *)

LEMMA IdleTyped == Idle \in Request /\ WellFormed(Idle) /\ Idle.pc = "idle" /\ Idle.op = "none"
BY DEF Idle, Begun, Request, WellFormed, Nowhere, NoCard, Card, Membership!Placement

\* What ScopeHolds and OwnersKept say of a request.
Kept(q) ==
  /\ q.pc = "locked" =>
       /\ Exists(q.issue)
       /\ q.role = "viewer" => issues[q.issue].assignee = q.actor
  /\ q.op = "update" =>
       /\ cards[q.issue].status # "none"
       /\ Exists(q.issue) => q.card.owner = cards[q.issue].owner

LEMMA KeptInIInv ==
  IInv => \A r \in Reqs : req[r] \in Request /\ WellFormed(req[r]) /\ Kept(req[r])
BY DEF IInv, TypeOK, RequestsWellFormed, ScopeHolds, OwnersKept, Kept

LEMMA QuietStep ==
  ASSUME IInv, NEW r \in Reqs, NEW q \in Request, req' = [req EXCEPT ![r] = q],
         UNCHANGED <<users, teams, issues, moves, cards, log>>,
         WellFormed(q), Kept(q),
         q.pc = "locked" => ~IssueLocked(q.issue)
  PROVE  IInv'
<1>0. req \in [Reqs -> Request]
  BY DEF IInv, TypeOK
<1>1. \A s \in Reqs : req'[s] = IF s = r THEN q ELSE req[s]
  BY <1>0
<1>2. TypeOK'
  BY <1>0 DEF IInv, TypeOK, Membership!TypeOK
<1>3. RequestsWellFormed'
  BY <1>1, KeptInIInv DEF RequestsWellFormed
<1>4. Exclusive'
  BY <1>1 DEF IInv, Exclusive, IssueLocked
<1>5. \A i : Exists(i)' = Exists(i)
  BY DEF Exists
<1>6. ScopeHolds' /\ OwnersKept'
  BY <1>1, <1>5, KeptInIInv DEF ScopeHolds, OwnersKept, Kept
<1>7. DeletedNowhere' /\ HistoryKept'
  BY <1>5 DEF IInv, DeletedNowhere, HistoryKept
<1>. QED BY <1>2, <1>3, <1>4, <1>6, <1>7 DEF IInv

LEMMA ReleaseStep ==
  ASSUME IInv, NEW r \in Reqs, req' = Released(r),
         UNCHANGED <<users, teams, issues, moves, cards, log>>
  PROVE  IInv'
<1>1. Kept(Idle)
  BY IdleTyped DEF Kept
<1>. QED BY <1>1, IdleTyped, QuietStep DEF Released

LEMMA BegunTyped ==
  ASSUME NEW pc \in {"authed", "placing", "found"},
         NEW o \in {"none", "create", "update", "delete", "comment"}, NEW a \in Users,
         NEW role \in Membership!Role \union {"none"}, NEW i \in Issues \union {NoIssue},
         NEW place \in Membership!Placement, NEW card \in Card,
         o \in {"update", "delete", "comment"} => i \in Issues,
         o \in {"create", "update"} => card.status \in Status,
         o = "create" => card.owner = a,
         pc = "placing" => o = "create"
  PROVE  /\ Begun(pc, o, a, role, i, place, card) \in Request
         /\ WellFormed(Begun(pc, o, a, role, i, place, card))
BY DEF Begun, Request, WellFormed

LEMMA BegunStep ==
  ASSUME IInv, NEW r \in Reqs, NEW pc \in {"authed", "placing", "found"},
         NEW o \in {"none", "create", "update", "delete", "comment"}, NEW a \in Users,
         NEW role \in Membership!Role \union {"none"}, NEW i \in Issues \union {NoIssue},
         NEW place \in Membership!Placement, NEW card \in Card,
         o \in {"update", "delete", "comment"} => i \in Issues,
         o \in {"create", "update"} => card.status \in Status,
         o = "create" => card.owner = a,
         pc = "placing" => o = "create",
         o = "update" => Exists(i) /\ card.owner = cards[i].owner,
         req' = [req EXCEPT ![r] = Begun(pc, o, a, role, i, place, card)],
         UNCHANGED <<users, teams, issues, moves, cards, log>>
  PROVE  IInv'
<1> DEFINE q == Begun(pc, o, a, role, i, place, card)
<1>1. q \in Request /\ WellFormed(q)
  BY BegunTyped
<1>2. q.pc # "locked" /\ q.op = o /\ q.issue = i /\ q.card = card
  BY DEF Begun
<1>3. Exists(i) => cards[i].status # "none"
  BY DEF Exists, Status
<1>. HIDE DEF q
<1>4. Kept(q)
  BY <1>2, <1>3 DEF Kept
<1>. QED BY <1>1, <1>2, <1>4, QuietStep DEF q

\* A request goes on with what it has.
LEMMA MovedStep ==
  ASSUME IInv, NEW r \in Reqs, NEW pc \in {"teamed", "ready", "counted", "locked"},
         req' = Moved(r, pc), UNCHANGED <<users, teams, issues, moves, cards, log>>,
         req[r].pc # "idle",
         pc = "teamed" => req[r].op \in {"create", "update"},
         pc = "ready" => req[r].op \in {"create", "update", "delete"},
         pc = "counted" => req[r].op = "comment",
         pc = "locked" => /\ req[r].op = "update" /\ ~IssueLocked(req[r].issue)
                          /\ Exists(req[r].issue)
                          /\ req[r].role = "viewer" => issues[req[r].issue].assignee = req[r].actor
  PROVE  IInv'
<1> DEFINE q == [req[r] EXCEPT !.pc = pc]
<1>0. req[r] \in Request /\ WellFormed(req[r]) /\ Kept(req[r]) /\ req \in [Reqs -> Request]
  BY KeptInIInv DEF IInv, TypeOK
<1>1. q \in Request /\ req' = [req EXCEPT ![r] = q]
  BY <1>0 DEF Moved, Request
<1>2. /\ q.pc = pc /\ q.op = req[r].op /\ q.actor = req[r].actor /\ q.role = req[r].role
      /\ q.issue = req[r].issue /\ q.card = req[r].card
  BY <1>0 DEF Request
<1>. HIDE DEF q
<1>3. WellFormed(q)
  BY <1>0, <1>2 DEF WellFormed
<1>4. Kept(q)
  BY <1>0, <1>2 DEF Kept
<1>. QED BY <1>1, <1>2, <1>3, <1>4, QuietStep

LEMMA ReadersKeepIInv ==
  ASSUME IInv, NEW r \in Reqs,
         \/ \E u \in Users : Authenticate(r, u)
         \/ Handle(r) \/ LockIssue(r) \/ NotFound(r) \/ End(r)
  PROVE  IInv'
<1>0. /\ req[r] \in Request /\ WellFormed(req[r]) /\ Kept(req[r])
      /\ req \in [Reqs -> Request] /\ cards \in [Issues -> Card]
      /\ users \in [Users -> Membership!Account] /\ issues \in [Issues -> Membership!Placement]
      /\ req[r].role \in Membership!Role \union {"none"} /\ req[r].card \in Card
  BY KeptInIInv DEF IInv, TypeOK, Membership!TypeOK, Request
<1>1. NoCard \in Card /\ Nowhere \in Membership!Placement
  BY DEF NoCard, Card, Nowhere, Membership!Placement
<1>2. ASSUME NEW u \in Users, Authenticate(r, u)
      PROVE  IInv'
  <2>1. users[u].role \in Membership!Role \union {"none"}
    BY <1>0 DEF Membership!Account
  <2>. QED BY <1>1, <1>2, <2>1, BegunStep DEF Authenticate
<1>3. ASSUME NEW status \in Status \union {"unsent"}, NEW text \in Texts, NEW place \in Placements,
             Create(r, status, text, place)
      PROVE  IInv'
  <2> DEFINE card == [status |-> StatusOf(status), text |-> text, owner |-> req[r].actor]
  <2>1. req[r].actor \in Users
    BY <1>0, <1>3 DEF Create, WellFormed
  <2>2. card \in Card /\ card.status \in Status /\ card.owner = req[r].actor
    BY <2>1 DEF Card, StatusOf, Status
  <2>3. req' = [req EXCEPT ![r] = Begun("placing", "create", req[r].actor, req[r].role, NoIssue,
                                        place, card)]
        /\ UNCHANGED <<users, teams, issues, moves, cards, log>>
    BY <1>3 DEF Create
  <2>. HIDE DEF card
  <2>. QED BY <1>0, <2>1, <2>2, <2>3, BegunStep DEF Placements
<1>4. ASSUME NEW i \in Issues, NEW o \in {"update", "delete", "comment"}, Find(r, i, o)
      PROVE  IInv'
  <2>1. req[r].actor \in Users /\ Exists(i)
    BY <1>0, <1>4 DEF Find, Visible, WellFormed
  <2>2. cards[i] \in Card /\ cards[i].status \in Status /\ issues[i] \in Membership!Placement
    BY <1>0, <2>1 DEF Exists
  <2>. QED BY <1>0, <1>4, <2>1, <2>2, BegunStep DEF Find
<1>5. ASSUME NEW status \in Status, NEW text \in Texts, NEW place \in Placements,
             NEW placed \in BOOLEAN, Update(r, status, text, place, placed)
      PROVE  IInv'
  <2> DEFINE card == [req[r].card EXCEPT !.status = status, !.text = text]
             logs == <<status, text, place>>
                     # <<req[r].card.status, req[r].card.text, req[r].place>>
             pc == IF placed THEN "placing" ELSE "ready"
             q == [req[r] EXCEPT !.pc = pc, !.place = place, !.card = card, !.logs = logs]
  <2>1. card \in Card /\ card.status = status /\ card.owner = req[r].card.owner
    BY <1>0 DEF Card
  <2>2. req' = [req EXCEPT ![r] = q] /\ UNCHANGED <<users, teams, issues, moves, cards, log>>
    BY <1>0, <1>5 DEF Update, Request
  <2>3. req[r].op = "update" /\ req[r].pc # "idle"
    BY <1>5 DEF Update
  <2>4. pc \in {"placing", "ready"} /\ logs \in BOOLEAN
    OBVIOUS
  <2>. HIDE DEF card, logs, pc
  <2>5. q \in Request
    BY <1>0, <2>1, <2>4 DEF Request, Placements
  <2>6. /\ q.pc = pc /\ q.op = "update" /\ q.actor = req[r].actor /\ q.issue = req[r].issue
        /\ q.card = card
    BY <1>0, <2>3 DEF Request
  <2>. HIDE DEF q
  <2>7. WellFormed(q)
    BY <1>0, <2>1, <2>3, <2>4, <2>6 DEF WellFormed
  <2>8. Kept(q)
    BY <1>0, <2>1, <2>3, <2>4, <2>6 DEF Kept
  <2>. QED BY <2>2, <2>4, <2>5, <2>6, <2>7, <2>8, QuietStep
<1>6. CASE CheckTeam(r)
  <2>1. req[r].op \in {"create", "update"}
    BY <1>0, <1>6 DEF CheckTeam, WellFormed
  <2>. QED BY <1>6, <2>1, MovedStep DEF CheckTeam
<1>7. CASE CheckAssignee(r)
  <2>1. req[r].op \in {"create", "update", "delete"}
    BY <1>0, <1>7 DEF CheckAssignee, WellFormed
  <2>. QED BY <1>7, <2>1, MovedStep DEF CheckAssignee
<1>8. CASE Delete(r) \/ CountIssue(r)
  BY <1>8, MovedStep DEF Delete, CountIssue
<1>9. CASE LockIssue(r)
  <2>1. Exists(req[r].issue)
        /\ (req[r].role = "viewer" => issues[req[r].issue].assignee = req[r].actor)
    BY <1>9 DEF LockIssue, InScope, Visible
  <2>. QED BY <1>9, <2>1, MovedStep DEF LockIssue
<1>10. CASE NotFound(r) \/ End(r)
  BY <1>10, ReleaseStep DEF NotFound, End
<1>. QED BY <1>2, <1>3, <1>4, <1>5, <1>6, <1>7, <1>8, <1>9, <1>10 DEF Handle

-----------------------------------------------------------------------------
(* Statements that commit *)

\* One issue's row and activities are written by a request that ends.
LEMMA RowKeepsIInv ==
  ASSUME IInv, NEW r \in Reqs, NEW i \in Issues,
         NEW card \in Card, NEW place \in Membership!Placement, NEW names \in SUBSET Users,
         card.status # "none",
         IF card.status \in Status THEN card.owner \in names ELSE names = {} /\ place = Nowhere,
         \A s \in Reqs \ {r} :
           req[s].issue = i =>
             /\ req[s].pc = "locked" => card = cards[i] /\ place = issues[i]
             /\ req[s].op = "update" /\ card.status \in Status => req[s].card.owner = card.owner,
         req' = Released(r),
         cards' = [cards EXCEPT ![i] = card],
         issues' = [issues EXCEPT ![i] = place],
         log' = [log EXCEPT ![i] = names],
         UNCHANGED <<users, teams, moves>>
  PROVE  IInv'
<1>0. /\ req \in [Reqs -> Request] /\ cards \in [Issues -> Card]
      /\ issues \in [Issues -> Membership!Placement] /\ log \in [Issues -> SUBSET Users]
  BY DEF IInv, TypeOK, Membership!TypeOK
<1>1. \A s \in Reqs : req'[s] = IF s = r THEN Idle ELSE req[s]
  BY <1>0 DEF Released
<1>2. \A j \in Issues : /\ cards'[j] = IF j = i THEN card ELSE cards[j]
                        /\ issues'[j] = IF j = i THEN place ELSE issues[j]
                        /\ log'[j] = IF j = i THEN names ELSE log[j]
  BY <1>0
<1>3. TypeOK'
  <2>1. req' \in [Reqs -> Request]
    BY <1>0, IdleTyped DEF Released
  <2>. QED BY <1>0, <2>1 DEF IInv, TypeOK, Membership!TypeOK
<1>4. RequestsWellFormed'
  BY <1>1, IdleTyped, KeptInIInv DEF RequestsWellFormed
<1>5. Exclusive'
  BY <1>1, IdleTyped DEF IInv, Exclusive
<1>6. ScopeHolds' /\ OwnersKept'
  <2> SUFFICES ASSUME NEW s \in Reqs PROVE Kept(req[s])'
    BY DEF Kept, ScopeHolds, OwnersKept
  <2>1. CASE s = r
    BY <1>1, <2>1, IdleTyped DEF Kept
  <2>2. CASE s # r
    <3>1. req'[s] = req[s] /\ Kept(req[s]) /\ WellFormed(req[s])
      BY <1>1, <2>2, KeptInIInv
    <3>2. req[s].op = "update" \/ req[s].pc = "locked" => req[s].issue \in Issues
      BY <3>1 DEF WellFormed
    <3>3. CASE req[s].issue # i
      BY <1>2, <3>1, <3>2, <3>3 DEF Kept, Exists
    <3>4. CASE req[s].issue = i
      BY <1>2, <2>2, <3>1, <3>4 DEF Kept, Exists
    <3>. QED BY <3>3, <3>4
  <2>. QED BY <2>1, <2>2
<1>7. DeletedNowhere' /\ HistoryKept'
  <2>1. "deleted" \notin Status
    BY DEF Status
  <2>. QED BY <1>2, <2>1 DEF IInv, DeletedNowhere, HistoryKept, Exists
<1>. QED BY <1>3, <1>4, <1>5, <1>6, <1>7 DEF IInv

LEMMA CommitsKeepIInv ==
  ASSUME IInv, NEW r \in Reqs,
         \/ \E i \in Issues : CommitCreate(r, i)
         \/ CommitUpdate(r) \/ CommitDelete(r) \/ CommitComment(r)
  PROVE  IInv'
<1>0. /\ req[r] \in Request /\ WellFormed(req[r]) /\ Kept(req[r])
      /\ cards \in [Issues -> Card] /\ log \in [Issues -> SUBSET Users]
      /\ issues \in [Issues -> Membership!Placement]
      /\ req[r].card \in Card /\ req[r].place \in Membership!Placement
  BY KeptInIInv DEF IInv, TypeOK, Membership!TypeOK, Request
<1>1. \A s \in Reqs : WellFormed(req[s]) /\ Kept(req[s])
  BY KeptInIInv
<1>2. ASSUME NEW i \in Issues, CommitCreate(r, i)
      PROVE  IInv'
  <2> DEFINE names == {req[r].actor}
  <2>1. /\ req[r].actor \in Users /\ req[r].card.status \in Status
        /\ req[r].card.owner = req[r].actor
    BY <1>0, <1>2 DEF CommitCreate, WellFormed
  <2>2. cards[i].status = "none" /\ ~Exists(i) /\ "none" \notin Status
    BY <1>2 DEF CommitCreate, NoCard, Exists, Status
  <2>3. \A s \in Reqs : req[s].issue = i => req[s].pc # "locked" /\ req[s].op # "update"
    BY <1>1, <2>2 DEF Kept
  <2>4. /\ req' = Released(r) /\ UNCHANGED <<users, teams, moves>>
        /\ cards' = [cards EXCEPT ![i] = req[r].card] /\ issues' = [issues EXCEPT ![i] = req[r].place]
        /\ log' = [log EXCEPT ![i] = names]
    BY <1>2 DEF CommitCreate
  <2>5. names \in SUBSET Users /\ req[r].card.owner \in names
    BY <2>1
  <2>6. req[r].card.status # "none"
    BY <2>1, <2>2
  <2>. HIDE DEF names
  <2>. QED BY <1>0, <2>1, <2>3, <2>4, <2>5, <2>6, RowKeepsIInv
<1>3. CASE CommitUpdate(r)
  <2> DEFINE i == req[r].issue
             names == IF req[r].logs THEN log[i] \union {req[r].actor} ELSE log[i]
  <2>1. /\ req[r].op = "update" /\ i \in Issues /\ req[r].actor \in Users
        /\ req[r].card.status \in Status /\ Exists(i) /\ req[r].card.owner = cards[i].owner
        /\ req[r].pc = "locked"
    BY <1>0, <1>3 DEF CommitUpdate, WellFormed, Kept
  <2>2. names \in SUBSET Users /\ cards[i].owner \in names
    BY <1>0, <2>1 DEF IInv, HistoryKept
  <2>3. \A s \in Reqs \ {r} : req[s].issue = i => req[s].pc # "locked"
    BY <2>1 DEF IInv, Exclusive
  <2>4. \A s \in Reqs : req[s].issue = i /\ req[s].op = "update" => req[s].card.owner = cards[i].owner
    BY <1>1, <2>1 DEF Kept
  <2>5. /\ req' = Released(r) /\ UNCHANGED <<users, teams, moves>>
        /\ cards' = [cards EXCEPT ![i] = req[r].card] /\ issues' = [issues EXCEPT ![i] = req[r].place]
        /\ log' = [log EXCEPT ![i] = names]
    BY <1>0, <1>3, <2>1 DEF CommitUpdate
  <2>6. "none" \notin Status
    BY DEF Status
  <2>. HIDE DEF i, names
  <2>. QED BY <1>0, <2>1, <2>2, <2>3, <2>4, <2>5, <2>6, RowKeepsIInv
<1>4. CASE CommitDelete(r)
  <2> DEFINE i == req[r].issue
             names == {}
  <2>1. i \in Issues
    BY <1>0, <1>4 DEF CommitDelete, WellFormed
  <2>2. Deleted \in Card /\ Deleted.status = "deleted" /\ "deleted" \notin Status
        /\ Nowhere \in Membership!Placement
    BY DEF Deleted, NoCard, Card, Status, Nowhere, Membership!Placement
  <2>3. \A s \in Reqs : req[s].issue = i => req[s].pc # "locked"
    BY <1>4 DEF CommitDelete, IssueLocked
  <2>4. /\ req' = Released(r) /\ UNCHANGED <<users, teams, moves>>
        /\ cards' = [cards EXCEPT ![i] = Deleted] /\ issues' = [issues EXCEPT ![i] = Nowhere]
        /\ log' = [log EXCEPT ![i] = names]
    BY <1>4 DEF CommitDelete
  <2>5. names \in SUBSET Users /\ names = {}
    OBVIOUS
  <2>6. Deleted.status # "none" /\ Deleted.status \notin Status
    BY <2>2
  <2>7. \A s \in Reqs \ {r} :
          req[s].issue = i =>
            /\ req[s].pc = "locked" => Deleted = cards[i] /\ Nowhere = issues[i]
            /\ req[s].op = "update" /\ Deleted.status \in Status => req[s].card.owner = Deleted.owner
    BY <2>3, <2>6
  <2>. HIDE DEF i, names
  <2>. QED BY <2>1, <2>2, <2>4, <2>5, <2>6, <2>7, RowKeepsIInv
<1>5. CASE CommitComment(r)
  <2> DEFINE i == req[r].issue
             names == log[i] \union {req[r].actor}
  <2>1. i \in Issues /\ req[r].actor \in Users /\ Exists(i)
    BY <1>0, <1>5 DEF CommitComment, WellFormed
  <2>2. names \in SUBSET Users /\ cards[i].owner \in names /\ cards[i] \in Card
        /\ issues[i] \in Membership!Placement
    BY <1>0, <2>1 DEF IInv, HistoryKept
  <2>3. \A s \in Reqs : req[s].issue = i /\ req[s].op = "update" => req[s].card.owner = cards[i].owner
    BY <1>1, <2>1 DEF Kept
  <2>4. /\ req' = Released(r) /\ UNCHANGED <<users, teams, moves>>
        /\ cards' = [cards EXCEPT ![i] = cards[i]] /\ issues' = [issues EXCEPT ![i] = issues[i]]
        /\ log' = [log EXCEPT ![i] = names]
    BY <1>0, <1>5, <2>1 DEF CommitComment
  <2>5. cards[i].status \in Status /\ cards[i].status # "none"
    BY <2>1 DEF Exists, Status
  <2>. HIDE DEF i, names
  <2>. QED BY <2>1, <2>2, <2>3, <2>4, <2>5, RowKeepsIInv
<1>. QED BY <1>2, <1>3, <1>4, <1>5

-----------------------------------------------------------------------------
(* Membership steps and the deadlock detector *)

LEMMA MemberKeepsIInv ==
  ASSUME IInv, Member(Membership!Next)
  PROVE  IInv'
<1>0. /\ Membership!TypeOK /\ cards' = cards /\ log' = log /\ req' = req
      /\ Membership!Next
      /\ \A i \in Issues : issues'[i] # issues[i] => ~IssueLocked(i)
  BY DEF IInv, TypeOK, Member, ivars
<1>1. Membership!TypeOK' /\ Unplaced
  BY <1>0, MemberStepTyped
<1>2. TypeOK' /\ RequestsWellFormed' /\ Exclusive' /\ OwnersKept' /\ HistoryKept'
  BY <1>0, <1>1 DEF IInv, TypeOK, RequestsWellFormed, Exclusive, OwnersKept, HistoryKept, Exists
<1>3. ScopeHolds'
  <2> SUFFICES ASSUME NEW r \in Reqs, req[r].pc = "locked"
               PROVE  /\ Exists(req[r].issue)'
                      /\ req[r].role = "viewer" => issues'[req[r].issue].assignee = req[r].actor
    BY <1>0 DEF ScopeHolds
  <2>1. req[r].issue \in Issues
    BY KeptInIInv DEF WellFormed
  <2>2. issues'[req[r].issue] = issues[req[r].issue]
    BY <1>0, <2>1 DEF IssueLocked
  <2>. QED BY <1>0, <2>2 DEF IInv, ScopeHolds, Exists
<1>4. DeletedNowhere'
  <2>1. Nowhere.team = NoTeam
    BY DEF Nowhere
  <2>. QED BY <1>0, <1>1, <2>1 DEF IInv, DeletedNowhere, Unplaced
<1>. QED BY <1>2, <1>3, <1>4 DEF IInv

LEMMA AbortKeepsIInv ==
  ASSUME IInv, NEW p \in Reqs \union Movers, Abort(p)
  PROVE  IInv'
<1>1. CASE p \in Reqs
  BY <1>1, ReleaseStep DEF Abort
<1>2. CASE p \notin Reqs
  <2>1. /\ UNCHANGED <<users, teams, issues, cards, log, req>>
        /\ moves' = [moves EXCEPT ![p] = Membership!Idle]
    BY <1>2 DEF Abort
  <2>2. moves' \in [Movers -> Membership!Request]
    BY <2>1, MemberIdleTyped DEF IInv, TypeOK, Membership!TypeOK
  <2>3. TypeOK'
    BY <2>1, <2>2 DEF IInv, TypeOK, Membership!TypeOK
  <2>4. /\ RequestsWellFormed' /\ Exclusive' /\ ScopeHolds' /\ OwnersKept' /\ DeletedNowhere'
        /\ HistoryKept'
    BY <2>1 DEF IInv, RequestsWellFormed, Exclusive, ScopeHolds, OwnersKept, DeletedNowhere,
                HistoryKept, Exists
  <2>. QED BY <2>3, <2>4 DEF IInv
<1>. QED BY <1>1, <1>2

-----------------------------------------------------------------------------
(* The invariant *)

LEMMA InitIInv == Init => IInv
<1> SUFFICES ASSUME Init PROVE IInv
  OBVIOUS
<1>. USE BoardAssumption
<1>1. /\ users = StartUsers /\ teams = StartTeams /\ issues = StartIssues
      /\ moves = [m \in Movers |-> Membership!Idle]
      /\ cards = StartCards /\ req = [r \in Reqs |-> Idle]
      /\ log = [i \in Issues |->
                  IF StartCards[i].status \in Status THEN {StartCards[i].owner} ELSE {}]
  BY DEF Init, Membership!Init
<1>2. Membership!TypeOK
  BY <1>1, MemberIdleTyped DEF Membership!TypeOK
<1>3. TypeOK
  BY <1>1, <1>2, IdleTyped DEF TypeOK
<1>4. RequestsWellFormed /\ Exclusive /\ ScopeHolds /\ OwnersKept
  BY <1>1, IdleTyped DEF RequestsWellFormed, Exclusive, ScopeHolds, OwnersKept
<1>5. DeletedNowhere /\ HistoryKept
  BY <1>1 DEF DeletedNowhere, HistoryKept, Exists, Status
<1>. QED BY <1>3, <1>4, <1>5 DEF IInv

LEMMA NextKeepsIInv == IInv /\ [Next]_vars => IInv'
<1> SUFFICES ASSUME IInv, [Next]_vars PROVE IInv'
  OBVIOUS
<1>1. ASSUME NEW r \in Reqs,
             (\E u \in Users : Authenticate(r, u)) \/ Handle(r) \/ Write(r) \/ End(r)
      PROVE  IInv'
  BY <1>1, ReadersKeepIInv, CommitsKeepIInv DEF Write
<1>2. CASE UNCHANGED vars
  <2>1. TypeOK'
    BY <1>2 DEF vars, IInv, TypeOK, Membership!TypeOK
  <2>2. /\ RequestsWellFormed' /\ Exclusive' /\ ScopeHolds' /\ OwnersKept' /\ DeletedNowhere'
        /\ HistoryKept'
    BY <1>2 DEF vars, IInv, RequestsWellFormed, Exclusive, ScopeHolds, OwnersKept, DeletedNowhere,
                HistoryKept, Exists
  <2>. QED BY <2>1, <2>2 DEF IInv
<1>. QED BY <1>1, <1>2, MemberKeepsIInv, AbortKeepsIInv DEF Next

\* A deleted issue is deleted and nowhere after any step.
LEMMA StepKeepsDeleted ==
  ASSUME IInv, Next, NEW i \in Issues, cards[i].status = "deleted"
  PROVE  cards'[i].status = "deleted" /\ issues'[i] = Nowhere
<1>0. /\ cards \in [Issues -> Card] /\ issues \in [Issues -> Membership!Placement]
      /\ issues[i] = Nowhere /\ ~Exists(i) /\ cards[i] # NoCard
  BY DEF IInv, TypeOK, Membership!TypeOK, DeletedNowhere, Exists, Status, NoCard
<1>1. CASE UNCHANGED <<cards, issues>>
  BY <1>0, <1>1
<1>2. CASE Member(Membership!Next)
  <2>1. Unplaced /\ cards' = cards
    BY <1>2, MemberStepTyped DEF IInv, TypeOK, Member, ivars
  <2>. QED BY <1>0, <2>1 DEF Unplaced, Nowhere
<1>3. ASSUME NEW r \in Reqs, NEW j \in Issues, CommitCreate(r, j)
      PROVE  cards'[i].status = "deleted" /\ issues'[i] = Nowhere
  BY <1>0, <1>3 DEF CommitCreate
<1>4. ASSUME NEW r \in Reqs, CommitUpdate(r)
      PROVE  cards'[i].status = "deleted" /\ issues'[i] = Nowhere
  <2>1. req[r].issue # i
    BY <1>0, <1>4 DEF CommitUpdate, IInv, ScopeHolds
  <2>. QED BY <1>0, <1>4, <2>1 DEF CommitUpdate
<1>5. ASSUME NEW r \in Reqs, CommitDelete(r)
      PROVE  cards'[i].status = "deleted" /\ issues'[i] = Nowhere
  <2>1. req[r].issue # i
    BY <1>0, <1>5 DEF CommitDelete, InScope, Visible
  <2>. QED BY <1>0, <1>5, <2>1 DEF CommitDelete
<1>6. ASSUME NEW r \in Reqs,
             \/ \E u \in Users : Authenticate(r, u)
             \/ Handle(r) \/ LockIssue(r) \/ CommitComment(r) \/ NotFound(r) \/ End(r)
      PROVE  UNCHANGED <<cards, issues>>
  BY <1>6 DEF Handle, Authenticate, Create, Find, Update, CheckTeam, CheckAssignee, Delete,
              CountIssue, LockIssue, CommitComment, NotFound, End
<1>7. ASSUME NEW p \in Reqs \union Movers, Abort(p)
      PROVE  UNCHANGED <<cards, issues>>
  BY <1>7 DEF Abort
<1>. QED BY <1>1, <1>2, <1>3, <1>4, <1>5, <1>6, <1>7 DEF Next, Write

-----------------------------------------------------------------------------
(* What a step does to a request that creates or updates *)

\* p and q are two states of one request.
Same(p, q) == /\ q.op = p.op /\ q.issue = p.issue
              /\ q.actor = p.actor /\ q.role = p.role

\* An update has just read the issue.
Found(q) == /\ q.op = "update" /\ q.pc = "found" /\ q.issue \in Issues
            /\ Visible(q.issue, q.actor, q.role)
            /\ q.place = issues[q.issue] /\ q.card = cards[q.issue]

\* What was sent is applied to the copy.
Applied(p, q) ==
  /\ Same(p, q) /\ p.pc = "found"
  /\ \/ q.pc = "placing" /\ q.role # "viewer"
     \/ q.pc = "ready" /\ q.place = p.place
  /\ q.role = "viewer" => q.card.text = p.card.text

\* A check has passed, or the statement has found its row.
Passed(p, q) ==
  /\ Same(p, q) /\ q.place = p.place /\ q.card = p.card
  /\ \/ p.pc = "placing" /\ q.pc = "teamed"
     \/ /\ p.pc = "teamed" /\ q.pc = "ready"
        /\ q.place.assignee # NoUser => users[q.place.assignee].team = q.place.team
     \/ p.pc = "ready" /\ q.pc = "locked"

Reads(r) ==
  \/ \E u \in Users : Authenticate(r, u)
  \/ Handle(r) \/ LockIssue(r) \/ CommitComment(r) \/ NotFound(r) \/ End(r)

LEMMA ReadStep ==
  ASSUME IInv, NEW r \in Reqs, Reads(r)
  PROVE  /\ UNCHANGED <<users, teams, issues, moves, cards>>
         /\ \A s \in Reqs \ {r} : req'[s] = req[s]
         /\ \/ req'[r].op \notin {"create", "update"}
            \/ req'[r].op = "create" /\ req'[r].pc = "placing"
            \/ Found(req'[r]) \/ Applied(req[r], req'[r]) \/ Passed(req[r], req'[r])
<1>0. req \in [Reqs -> Request] /\ req[r] \in Request /\ WellFormed(req[r])
  BY KeptInIInv DEF IInv, TypeOK
<1>1. UNCHANGED <<users, teams, issues, moves, cards>> /\ \A s \in Reqs \ {r} : req'[s] = req[s]
  <2>1. CASE Handle(r)
    <3>1. UNCHANGED <<users, teams, issues, moves, cards>>
      BY <2>1 DEF Handle, Create, Find, Update, CheckTeam, CheckAssignee, Delete, CountIssue
    <3>2. \A s \in Reqs \ {r} : req'[s] = req[s]
      <4>1. ASSUME NEW status \in Status \union {"unsent"}, NEW text \in Texts,
                   NEW place \in Placements, Create(r, status, text, place)
            PROVE  \A s \in Reqs \ {r} : req'[s] = req[s]
        BY <1>0, <4>1 DEF Create
      <4>2. ASSUME NEW i \in Issues, NEW o \in {"update", "delete", "comment"}, Find(r, i, o)
            PROVE  \A s \in Reqs \ {r} : req'[s] = req[s]
        BY <1>0, <4>2 DEF Find
      <4>3. ASSUME NEW status \in Status, NEW text \in Texts, NEW place \in Placements,
                   NEW placed \in BOOLEAN, Update(r, status, text, place, placed)
            PROVE  \A s \in Reqs \ {r} : req'[s] = req[s]
        BY <1>0, <4>3 DEF Update
      <4>4. CheckTeam(r) \/ CheckAssignee(r) \/ Delete(r) \/ CountIssue(r)
              => \A s \in Reqs \ {r} : req'[s] = req[s]
        BY <1>0 DEF CheckTeam, CheckAssignee, Delete, CountIssue, Moved
      <4>. QED BY <2>1, <4>1, <4>2, <4>3, <4>4 DEF Handle
    <3>. QED BY <3>1, <3>2
  <2>2. CASE (\E u \in Users : Authenticate(r, u)) \/ LockIssue(r) \/ CommitComment(r)
             \/ NotFound(r) \/ End(r)
    BY <1>0, <2>2 DEF Authenticate, LockIssue, CommitComment, NotFound, End, Moved, Released
  <2>. QED BY <2>1, <2>2 DEF Reads
<1>2. req' = Released(r) => req'[r].op \notin {"create", "update"}
  BY <1>0, IdleTyped DEF Released
<1>3. \A u \in Users : Authenticate(r, u) => req'[r].op \notin {"create", "update"}
  BY <1>0 DEF Authenticate, Begun
<1>4. ASSUME NEW status \in Status \union {"unsent"}, NEW text \in Texts, NEW place \in Placements,
             Create(r, status, text, place)
      PROVE  req'[r].op = "create" /\ req'[r].pc = "placing"
  BY <1>0, <1>4 DEF Create, Begun
<1>5. ASSUME NEW i \in Issues, NEW o \in {"update", "delete", "comment"}, Find(r, i, o)
      PROVE  req'[r].op \notin {"create", "update"} \/ Found(req'[r])
  BY <1>0, <1>5 DEF Find, Begun, Found
<1>6. ASSUME NEW status \in Status, NEW text \in Texts, NEW place \in Placements,
             NEW placed \in BOOLEAN, Update(r, status, text, place, placed)
      PROVE  Applied(req[r], req'[r])
  <2> DEFINE q == [req[r] EXCEPT !.pc = IF placed THEN "placing" ELSE "ready",
                                 !.place = place,
                                 !.card = [@ EXCEPT !.status = status, !.text = text],
                                 !.logs = <<status, text, place>> # <<req[r].card.status, req[r].card.text, req[r].place>>]
  <2>1. req'[r] = q
    BY <1>0, <1>6 DEF Update
  <2>2. req[r].card \in Card
    BY <1>0 DEF Request
  <2>3. /\ q.pc = IF placed THEN "placing" ELSE "ready"
        /\ q.place = place /\ q.card.text = text /\ Same(req[r], q)
    BY <1>0, <2>2 DEF Request, Card, Same
  <2>. HIDE DEF q
  <2>4. Applied(req[r], q)
    <3>1. /\ req[r].pc = "found" /\ (req[r].role = "viewer" => text = req[r].card.text /\ ~placed)
          /\ (~placed => place = req[r].place)
      BY <1>6 DEF Update
    <3>2. CASE placed
      BY <2>3, <3>1, <3>2 DEF Applied, Same
    <3>3. CASE ~placed
      BY <2>3, <3>1, <3>3 DEF Applied, Same
    <3>. QED BY <3>2, <3>3
  <2>. QED BY <2>1, <2>4
<1>7. ASSUME NEW pc, req' = Moved(r, pc)
      PROVE  /\ Same(req[r], req'[r]) /\ req'[r].pc = pc
             /\ req'[r].place = req[r].place /\ req'[r].card = req[r].card
  <2> DEFINE q == [req[r] EXCEPT !.pc = pc]
  <2>1. req'[r] = q
    BY <1>0, <1>7 DEF Moved
  <2>2. q.pc = pc /\ q.place = req[r].place /\ q.card = req[r].card /\ Same(req[r], q)
    BY <1>0 DEF Request, Same
  <2>. QED BY <2>1, <2>2
<1>8. CheckTeam(r) \/ CheckAssignee(r) \/ LockIssue(r) => Passed(req[r], req'[r])
  <2>1. CheckTeam(r) => Passed(req[r], req'[r])
    BY <1>7 DEF CheckTeam, Passed
  <2>2. CheckAssignee(r) => Passed(req[r], req'[r])
    BY <1>7 DEF CheckAssignee, Passed
  <2>3. LockIssue(r) => Passed(req[r], req'[r])
    BY <1>7 DEF LockIssue, Passed
  <2>. QED BY <2>1, <2>2, <2>3
<1>9. Delete(r) \/ CountIssue(r) => req'[r].op \notin {"create", "update"}
  BY <1>7 DEF Delete, CountIssue, Same
<1>10. CommitComment(r) \/ NotFound(r) \/ End(r) => req'[r].op \notin {"create", "update"}
  BY <1>2 DEF CommitComment, NotFound, End
<1>. QED BY <1>1, <1>3, <1>4, <1>5, <1>6, <1>8, <1>9, <1>10 DEF Reads, Handle

\* Every step reads, commits for one request, moves members or aborts.
LEMMA Steps ==
  ASSUME [Next]_vars
  PROVE  \/ \E r \in Reqs : Reads(r) \/ CommitUpdate(r) \/ CommitDelete(r)
                            \/ \E i \in Issues : CommitCreate(r, i)
         \/ Member(Membership!Next)
         \/ \E p \in Reqs \union Movers : Abort(p)
         \/ UNCHANGED vars
BY DEF Next, Write, Reads

-----------------------------------------------------------------------------
(* What workers write *)

\* A worker's update holds what its issue still is, unless the worker has lost
\* the issue or the issue has gone.
Current(q) ==
  q.op = "update" /\ q.role = "viewer" =>
    /\ q.pc \in {"found", "ready", "locked"}
    /\ Exists(q.issue) => /\ cards[q.issue].text = q.card.text
                          /\ issues[q.issue] = q.place \/ issues[q.issue].assignee # q.actor

CopiesCurrent == \A r \in Reqs : Current(req[r])

LEMMA UpdatesOfKnown ==
  ASSUME IInv, NEW s \in Reqs, req[s].op = "update"
  PROVE  req[s].issue \in Issues /\ cards[req[s].issue] # NoCard
         /\ (req[s].pc # "idle" => req[s].actor \in Users)
BY DEF IInv, RequestsWellFormed, WellFormed, OwnersKept, NoCard

\* A commit that ends r leaves the copies of the others current if it writes no
\* issue that a worker's update has read, or deletes it.
LEMMA CommitCurrent ==
  ASSUME IInv, CopiesCurrent, NEW r \in Reqs, NEW i \in Issues,
         req' = Released(r),
         \A j \in Issues \ {i} : cards'[j] = cards[j] /\ issues'[j] = issues[j],
         \/ \A s \in Reqs \ {r} : ~(req[s].issue = i /\ req[s].op = "update" /\ req[s].role = "viewer")
         \/ cards'[i].status \notin Status
  PROVE  CopiesCurrent'
<1>0. \A s \in Reqs : req'[s] = IF s = r THEN Idle ELSE req[s]
  BY DEF IInv, TypeOK, Released
<1> SUFFICES ASSUME NEW s \in Reqs \ {r}, req[s].op = "update", req[s].role = "viewer"
             PROVE  Current(req[s])'
  BY <1>0, IdleTyped DEF CopiesCurrent, Current
<1>1. Current(req[s]) /\ req[s].issue \in Issues /\ req'[s] = req[s]
  BY <1>0, UpdatesOfKnown DEF CopiesCurrent
<1>2. CASE req[s].issue # i
  BY <1>1, <1>2 DEF Current, Exists
<1>3. CASE req[s].issue = i
  BY <1>1, <1>3 DEF Current, Exists
<1>. QED BY <1>2, <1>3

LEMMA StepKeepsCurrent == IInv /\ CopiesCurrent /\ ~Overtaking /\ [Next]_vars => CopiesCurrent'
<1> SUFFICES ASSUME IInv, CopiesCurrent, ~Overtaking, [Next]_vars PROVE CopiesCurrent'
  OBVIOUS
<1>0. /\ cards \in [Issues -> Card] /\ issues \in [Issues -> Membership!Placement]
      /\ req \in [Reqs -> Request]
  BY DEF IInv, TypeOK, Membership!TypeOK
<1>1. ASSUME NEW r \in Reqs, Reads(r)
      PROVE  CopiesCurrent'
  <2>1. UNCHANGED <<issues, cards>> /\ \A s \in Reqs \ {r} : req'[s] = req[s]
    BY <1>1, ReadStep
  <2>2. Current(req[r])
    BY DEF CopiesCurrent
  <2>3. Current(req'[r])
    BY <1>1, <2>2, ReadStep DEF Current, Found, Applied, Passed, Same
  <2>. QED BY <2>1, <2>3 DEF CopiesCurrent, Current, Exists
<1>2. ASSUME NEW r \in Reqs, CommitUpdate(r)
      PROVE  CopiesCurrent'
  <2> DEFINE i == req[r].issue
  <2>1. i \in Issues /\ req[r].pc = "locked"
    BY <1>2, KeptInIInv DEF CommitUpdate, WellFormed
  <2>2. \A s \in Reqs \ {r} : ~(req[s].issue = i /\ req[s].op = "update" /\ req[s].role = "viewer")
    BY <2>1 DEF Overtaking
  <2>3. req' = Released(r) /\ \A j \in Issues \ {i} : cards'[j] = cards[j] /\ issues'[j] = issues[j]
    BY <1>0, <1>2 DEF CommitUpdate
  <2>. QED BY <2>1, <2>2, <2>3, CommitCurrent
<1>3. ASSUME NEW r \in Reqs, CommitDelete(r)
      PROVE  CopiesCurrent'
  <2> DEFINE i == req[r].issue
  <2>1. i \in Issues
    BY <1>3, KeptInIInv DEF CommitDelete, WellFormed
  <2>2. /\ req' = Released(r) /\ cards'[i].status \notin Status
        /\ \A j \in Issues \ {i} : cards'[j] = cards[j] /\ issues'[j] = issues[j]
    BY <1>0, <1>3, <2>1 DEF CommitDelete, Deleted, NoCard, Status
  <2>. QED BY <2>1, <2>2, CommitCurrent
<1>4. ASSUME NEW r \in Reqs, NEW i \in Issues, CommitCreate(r, i)
      PROVE  CopiesCurrent'
  <2>1. \A s \in Reqs \ {r} : ~(req[s].issue = i /\ req[s].op = "update" /\ req[s].role = "viewer")
    BY <1>4, UpdatesOfKnown DEF CommitCreate
  <2>2. req' = Released(r) /\ \A j \in Issues \ {i} : cards'[j] = cards[j] /\ issues'[j] = issues[j]
    BY <1>0, <1>4 DEF CommitCreate
  <2>. QED BY <2>1, <2>2, CommitCurrent
<1>5. CASE Member(Membership!Next)
  <2>1. Unplaced /\ cards' = cards /\ req' = req
    BY <1>5, MemberStepTyped DEF IInv, TypeOK, Member, ivars
  <2> SUFFICES ASSUME NEW s \in Reqs, req[s].op = "update", req[s].role = "viewer"
               PROVE  Current(req[s])'
    BY <2>1 DEF CopiesCurrent, Current
  <2>2. Current(req[s]) /\ req[s].issue \in Issues /\ req[s].actor \in Users
    BY UpdatesOfKnown DEF CopiesCurrent, Current
  <2>3. \/ issues'[req[s].issue] = issues[req[s].issue]
        \/ issues'[req[s].issue].assignee = NoUser
    BY <1>0, <2>1, <2>2 DEF Unplaced, Membership!Placement
  <2>. QED BY <2>1, <2>2, <2>3 DEF Current, Exists
<1>6. ASSUME NEW p \in Reqs \union Movers, Abort(p)
      PROVE  CopiesCurrent'
  <2>1. /\ UNCHANGED <<issues, cards>>
        /\ \A s \in Reqs : req'[s] = req[s] \/ req'[s].op = "none"
    BY <1>0, <1>6, IdleTyped DEF Abort, Released
  <2>. QED BY <2>1 DEF CopiesCurrent, Current, Exists
<1>7. CASE UNCHANGED vars
  BY <1>7 DEF vars, CopiesCurrent, Current, Exists
<1>. QED BY <1>1, <1>2, <1>3, <1>4, <1>5, <1>6, <1>7, Steps

\* The step that ends a worker's locked update writes its current copy, or nothing.
LEMMA StepWritesStatus ==
  ASSUME IInv, CopiesCurrent, [Next]_vars, NEW r \in Reqs,
         req[r].pc = "locked", req[r].role = "viewer", req'[r] # req[r]
  PROVE  /\ cards'[req[r].issue].text = cards[req[r].issue].text
         /\ issues'[req[r].issue] = issues[req[r].issue]
<1>0. /\ cards \in [Issues -> Card] /\ issues \in [Issues -> Membership!Placement]
      /\ req \in [Reqs -> Request] /\ req[r].issue \in Issues /\ req[r].op = "update"
      /\ Exists(req[r].issue) /\ issues[req[r].issue].assignee = req[r].actor
  BY KeptInIInv DEF IInv, TypeOK, Membership!TypeOK, WellFormed, Kept
<1>1. CASE CommitUpdate(r)
  BY <1>0, <1>1 DEF CommitUpdate, CopiesCurrent, Current
<1>2. ASSUME NEW s \in Reqs, Reads(s)
      PROVE  UNCHANGED <<cards, issues>>
  BY <1>2, ReadStep
<1>3. ASSUME NEW s \in Reqs, CommitUpdate(s) \/ CommitDelete(s) \/ \E i \in Issues : CommitCreate(s, i)
      PROVE  s = r /\ CommitUpdate(s)
  <2>1. s = r
    BY <1>0, <1>3 DEF CommitUpdate, CommitDelete, CommitCreate, Released
  <2>. QED BY <1>3, <2>1 DEF CommitDelete, CommitCreate
<1>4. CASE Member(Membership!Next) \/ UNCHANGED vars
  BY <1>4 DEF Member, ivars, vars
<1>5. ASSUME NEW p \in Reqs \union Movers, Abort(p)
      PROVE  UNCHANGED <<cards, issues>>
  BY <1>5 DEF Abort
<1>. QED BY <1>1, <1>2, <1>3, <1>4, <1>5, Steps

-----------------------------------------------------------------------------
(* Theorems *)

\* Every reachable state of any board satisfies the inductive invariant.
THEOREM Invariance == Spec => []IInv
BY InitIInv, NextKeepsIInv, PTL DEF Spec

\* Every row and every request in flight keeps its type (issues.go, issue_repository.go).
THEOREM TypeCorrect == Spec => []TypeOK
<1>1. IInv => TypeOK
  BY DEF IInv
<1>. QED BY <1>1, Invariance, PTL

\* No activity or comment is orphaned, and an issue keeps the activity of its
\* creator, whatever comments, updates and deletions race
\* (issue_repository.go:95-107, 204-217, migration 00010:4).
THEOREM HistoryIsKept == Spec => []HistoryKept
<1>1. IInv => HistoryKept
  BY DEF IInv
<1>. QED BY <1>1, Invariance, PTL

\* A worker's update in flight never lands on an issue that has been taken away
\* from the worker (issue_repository.go:110-126).
THEOREM WorkersStayInScope == Spec => WorkersWriteOwn
<1> DEFINE Own == \A r \in Reqs :
                    LET i == req[r].issue IN
                    /\ req[r].pc = "locked" /\ req[r].role = "viewer" /\ req'[r] # req[r]
                    /\ cards'[i] # cards[i] \/ issues'[i] # issues[i]
                    => issues[i].assignee = req[r].actor
<1>1. IInv => Own
  BY DEF IInv, ScopeHolds
<1>2. IInv /\ [Next]_vars => [Own]_vars
  BY <1>1
<1>. QED BY <1>2, Invariance, PTL DEF Spec, WorkersWriteOwn

\* No request in flight brings a deleted issue back
\* (issue_repository.go:112-126, 140-149).
THEOREM DeletionIsFinal == Spec => DeletedStays
<1> DEFINE Stays == \A i \in Issues :
                      cards[i].status = "deleted" => cards'[i].status = "deleted" /\ issues'[i] = Nowhere
<1>1. IInv /\ [Next]_vars => [Stays]_vars
  BY StepKeepsDeleted
<1>. QED BY <1>1, Invariance, PTL DEF Spec, DeletedStays

\* The promise that the code breaks is broken in one way only: where no other
\* update of an issue commits while a worker's is under way, a worker changes the
\* status and nothing else, whatever membership requests and deletions do
\* (issues.go:172-206, issue_repository.go:110-126).
THEOREM WorkersOwnStatus == Spec => ([]~Overtaking => WorkersChangeStatusOnly)
<1> DEFINE Only == \A r \in Reqs :
                     LET i == req[r].issue IN
                     /\ req[r].pc = "locked" /\ req[r].role = "viewer" /\ req'[r] # req[r]
                     => cards'[i].text = cards[i].text /\ issues'[i] = issues[i]
<1>1. Init => CopiesCurrent
  BY IdleTyped DEF Init, CopiesCurrent, Current
<1>2. IInv /\ CopiesCurrent /\ [Next]_vars => Only
  BY StepWritesStatus
<1>. HIDE DEF Only
<1>3. IInv /\ CopiesCurrent /\ [Next]_vars => [Only]_vars
  BY <1>2
<1>4. Spec => ([]~Overtaking => [][Only]_vars)
  BY <1>1, <1>3, StepKeepsCurrent, Invariance, PTL DEF Spec
<1>. QED BY <1>4 DEF WorkersChangeStatusOnly, Only
=============================================================================
