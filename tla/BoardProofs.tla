---------------------------- MODULE BoardProofs ----------------------------
(***************************************************************************)
(* Theorems about the board as a whole: what TeamsProofs shows of the      *)
(* membership requests alone holds beside any number of issue requests,    *)
(* which write the same issues table, wait for the same rows and are       *)
(* aborted together with them; and when it is that assignments outlive the *)
(* membership they depend on.                                              *)
(***************************************************************************)
EXTENDS IssuesProofs

\* The lemmas of TeamsProofs used here are about steps; they ask only that the
\* board to start from be sound, as an empty one is.
Roster == INSTANCE TeamsProofs
            WITH Reqs <- Movers, req <- moves,
                 StartUsers <- [u \in Users |-> Membership!NoAccount],
                 StartTeams <- [t \in Teams |-> NoUser],
                 StartIssues <- [i \in Issues |-> Nowhere]

LEMMA RosterAssumed ==
  Roster!SentinelAssumption /\ Roster!RoleAssumption /\ Roster!StartAssumption
BY IssueAssumption, SMT
DEF Roster!SentinelAssumption, Roster!RoleAssumption, Roster!StartAssumption,
    Roster!Role, Membership!Role, Roster!Account, Membership!NoAccount,
    Roster!Placement, Nowhere

-----------------------------------------------------------------------------
(* The two instances say the same *)

LEMMA RosterIdle == Membership!Idle = Roster!Idle
BY DEF Membership!Idle, Roster!Idle, Membership!Begun, Roster!Begun,
       Membership!NoAccount, Roster!NoAccount

LEMMA RosterTypes == Membership!TypeOK <=> Roster!TypeOK
BY DEF Membership!TypeOK, Roster!TypeOK, Membership!Account, Roster!Account,
       Membership!Placement, Roster!Placement, Membership!Request, Roster!Request,
       Membership!Role, Roster!Role

LEMMA RosterAssignees == Membership!AssigneesBelong <=> Roster!AssigneesBelong
BY DEF Membership!AssigneesBelong, Roster!AssigneesBelong

LEMMA RosterNext == Membership!Next => Roster!Next
BY DEF Membership!Next, Roster!Next, Membership!Authenticate, Roster!Authenticate,
       Membership!ManageTeam, Roster!ManageTeam, Membership!ManageMember, Roster!ManageMember,
       Membership!Write, Roster!Write, Membership!End, Roster!End,
       Membership!CreateTeam, Roster!CreateTeam, Membership!AssignManager, Roster!AssignManager,
       Membership!RequireManaged, Roster!RequireManaged,
       Membership!AddMember, Roster!AddMember, Membership!RemoveMember, Roster!RemoveMember,
       Membership!CreateInTeam, Roster!CreateInTeam,
       Membership!UpdateAccess, Roster!UpdateAccess,
       Membership!CheckManager, Roster!CheckManager, Membership!CommitManager, Roster!CommitManager,
       Membership!LockForMove, Roster!LockForMove, Membership!CommitMove, Roster!CommitMove,
       Membership!LockForSave, Roster!LockForSave, Membership!CheckManaged, Roster!CheckManaged,
       Membership!CommitSave, Roster!CommitSave, Membership!Refuse, Roster!Refuse,
       Membership!Begun, Roster!Begun, Membership!NoAccount, Roster!NoAccount,
       Membership!Idle, Roster!Idle, Membership!Exists, Roster!Exists,
       Membership!ActiveManager, Roster!ActiveManager, Membership!Manages, Roster!Manages,
       Membership!Demotes, Roster!Demotes, Membership!Locked, Roster!Locked,
       Membership!TeamLocked, Roster!TeamLocked, Membership!Handed, Roster!Handed,
       Membership!Moved, Roster!Moved, Membership!Released, Roster!Released,
       Membership!Unassigned, Roster!Unassigned, Membership!ParseRole, Roster!ParseRole,
       Membership!Patched, Roster!Patched

-----------------------------------------------------------------------------
(* Every step of the board is a membership step, or leaves membership alone *)

\* A membership request that is aborted gives up as if its client had gone.
LEMMA AbortEnds ==
  ASSUME NEW p \in Reqs \union Movers, Abort(p)
  PROVE  \/ Roster!Next
         \/ UNCHANGED <<users, teams, moves>>
<1>1. CASE p \in Reqs
  BY <1>1 DEF Abort
<1>2. CASE p \notin Reqs
  <2>1. \E y : WaitsFor(p, y)
    BY DEF Abort, Deadlocked
  <2>2. moves[p].pc # "idle"
    BY <1>2, <2>1 DEF WaitsFor, Moving
  <2>3. p \in Movers /\ moves' = [moves EXCEPT ![p] = Roster!Idle] /\ UNCHANGED <<users, teams, issues>>
    BY <1>2, RosterIdle DEF Abort
  <2>4. Roster!End(p)
    BY <2>2, <2>3 DEF Roster!End, Roster!Released
  <2>. QED BY <2>3, <2>4 DEF Roster!Next
<1>. QED BY <1>1, <1>2

\* The step of an issue request.
IssueStep ==
  \E r \in Reqs : Reads(r) \/ CommitUpdate(r) \/ CommitDelete(r) \/ \E i \in Issues : CommitCreate(r, i)

LEMMA BoardSteps ==
  ASSUME IInv, [Next]_vars
  PROVE  \/ Roster!Next
         \/ UNCHANGED <<users, teams, moves>> /\ (IssueStep \/ UNCHANGED issues)
<1>1. ASSUME NEW r \in Reqs, Reads(r)
      PROVE  UNCHANGED <<users, teams, moves>>
  BY <1>1, ReadStep
<1>2. IssueStep => UNCHANGED <<users, teams, moves>>
  BY <1>1 DEF IssueStep, CommitUpdate, CommitDelete, CommitCreate
<1>3. ASSUME NEW p \in Reqs \union Movers, Abort(p)
      PROVE  issues' = issues
  BY <1>3 DEF Abort
<1>. QED BY <1>2, <1>3, Steps, AbortEnds, RosterNext DEF IssueStep, Member, vars

\* Membership's invariant does not look at issues but for their type.
LEMMA MembersUndisturbed ==
  ASSUME Roster!MemberInv, Roster!TypeOK', UNCHANGED <<users, teams, moves>>
  PROVE  Roster!MemberInv'
BY DEF Roster!MemberInv, Roster!RequestsWellFormed, Roster!WellFormed, Roster!Exclusive,
       Roster!ChecksHold, Roster!CheckHolds, Roster!Manages, Roster!Demotes,
       Roster!MembersAreViewers

-----------------------------------------------------------------------------
(* The invariant of the whole board *)

BoardInv == IInv /\ Roster!MemberInv

LEMMA InitBoardInv == Init => BoardInv
<1> SUFFICES ASSUME Init PROVE Roster!MemberInv
  BY InitIInv DEF BoardInv
<1>1. Roster!TypeOK
  BY InitIInv, RosterTypes DEF IInv, TypeOK
<1>2. \A m \in Movers : moves[m] = Roster!Idle
  BY RosterIdle DEF Init, Membership!Init
<1>3. Roster!Idle.pc = "idle" /\ Roster!Idle.op = "none"
  BY DEF Roster!Idle, Roster!Begun
<1>4. Roster!RequestsWellFormed /\ Roster!Exclusive /\ Roster!ChecksHold
  BY <1>2, <1>3
  DEF Roster!RequestsWellFormed, Roster!WellFormed, Roster!Exclusive, Roster!ChecksHold,
      Roster!CheckHolds
<1>5. Roster!MembersAreViewers
  BY MemberAssumption DEF Init, Membership!Init, Roster!MembersAreViewers
<1>. QED BY <1>1, <1>4, <1>5 DEF Roster!MemberInv

LEMMA NextKeepsBoardInv == BoardInv /\ [Next]_vars => BoardInv'
<1> SUFFICES ASSUME BoardInv, [Next]_vars PROVE Roster!MemberInv'
  BY NextKeepsIInv DEF BoardInv
<1>1. Roster!TypeOK'
  <2>1. Membership!TypeOK'
    BY NextKeepsIInv DEF BoardInv, IInv, TypeOK
  <2>. QED BY <2>1, RosterTypes, PTL
<1>2. CASE Roster!Next
  BY <1>2, RosterAssumed, Roster!NextKeeps DEF BoardInv, Roster!Keeps
<1>3. CASE UNCHANGED <<users, teams, moves>>
  BY <1>1, <1>3, MembersUndisturbed DEF BoardInv
<1>. QED BY <1>2, <1>3, BoardSteps DEF BoardInv

\* A membership request, or none, takes the step as far as accounts are concerned.
LEMMA RosterStep ==
  ASSUME BoardInv, [Next]_vars
  PROVE  Roster!Next \/ UNCHANGED <<users, teams, moves>>
BY BoardSteps DEF BoardInv

-----------------------------------------------------------------------------
(* Theorems about members *)

\* No race of membership, role changes and issue requests leaves a manager or
\* admin in a team (user_repository.go:178-198, auth.go:87-96).
THEOREM OnlyViewersBelong == Spec => []Membership!MembersAreViewers
<1>1. BoardInv => Membership!MembersAreViewers
  BY DEF BoardInv, Roster!MemberInv, Roster!MembersAreViewers, Membership!MembersAreViewers
<1>. QED BY <1>1, InitBoardInv, NextKeepsBoardInv, PTL DEF Spec

\* Beside issue requests too, and when deadlocks are broken, a committed demotion
\* never meets a committed team (migration 00013:50-64).
THEOREM ManagersAreKept == Spec => Membership!ManagersStay
<1> DEFINE Stay == \A u \in Users :
                     Membership!ActiveManager(u) /\ ~Membership!ActiveManager(u)'
                     => ~Membership!Manages(u)
<1>1. BoardInv /\ [Next]_vars => Stay
  <2> SUFFICES ASSUME BoardInv, [Next]_vars, NEW u \in Users,
                      Roster!ActiveManager(u), ~Roster!ActiveManager(u)'
               PROVE  ~Roster!Manages(u)
    BY DEF Membership!ActiveManager, Roster!ActiveManager, Membership!Manages, Roster!Manages
  <2>1. CASE Roster!Next
    BY <2>1, RosterAssumed, Roster!StepKeepsManagers DEF BoardInv
  <2>2. CASE UNCHANGED <<users, teams, moves>>
    BY <2>2 DEF Roster!ActiveManager
  <2>. QED BY <2>1, <2>2, RosterStep
<1>. HIDE DEF Stay
<1>2. BoardInv /\ [Next]_vars => [Stay]_(Membership!vars)
  BY <1>1
<1>3. Spec => [][Stay]_(Membership!vars)
  BY <1>2, InitBoardInv, NextKeepsBoardInv, PTL DEF Spec
<1>. QED BY <1>3 DEF Stay, Membership!ManagersStay

\* No request but an admin's takes a member straight from one team to another,
\* beside issue requests too (teams.go:161-163, user_repository.go:187-189).
THEOREM TransfersAreAdmins == Spec => Membership!OnlyAdminsTransfer
<1> DEFINE Admins == \A u \in Users :
                       users[u].team # NoTeam /\ users'[u].team \notin {NoTeam, users[u].team}
                       => \E r \in Movers :
                            moves[r].role = "admin" /\ moves[r].user = u /\ moves'[r] # moves[r]
<1>1. Init => Roster!AllAuthorized
  <2> SUFFICES ASSUME Init PROVE \A m \in Movers : moves[m] = Roster!Idle
    BY RosterAssumed, Roster!IdleAuthorized DEF Roster!AllAuthorized
  <2>. QED BY RosterIdle DEF Init, Membership!Init
<1>2. BoardInv /\ Roster!AllAuthorized /\ [Next]_vars => Roster!AllAuthorized' /\ Admins
  <2> SUFFICES ASSUME BoardInv, Roster!AllAuthorized, [Next]_vars
               PROVE  Roster!AllAuthorized' /\ Admins
    OBVIOUS
  <2>1. CASE Roster!Next
    BY <2>1, RosterAssumed, Roster!NextKeepsAuthorized, Roster!StepTransfers DEF BoardInv
  <2>2. CASE UNCHANGED <<users, teams, moves>>
    BY <2>2 DEF Roster!AllAuthorized, Roster!Authorized
  <2>. QED BY <2>1, <2>2, RosterStep
<1>. HIDE DEF Admins
<1>3. BoardInv /\ Roster!AllAuthorized /\ [Next]_vars => [Admins]_(Membership!vars)
  BY <1>2
<1>4. BoardInv /\ Roster!AllAuthorized /\ [Next]_vars => Roster!AllAuthorized'
  BY <1>2
<1>5. Spec => [][Admins]_(Membership!vars)
  BY <1>1, <1>3, <1>4, InitBoardInv, NextKeepsBoardInv, PTL DEF Spec
<1>6. [][Admins]_(Membership!vars) <=> Membership!OnlyAdminsTransfer
  BY DEF Admins, Membership!OnlyAdminsTransfer
<1>. QED BY <1>5, <1>6

-----------------------------------------------------------------------------
(* Assignments and the membership they depend on *)

\* A create or update that has read or checked its assignee holds a member of
\* the issue's team.
Belongs(q) ==
  /\ q.op \in {"create", "update"} /\ q.pc \in {"found", "ready", "locked"}
  /\ q.place.team # NoTeam /\ q.place.assignee # NoUser
  => users[q.place.assignee].team = q.place.team

PlacesBelong == \A r \in Reqs : Belongs(req[r])

\* A copy belongs when it is read, and when its assignee has been checked.
LEMMA ReadsBelong ==
  ASSUME IInv, RemovedWorkersUnassigned, PlacesBelong, NEW r \in Reqs, Reads(r)
  PROVE  RemovedWorkersUnassigned' /\ PlacesBelong'
<1>1. /\ UNCHANGED <<users, teams, issues, moves, cards>>
      /\ \A s \in Reqs \ {r} : req'[s] = req[s]
  BY ReadStep
<1>2. \A i \in Issues :
        issues[i].team # NoTeam /\ issues[i].assignee # NoUser
        => users[issues[i].assignee].team = issues[i].team
  BY DEF RemovedWorkersUnassigned, Membership!AssigneesBelong
<1>3. Belongs(req[r])
  BY DEF PlacesBelong
<1>4. Belongs(req'[r])
  <2>1. CASE Found(req'[r])
    BY <1>2, <2>1 DEF Belongs, Found
  <2>2. CASE Applied(req[r], req'[r])
    BY <1>3, <2>2 DEF Belongs, Applied, Same
  <2>3. CASE Passed(req[r], req'[r])
    BY <1>3, <2>3 DEF Belongs, Passed, Same
  <2>. QED BY <2>1, <2>2, <2>3, ReadStep DEF Belongs
<1>5. RemovedWorkersUnassigned'
  BY <1>1, <1>2 DEF RemovedWorkersUnassigned, Membership!AssigneesBelong
<1>6. PlacesBelong'
  BY <1>1, <1>4 DEF PlacesBelong, Belongs
<1>. QED BY <1>5, <1>6

\* A commit writes a placement that belongs, or none, and ends its request.
LEMMA CommitsBelong ==
  ASSUME IInv, RemovedWorkersUnassigned, PlacesBelong, NEW r \in Reqs,
         CommitUpdate(r) \/ CommitDelete(r) \/ \E i \in Issues : CommitCreate(r, i)
  PROVE  RemovedWorkersUnassigned' /\ PlacesBelong'
<1>0. /\ issues \in [Issues -> Membership!Placement] /\ req \in [Reqs -> Request]
      /\ WellFormed(req[r]) /\ Belongs(req[r])
  BY KeptInIInv DEF IInv, TypeOK, Membership!TypeOK, PlacesBelong
<1>1. users' = users /\ req' = Released(r)
  BY DEF CommitUpdate, CommitDelete, CommitCreate
<1>2. \A s \in Reqs : req'[s] = IF s = r THEN Idle ELSE req[s]
  BY <1>0, <1>1 DEF Released
<1>3. PICK i \in Issues : issues' = [issues EXCEPT ![i] = Nowhere]
                          \/ (issues' = [issues EXCEPT ![i] = req[r].place]
                              /\ (CommitUpdate(r) \/ CommitCreate(r, i)))
  BY <1>0 DEF CommitUpdate, CommitDelete, CommitCreate, WellFormed
<1>4. RemovedWorkersUnassigned'
  <2>1. \A j \in Issues \ {i} : issues'[j] = issues[j]
    BY <1>0, <1>3
  <2>2. issues'[i].team # NoTeam /\ issues'[i].assignee # NoUser
        => users[issues'[i].assignee].team = issues'[i].team
    <3>1. CASE issues' = [issues EXCEPT ![i] = Nowhere]
      BY <1>0, <3>1 DEF Nowhere
    <3>2. CASE CommitUpdate(r) \/ CommitCreate(r, i)
      <4>1. req[r].op \in {"create", "update"} /\ req[r].pc \in {"ready", "locked"}
        BY <1>0, <3>2 DEF CommitUpdate, CommitCreate, WellFormed
      <4>. QED BY <1>0, <1>3, <4>1 DEF Belongs, Nowhere
    <3>. QED BY <1>3, <3>1, <3>2
  <2>. QED BY <1>1, <2>1, <2>2 DEF RemovedWorkersUnassigned, Membership!AssigneesBelong
<1>5. PlacesBelong'
  BY <1>1, <1>2, IdleTyped DEF PlacesBelong, Belongs
<1>. QED BY <1>4, <1>5

\* Whoever leaves a team by a membership step is in no copy, unless that crosses.
LEMMA MembersBelong ==
  ASSUME BoardInv, RemovedWorkersUnassigned, PlacesBelong, ~Crossing, Roster!Next, req' = req
  PROVE  RemovedWorkersUnassigned' /\ PlacesBelong'
<1>1. RemovedWorkersUnassigned'
  BY RosterAssumed, Roster!NextKeeps
  DEF BoardInv, Roster!Keeps, RemovedWorkersUnassigned, Membership!AssigneesBelong,
      Roster!AssigneesBelong
<1> SUFFICES ASSUME NEW r \in Reqs,
                    req[r].op \in {"create", "update"}, req[r].pc \in {"found", "ready", "locked"},
                    req[r].place.team # NoTeam, req[r].place.assignee # NoUser,
                    users'[req[r].place.assignee].team # req[r].place.team
             PROVE  FALSE
  BY <1>1 DEF PlacesBelong, Belongs
<1> DEFINE u == req[r].place.assignee
<1>2. u \in Users /\ users[u].team = req[r].place.team
  BY DEF BoardInv, IInv, TypeOK, Request, Membership!Placement, PlacesBelong, Belongs
<1>3. PICK m \in Movers :
        /\ moves[m].user = u
        /\ \/ moves[m].pc = "locked" /\ moves[m].op = "move" /\ users'[u].team = moves[m].team
           \/ moves[m].pc = "saved" /\ moves[m].op = "save" /\ users'[u].team = moves[m].row.team
  BY <1>2, RosterAssumed, Roster!StepLeaves DEF BoardInv
<1>4. Moving(m) /\ Destination(m) = users'[u].team
  BY <1>3 DEF Moving, Destination
<1>. QED BY <1>2, <1>3, <1>4 DEF Crossing

LEMMA StepKeepsPlaces ==
  BoardInv /\ RemovedWorkersUnassigned /\ PlacesBelong /\ ~Crossing /\ [Next]_vars
  => RemovedWorkersUnassigned' /\ PlacesBelong'
<1> SUFFICES ASSUME BoardInv, RemovedWorkersUnassigned, PlacesBelong, ~Crossing, [Next]_vars
             PROVE  RemovedWorkersUnassigned' /\ PlacesBelong'
  OBVIOUS
<1>1. ASSUME NEW p \in Reqs \union Movers, Abort(p)
      PROVE  RemovedWorkersUnassigned' /\ PlacesBelong'
  <2>1. UNCHANGED <<users, issues>>
        /\ \A r \in Reqs : req'[r] = req[r] \/ req'[r].op = "none"
    BY <1>1, IdleTyped DEF Abort, Released, BoardInv, IInv, TypeOK
  <2>. QED BY <2>1 DEF PlacesBelong, Belongs, RemovedWorkersUnassigned, Membership!AssigneesBelong
<1>2. CASE Member(Membership!Next)
  BY <1>2, RosterNext, MembersBelong DEF Member, ivars
<1>3. CASE UNCHANGED vars
  BY <1>3 DEF vars, PlacesBelong, Belongs, RemovedWorkersUnassigned, Membership!AssigneesBelong
<1>. QED BY <1>1, <1>2, <1>3, Steps, ReadsBelong, CommitsBelong DEF BoardInv

\* The promise that the code breaks is broken in one way only: where no member
\* leaves a team while a create or update in flight, which has read or checked
\* the assignment, gives them an issue of it, every assignment follows the
\* membership (issues.go:311-345, user_repository.go:151-157, 190-196).
THEOREM WorkersAreUnassigned ==
  Spec /\ RemovedWorkersUnassigned => UnassignedUnlessCrossing
<1>1. Init => PlacesBelong
  BY IdleTyped DEF Init, PlacesBelong, Belongs
<1>. QED BY <1>1, InitBoardInv, NextKeepsBoardInv, StepKeepsPlaces, PTL
         DEF Spec, UnassignedUnlessCrossing
=============================================================================
