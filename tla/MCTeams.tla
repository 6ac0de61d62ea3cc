------------------------------ MODULE MCTeams ------------------------------
(* Boards to start from, for TLC. *)
EXTENDS Teams, TLC

CONSTANTS admin, manager, other, worker, t1, t2, i1

Row(role, team) == [role |-> role, active |-> TRUE, team |-> team]

\* An admin, a manager with a team, a worker in it with an issue.
OneTeamUsers ==
  admin :> Row("admin", NoTeam) @@ manager :> Row("manager", NoTeam) @@ worker :> Row("viewer", t1)

OneIssue == i1 :> [team |-> t1, assignee |-> worker]

OneTeam == t1 :> manager

\* A team, and one to be created.
OneTeamOfTwo == t1 :> manager @@ t2 :> NoUser

\* A manager with a team and one without, and a worker about to be created.
TwoManagerUsers ==
  admin :> Row("admin", NoTeam) @@ manager :> Row("manager", NoTeam)
  @@ other :> Row("manager", NoTeam) @@ worker :> NoAccount

NoIssues == <<>>

Symmetry == Permutations(Reqs)
=============================================================================
