------------------------------ MODULE MCIssues ------------------------------
(* Boards to start from, for TLC. *)
EXTENDS Issues, TLC

CONSTANTS admin, manager, worker, t1, i1, i2, a, b

Row(role, team) == [role |-> role, active |-> TRUE, team |-> team]

\* A manager with a team, and a worker in it.
TeamUsers == manager :> Row("manager", NoTeam) @@ worker :> Row("viewer", t1)

\* An admin and a worker without a team.
LoneUsers == admin :> Row("admin", NoTeam) @@ worker :> Row("viewer", NoTeam)

OneTeam == t1 :> manager

NoTeams == <<>>

Open(owner) == [status |-> "open", text |-> a, owner |-> owner]

AnOpenCard == i1 :> Open(manager)

AnAdminsCard == i1 :> Open(admin)

OutsideTeam == i1 :> [team |-> NoTeam, assignee |-> worker]

InTeam == i1 :> [team |-> t1, assignee |-> worker]

\* Two ids, one of an open issue and one not drawn yet.
TwoCards == i1 :> Open(admin) @@ i2 :> NoCard

OutsideTeams == i1 :> [team |-> NoTeam, assignee |-> worker] @@ i2 :> Nowhere

Symmetry == Permutations(Reqs)
=============================================================================
