----------------------------- MODULE MCSessions -----------------------------
(* Instances of Sessions for TLC. *)
EXTENDS Sessions, TLC

\* Tokens and requests are interchangeable: nothing orders them.
Symmetry == Permutations(Tokens) \union Permutations(Reqs)
=============================================================================
