----------------------------- MODULE MCExports -----------------------------
(* The owner uses a page while the issues rest, or a script while they move. *)
EXTENDS ExportPage

CONSTANTS e1, e2

MCInit ==
  /\ Init
  /\ \/ client = "page" /\ changes = MaxChanges /\ visible = {1}
     \/ client = "script" /\ changes = 1

MCSpec == MCInit /\ [][Next]_vars /\ Fairness
=============================================================================
