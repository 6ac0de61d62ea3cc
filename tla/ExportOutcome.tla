---------------------------- MODULE ExportOutcome ----------------------------
(***************************************************************************)
(* What an export promises to whoever asked for it, with no attempts,      *)
(* pages, workers or retries: it is under way until it ends once, as       *)
(* succeeded, failed or cancelled, and what can be downloaded then is one  *)
(* file that nothing changes any more.                                     *)
(***************************************************************************)

CONSTANTS
  Ops,
  Files,
  NoFile     \* a download is refused

VARIABLES
  outcome,   \* what a status answer says of an export
  download   \* what a download answers

ovars == <<outcome, download>>

OutcomeInit ==
  /\ outcome = [o \in Ops |-> "none"]
  /\ download = [o \in Ops |-> NoFile]

Become(o, e) == outcome' = [outcome EXCEPT ![o] = e]

Ask(o) ==
  /\ outcome[o] = "none"
  /\ Become(o, "working")
  /\ UNCHANGED download

Succeed(o) ==
  /\ outcome[o] = "working"
  /\ Become(o, "succeeded")
  /\ download'[o] \in Files
  /\ \A p \in Ops \ {o} : download'[p] = download[p]

EndWithout(o, e) ==
  /\ outcome[o] = "working"
  /\ Become(o, e)
  /\ UNCHANGED download

OutcomeNext ==
  \E o \in Ops :
    \/ Ask(o) \/ Succeed(o)
    \/ \E e \in {"failed", "cancelled"} : EndWithout(o, e)

OutcomeSpec == OutcomeInit /\ [][OutcomeNext]_ovars
=============================================================================
