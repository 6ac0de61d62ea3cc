---------------------------- MODULE SessionSlot ----------------------------
(***************************************************************************)
(* What the session store promises, with no rows, locks or clocks: every   *)
(* user owns one slot that holds at most one token.  Signing in puts a     *)
(* token never seen before into the slot and closes the one it replaces,   *)
(* a disabled user's slot is empty, and a closed token is never open again *)
(* ("Logging in again immediately revokes the user's previous session",    *)
(* "The token is rejected immediately after logout", README.MD:69,73).     *)
(***************************************************************************)

CONSTANTS Users, Tokens, NoToken

VARIABLES
  slot,      \* slot[u] is the token open for u, or NoToken
  closed,    \* the tokens that were open once
  enabled    \* the users who may have an open token

svars == <<slot, closed, enabled>>

SlotInit ==
  /\ slot = [u \in Users |-> NoToken]
  /\ closed = {}
  /\ enabled \in SUBSET Users

Spent(u) == closed \union ({slot[u]} \ {NoToken})

Open(u, t) ==
  /\ u \in enabled
  /\ t \notin closed
  /\ \A v \in Users : slot[v] # t
  /\ slot' = [slot EXCEPT ![u] = t]
  /\ closed' = Spent(u)
  /\ UNCHANGED enabled

Close(u) ==
  /\ slot[u] # NoToken
  /\ slot' = [slot EXCEPT ![u] = NoToken]
  /\ closed' = Spent(u)
  /\ UNCHANGED enabled

Disable(u) ==
  /\ u \in enabled
  /\ enabled' = enabled \ {u}
  /\ slot' = [slot EXCEPT ![u] = NoToken]
  /\ closed' = Spent(u)

Enable(u) ==
  /\ u \notin enabled
  /\ enabled' = enabled \union {u}
  /\ UNCHANGED <<slot, closed>>

SlotNext ==
  \E u \in Users :
    \/ \E t \in Tokens : Open(u, t)
    \/ Close(u)
    \/ Disable(u)
    \/ Enable(u)

SlotSpec == SlotInit /\ [][SlotNext]_svars
=============================================================================
