----------------------------- MODULE HeldRequests -----------------------------
(***************************************************************************)
(* What the fixture's pending I/O promises the file system: it may hold a  *)
(* request back, each one once at a time, until it is told to stop.  Then  *)
(* it holds no further one, and it has ended only when it has given every  *)
(* held request back.                                                      *)
(***************************************************************************)
CONSTANT Requests

VARIABLES
  held,   \* the requests held back
  gate    \* "open", then "closing", then "closed"

heldVars == <<held, gate>>

Init == held = {} /\ gate = "open"

Hold(i) ==
  /\ gate = "open"
  /\ i \notin held
  /\ held' = held \cup {i}
  /\ UNCHANGED gate

GiveBack(i) ==
  /\ i \in held
  /\ held' = held \ {i}
  /\ UNCHANGED gate

Stop ==
  /\ gate = "open"
  /\ gate' = "closing"
  /\ UNCHANGED held

End ==
  /\ gate = "closing"
  /\ held = {}
  /\ gate' = "closed"
  /\ UNCHANGED held

Next == (\E i \in Requests : Hold(i) \/ GiveBack(i)) \/ Stop \/ End

Spec == Init /\ [][Next]_heldVars
===============================================================================
