---------------------------- MODULE McpOperations ----------------------------
(***************************************************************************)
(* What the MCP server promises about one operation, without its threads,  *)
(* queue or ledger: an operation runs at most once; a client told          *)
(* "cancelled" may retry, for the operation will never run; "unknown" is   *)
(* said only of an operation that is running at that moment or whose tool  *)
(* ended without a known outcome; "result" only of one that has ended.     *)
(***************************************************************************)
CONSTANT Ids

VARIABLES
  phase,   \* how far each operation got
  told     \* what its client was told

vars == <<phase, told>>

Phases == {"new", "queued", "running", "ended", "dropped"}

TypeOK ==
  /\ phase \in [Ids -> Phases]
  /\ told \in [Ids -> {"none", "cancelled", "unknown", "result"}]

Init ==
  /\ phase = [id \in Ids |-> "new"]
  /\ told = [id \in Ids |-> "none"]

Move(id, from, to) ==
  /\ phase[id] = from
  /\ phase' = [phase EXCEPT ![id] = to]

Admit(id)    == Move(id, "new", "queued") /\ UNCHANGED told
Dispatch(id) == Move(id, "queued", "running") /\ UNCHANGED told
End(id)      == Move(id, "running", "ended") /\ UNCHANGED told

(* The client's only answer, given in one step with the removal.           *)
Drop(id) ==
  /\ Move(id, "queued", "dropped")
  /\ told[id] = "none"
  /\ told' = [told EXCEPT ![id] = "cancelled"]

Tell(id, answer) ==
  /\ told[id] = "none"
  /\ \/ answer = "unknown" /\ phase[id] \in {"running", "ended"}
     \/ answer = "result" /\ phase[id] = "ended"
  /\ told' = [told EXCEPT ![id] = answer]
  /\ UNCHANGED phase

Next ==
  \E id \in Ids :
    \/ Admit(id) \/ Dispatch(id) \/ End(id) \/ Drop(id)
    \/ \E answer \in {"unknown", "result"} : Tell(id, answer)

Spec == Init /\ [][Next]_vars
=============================================================================
