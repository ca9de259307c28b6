---------------------------- MODULE RemoteCommands ----------------------------
(***************************************************************************)
(* What the remote operator server promises about commands, without its    *)
(* threads, connections and queue.  Clients come one after the other, each *)
(* waits for at most one command, and a command is begun at most once, one *)
(* at a time, and only while its client waits.  "Cancelled" is said of     *)
(* commands that never were and never will be begun, "result" of those     *)
(* that ended; a client that goes leaves nothing to be begun later, though *)
(* what has been begun goes on without it.                                 *)
(***************************************************************************)
CONSTANTS Jobs, None

VARIABLES
  phase,    \* "new", "queued", "begun", "done" or "removed"
  client,   \* the command that the present client waits for, or None
  told      \* what each command's client was told

commandVars == <<phase, client, told>>

Init ==
  /\ phase = [j \in Jobs |-> "new"]
  /\ client = None
  /\ told = [j \in Jobs |-> "none"]

Move(j, from, to) ==
  /\ phase[j] = from
  /\ phase' = [phase EXCEPT ![j] = to]

Submit(j) ==
  /\ client = None
  /\ Move(j, "new", "queued")
  /\ client' = j
  /\ UNCHANGED told

Begin(j) ==
  /\ client = j
  /\ \A other \in Jobs : phase[other] # "begun"
  /\ Move(j, "queued", "begun")
  /\ UNCHANGED <<client, told>>

End(j) == Move(j, "begun", "done") /\ UNCHANGED <<client, told>>

Remove(j) ==
  /\ client = j
  /\ Move(j, "queued", "removed")
  /\ UNCHANGED <<client, told>>

Tell(j, answer) ==
  /\ client = j
  /\ \/ answer = "result" /\ phase[j] = "done"
     \/ answer = "cancelled" /\ phase[j] = "removed"
  /\ told' = [told EXCEPT ![j] = answer]
  /\ client' = None
  /\ UNCHANGED phase

\* The client goes, or the server stops: in the same step the command that
\* was not begun is removed.
Abandon(j) ==
  /\ client = j
  /\ client' = None
  /\ phase' = [phase EXCEPT ![j] = IF @ = "queued" THEN "removed" ELSE @]
  /\ UNCHANGED told

Next ==
  \E j \in Jobs :
    \/ Submit(j) \/ Begin(j) \/ End(j) \/ Remove(j) \/ Abandon(j)
    \/ \E answer \in {"result", "cancelled"} : Tell(j, answer)

Spec == Init /\ [][Next]_commandVars
===============================================================================
