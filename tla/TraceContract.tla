---------------------------- MODULE TraceContract ----------------------------
(***************************************************************************)
(* What the I/O trace promises its targets, without pointers, counts and   *)
(* polls.  One driver at a time is traced.  A request that began in time   *)
(* is passed to the driver traced then, which is held until the request    *)
(* has ended.  A disarm unhooks the driver and, perhaps not at once, lets  *)
(* it go; nobody else is traced before that.  The image goes only when no  *)
(* driver is hooked or held.                                               *)
(*                                                                         *)
(* IoTrace implements this step by step; DriverController, which takes the *)
(* trace as one step, uses it no other way.                                *)
(***************************************************************************)
CONSTANTS Callers, Targets, None

VARIABLES
  state,    \* "off", "armed" (hooked and held) or "busy" (held)
  held,     \* the driver that is traced, or None
  serving,  \* the driver that each request in time is passed to, or None
  phase     \* "loaded", "unloading" or "gone"

traceContractVars == <<state, held, serving, phase>>

Init ==
  /\ state = "off"
  /\ held = None
  /\ serving = [c \in Callers |-> None]
  /\ phase = "loaded"

Arm(t) ==
  /\ phase = "loaded"
  /\ state = "off"
  /\ state' = "armed"
  /\ held' = t
  /\ UNCHANGED <<serving, phase>>

Unhook ==
  /\ state = "armed"
  /\ state' = "busy"
  /\ UNCHANGED <<held, serving, phase>>

LetGo ==
  /\ state # "off"
  /\ \A c \in Callers : serving[c] = None
  /\ state' = "off"
  /\ held' = None
  /\ UNCHANGED <<serving, phase>>

Begin(c) ==
  /\ state # "off"
  /\ serving[c] = None
  /\ serving' = [serving EXCEPT ![c] = held]
  /\ UNCHANGED <<state, held, phase>>

End(c) ==
  /\ serving' = [serving EXCEPT ![c] = None]
  /\ UNCHANGED <<state, held, phase>>

Unload ==
  /\ phase = "loaded"
  /\ phase' = "unloading"
  /\ UNCHANGED <<state, held, serving>>

Go ==
  /\ phase = "unloading"
  /\ state = "off"
  /\ phase' = "gone"
  /\ UNCHANGED <<state, held, serving>>

Next ==
  \/ \E t \in Targets : Arm(t)
  \/ \E c \in Callers : Begin(c) \/ End(c)
  \/ Unhook \/ LetGo \/ Unload \/ Go

Spec == Init /\ [][Next]_traceContractVars
===============================================================================
