---------------------------- MODULE PausableBodies ----------------------------
(***************************************************************************)
(* What the managed callbacks promise their clients, without locks, plans  *)
(* and rundowns.  Kinds of bodies are on, off or on the way to off; a body *)
(* is entered only while its kind is on, and a kind is off only when no    *)
(* body of it is left.  Nothing is switched while the driver is loaded     *)
(* except for an owner, who is let go only when everything is on again.    *)
(* Once unload has begun nothing is switched on any more, and the driver   *)
(* goes only when everything is off and nobody is inside.                  *)
(***************************************************************************)
CONSTANTS Kinds, Callers, Clients, None

VARIABLES
  phase,    \* "loaded", "unloading" or "gone"
  owner,    \* the client that has switched something, or None
  on,       \* the kinds that are on
  pausing,  \* those on the way to off
  inside    \* the kind of body that each caller is in, or None

pausableVars == <<phase, owner, on, pausing, inside>>

Init ==
  /\ phase = "loaded"
  /\ owner = None
  /\ on = Kinds
  /\ pausing = {}
  /\ inside = [t \in Callers |-> None]

\* Somebody may switch: an owner, or unload.
Entitled == owner # None \/ phase = "unloading"

Own(c) ==
  /\ phase = "loaded"
  /\ owner = None
  /\ owner' = c
  /\ UNCHANGED <<phase, on, pausing, inside>>

Disown ==
  /\ phase = "loaded" => on = Kinds /\ pausing = {}
  /\ owner' = None
  /\ UNCHANGED <<phase, on, pausing, inside>>

Pause(K) ==
  /\ Entitled
  /\ pausing = {}
  /\ pausing' = K
  /\ on' = on \ K
  /\ UNCHANGED <<phase, owner, inside>>

\* The end of a switch: what was to be paused is quiet, and R is on again.
Settle(R) ==
  /\ Entitled
  /\ R # {} => phase = "loaded"
  /\ R \cap (on \cup pausing) = {}
  /\ \A t \in Callers : inside[t] \notin pausing
  /\ pausing' = {}
  /\ on' = on \cup R
  /\ UNCHANGED <<phase, owner, inside>>

Enter(t, k) ==
  /\ phase # "gone"
  /\ inside[t] = None
  /\ k \in on
  /\ inside' = [inside EXCEPT ![t] = k]
  /\ UNCHANGED <<phase, owner, on, pausing>>

Leave(t) ==
  /\ inside' = [inside EXCEPT ![t] = None]
  /\ UNCHANGED <<phase, owner, on, pausing>>

Unload ==
  /\ phase = "loaded"
  /\ phase' = "unloading"
  /\ UNCHANGED <<owner, on, pausing, inside>>

Go ==
  /\ phase = "unloading"
  /\ owner = None
  /\ on = {} /\ pausing = {}
  /\ \A t \in Callers : inside[t] = None
  /\ phase' = "gone"
  /\ UNCHANGED <<owner, on, pausing, inside>>

Next ==
  \/ \E c \in Clients : Own(c)
  \/ \E K \in SUBSET Kinds : Pause(K \cap on) \/ Settle(K)
  \/ \E t \in Callers : Leave(t) \/ \E k \in Kinds : Enter(t, k)
  \/ Disown \/ Unload \/ Go

Spec == Init /\ [][Next]_pausableVars
===============================================================================
