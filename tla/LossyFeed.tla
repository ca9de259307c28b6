------------------------------ MODULE LossyFeed ------------------------------
(***************************************************************************)
(* What the kernel monitor makes of a source that numbers its events and   *)
(* may lose them, without rings, pages, queues and threads.  A run of the  *)
(* monitor follows one session of the source after the other, each from    *)
(* its beginning or from where the run began.  It passes events in order:  *)
(* a pass takes the last of them and counts the others as lost.  The only  *)
(* ones that are not counted are those between two sessions and those that *)
(* came before the first event a run that has passed nothing at all can    *)
(* see.  A run ends at the event that was the latest when it was frozen,   *)
(* and what it has not analyzed up to there is what it leaves.             *)
(*                                                                         *)
(* KmonIngest implements this with the collector, the analysis and Stop.   *)
(***************************************************************************)
EXTENDS Naturals, Sequences

VARIABLES
  emitted,   \* the latest event of the source
  session,   \* of the source
  first,     \* the first event of the session
  phase,     \* "off", "on", "frozen" or "ended"
  following, \* the session that the run follows
  passed,    \* the latest event that the run has passed
  taken,     \* the events of the run
  lost,      \* how many it counted as lost
  analyzed,  \* how many of the taken ones it has analyzed
  end,       \* the latest event when it was frozen
  left       \* how many it has left

runVars == <<phase, following, passed, taken, lost, analyzed, end, left>>
feedVars == <<emitted, session, first, runVars>>

Events(a, b) == [k \in 1 .. b - a + 1 |-> a + k - 1]

Init ==
  /\ emitted = 0 /\ session = 0 /\ first = 0
  /\ phase = "off" /\ following = 0 /\ passed = 0 /\ taken = << >>
  /\ lost = 0 /\ analyzed = 0 /\ end = 0 /\ left = 0

Emit ==
  /\ emitted' = emitted + 1
  /\ UNCHANGED <<session, first, runVars>>

BeginSession ==
  /\ session' = session + 1
  /\ first' = emitted + 1
  /\ UNCHANGED <<emitted, runVars>>

\* Nothing from before the run.
Follow ==
  /\ phase \in {"off", "ended"}
  /\ phase' = "on"
  /\ following' = session
  /\ passed' = emitted
  /\ taken' = << >> /\ lost' = 0 /\ analyzed' = 0 /\ left' = 0
  /\ UNCHANGED <<emitted, session, first, end>>

\* Where a pass goes on.
Start == IF following' = following THEN passed ELSE first - 1

Pass(from, to) ==
  LET kept == Len(taken') - Len(taken)
  IN /\ phase \in {"on", "frozen"}
     /\ following' \in {following, session}
     /\ from = Start \/ (Start = 0 /\ kept = to - from)
     /\ to <= emitted /\ (phase = "frozen" => to <= end)
     /\ passed' = to
     /\ 0 <= kept /\ kept <= to - from
     /\ taken' = taken \o Events(to - kept + 1, to)
     /\ lost' = lost + (to - from - kept)
     /\ UNCHANGED <<emitted, session, first, phase, analyzed, end, left>>

Analyze ==
  /\ phase \in {"on", "frozen"}
  /\ analyzed < analyzed' /\ analyzed' <= Len(taken)
  /\ UNCHANGED <<emitted, session, first, phase, following, passed, taken, lost, end, left>>

Freeze ==
  /\ phase = "on"
  /\ phase' = "frozen"
  /\ end' = emitted
  /\ UNCHANGED <<emitted, session, first, following, passed, taken, lost, analyzed, left>>

Finish ==
  /\ phase = "frozen"
  /\ phase' = "ended"
  /\ left' = (Len(taken) - analyzed) + (end - passed)
  /\ UNCHANGED <<emitted, session, first, following, passed, taken, lost, analyzed, end>>

Next ==
  \/ Emit \/ BeginSession \/ Follow \/ Analyze \/ Freeze \/ Finish
  \/ \E from, to \in 0 .. emitted : from <= to /\ Pass(from, to)

Spec == Init /\ [][Next]_feedVars
===============================================================================
