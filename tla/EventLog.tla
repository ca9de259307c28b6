------------------------------- MODULE EventLog -------------------------------
(***************************************************************************)
(* What the driver's timeline promises the debugger: a bounded first-in    *)
(* first-out log of numbered events.  An event is either thread noise      *)
(* (thread create and exit) or not.  A full log gives up its oldest event  *)
(* for a new one; thread noise is refused while the log is three quarters  *)
(* full, so it never costs an older event its place.  Whatever is given up *)
(* or refused is counted in lost.                                          *)
(***************************************************************************)
EXTENDS Naturals, Sequences

CONSTANT Bounds        \* the bounds a log can have; 0 is "no log yet"

VARIABLES
  log,    \* the events kept, oldest first
  bound,  \* how many it keeps at most
  lost,   \* events given up or refused since the log was cleared
  next,   \* the number of the next event
  reply   \* what the last read returned

logVars == <<log, bound, lost, next, reply>>

Init ==
  /\ log = <<>>
  /\ bound = 0
  /\ lost = 0
  /\ next = 1
  /\ reply = <<>>

Event(noise) == [noise |-> noise, sequence |-> next]

Keep(noise) ==
  /\ Len(log) < bound
  /\ log' = Append(log, Event(noise))
  /\ next' = next + 1
  /\ UNCHANGED <<bound, lost, reply>>

\* Only an event that is not noise replaces an older one.
Replace ==
  /\ bound > 0
  /\ Len(log) = bound
  /\ log' = Append(Tail(log), Event(FALSE))
  /\ next' = next + 1
  /\ lost' = lost + 1
  /\ UNCHANGED <<bound, reply>>

RefuseNoise ==
  /\ bound > 0
  /\ Len(log) * 4 >= bound * 3
  /\ lost' = lost + 1
  /\ UNCHANGED <<log, bound, next, reply>>

Restart(b) ==
  /\ log' = <<>>
  /\ bound' = b
  /\ lost' = 0
  /\ next' = 1
  /\ UNCHANGED reply

Read(n) ==
  /\ reply' = SubSeq(log, 1, n)
  /\ log' = SubSeq(log, n + 1, Len(log))
  /\ UNCHANGED <<bound, lost, next>>

Next ==
  \/ \E noise \in BOOLEAN : Keep(noise)
  \/ Replace
  \/ RefuseNoise
  \/ \E b \in Bounds : Restart(b)
  \/ \E n \in 0 .. Len(log) : Read(n)

Spec == Init /\ [][Next]_logVars
===============================================================================
