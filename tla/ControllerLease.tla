---------------------------- MODULE ControllerLease ----------------------------
(***************************************************************************)
(* What the driver promises the process that controls it, without locks,   *)
(* cleanup steps and registrations.  One process at a time has the lease,  *)
(* through any number of handles.  While it has a handle, the timeline is  *)
(* started and stopped only by the request being served, and the request   *)
(* that leaves it stopped is over only when no event is still being        *)
(* written.  Without a handle the lease ends, which takes until nothing    *)
(* runs any more, and nobody opens the driver before that.  The driver     *)
(* goes only when nobody has a lease and nothing runs.                     *)
(***************************************************************************)
CONSTANTS Files, Processes, Threads, None

VARIABLES
  owner,    \* the process with the lease, or None
  handles,  \* its open handles
  serving,  \* the handle whose timeline request is at work, or None
  running,  \* the collectors that run
  pushing,  \* the threads that are writing an event
  phase     \* "loaded", "unloading" or "gone"

leaseVars == <<owner, handles, serving, running, pushing, phase>>

Init ==
  /\ owner = None
  /\ handles = {}
  /\ serving = None
  /\ running = {}
  /\ pushing = {}
  /\ phase = "loaded"

Quiet == running = {} /\ pushing = {}

\* A lease that has lost its last handle lets nobody in.
Open(f, p) ==
  /\ phase = "loaded"
  /\ f \notin handles
  /\ \/ owner = None
     \/ owner = p /\ handles # {}
  /\ owner' = p
  /\ handles' = handles \cup {f}
  /\ UNCHANGED <<serving, running, pushing, phase>>

Close(f) ==
  /\ f \in handles
  /\ serving # f
  /\ handles' = handles \ {f}
  /\ UNCHANGED <<owner, serving, running, pushing, phase>>

Serve(f) ==
  /\ f \in handles
  /\ serving = None
  /\ serving' = f
  /\ UNCHANGED <<owner, handles, running, pushing, phase>>

StopTimeline ==
  /\ serving \in handles \/ (owner # None /\ handles = {})
  /\ running' = running \ {"timeline"}
  /\ UNCHANGED <<owner, handles, serving, pushing, phase>>

\* A START that succeeds.
Started ==
  /\ serving \in handles
  /\ running' = running \cup {"timeline"}
  /\ serving' = None
  /\ UNCHANGED <<owner, handles, pushing, phase>>

\* A STOP, or a START that fails, which may have left it running.
Served ==
  /\ serving \in handles
  /\ "timeline" \notin running => pushing = {}
  /\ serving' = None
  /\ UNCHANGED <<owner, handles, running, pushing, phase>>

StartTrace ==
  /\ handles # {}
  /\ running' = running \cup {"trace"}
  /\ UNCHANGED <<owner, handles, serving, pushing, phase>>

StopTrace ==
  /\ owner # None
  /\ running' = running \ {"trace"}
  /\ UNCHANGED <<owner, handles, serving, pushing, phase>>

BeginPush(t) ==
  /\ "timeline" \in running
  /\ pushing' = pushing \cup {t}
  /\ UNCHANGED <<owner, handles, serving, running, phase>>

EndPush(t) ==
  /\ pushing' = pushing \ {t}
  /\ UNCHANGED <<owner, handles, serving, running, phase>>

EndLease ==
  /\ owner # None
  /\ handles = {}
  /\ Quiet
  /\ owner' = None
  /\ UNCHANGED <<handles, serving, running, pushing, phase>>

Unload ==
  /\ phase = "loaded"
  /\ owner = None
  /\ phase' = "unloading"
  /\ UNCHANGED <<owner, handles, serving, running, pushing>>

Go ==
  /\ phase = "unloading"
  /\ Quiet
  /\ phase' = "gone"
  /\ UNCHANGED <<owner, handles, serving, running, pushing>>

Next ==
  \/ \E f \in Files : Close(f) \/ Serve(f) \/ \E p \in Processes : Open(f, p)
  \/ StopTimeline \/ Started \/ Served \/ StartTrace \/ StopTrace
  \/ \E t \in Threads : BeginPush(t) \/ EndPush(t)
  \/ EndLease \/ Unload \/ Go

Spec == Init /\ [][Next]_leaseVars
===============================================================================
