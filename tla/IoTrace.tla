------------------------------- MODULE IoTrace -------------------------------
(***************************************************************************)
(* The driver's I/O trace (driver/Driver.cpp): it takes the place of one   *)
(* target driver's IRP_MJ_DEVICE_CONTROL routine, records each request and *)
(* passes it on.  Arm and disarm run under g_KnDbgIotraceControlLock, one  *)
(* at a time; requests to the targets come from any thread and read the    *)
(* dispatch table and the trace's pointers without a lock.                 *)
(*                                                                         *)
(* A target stands for its DRIVER_OBJECT and for its own dispatch routine. *)
(* g_KnDbgIotraceArmed is written but never read and is left out; so are   *)
(* the records, whose ring works as the one of TimelineRing does.          *)
(***************************************************************************)
EXTENDS Integers, FiniteSets

CONSTANTS Callers,   \* threads that send requests to the targets
          Targets    \* driver objects that can be traced

ASSUME CallersAssumption == IsFiniteSet(Callers)
ASSUME TargetsAssumption == "none" \notin Targets

VARIABLES
  hooked,     \* targets whose dispatch entry is KnDbgIotraceDispatch
  target,     \* g_KnDbgIotraceTarget; the reference on it is held while set
  original,   \* g_KnDbgIotraceOriginalDispatch
  active,     \* g_KnDbgIotraceActive
  control,    \* where the holder of the control lock is; "free" if nobody is
  image,      \* this driver's code: "loaded", "unloading" or "gone"
  pc,         \* where each caller is
  device,     \* the target whose device the caller's request is for
  callee,     \* the routine the trampoline read for the request
  timely      \* history: the caller was counted before disarm's last look

vars        == <<hooked, target, original, active, control, image,
                 pc, device, callee, timely>>
traceVars   == <<hooked, target, original>>
callerVars  == <<pc, device, callee, timely>>

None == "none"

Controls == {"free", "swap", "restore", "drain", "clear", "release"}
Images   == {"loaded", "unloading", "gone"}
Inside   == {"counted", "read", "serving", "refused"}   \* counted in active
InCode   == Inside \cup {"entering", "returning"}       \* in the trampoline
Pcs      == InCode \cup {"idle"}

TypeOK ==
  /\ hooked \subseteq Targets
  /\ target \in Targets \cup {None}
  /\ original \in Targets \cup {None}
  /\ active \in Nat
  /\ control \in Controls
  /\ image \in Images
  /\ pc \in [Callers -> Pcs]
  /\ device \in [Callers -> Targets \cup {None}]
  /\ callee \in [Callers -> Targets \cup {None}]
  /\ timely \in [Callers -> BOOLEAN]

Init ==
  /\ hooked = {}
  /\ target = None
  /\ original = None
  /\ active = 0
  /\ control = "free"
  /\ image = "loaded"
  /\ pc = [c \in Callers |-> "idle"]
  /\ device = [c \in Callers |-> None]
  /\ callee = [c \in Callers |-> None]
  /\ timely = [c \in Callers |-> FALSE]

-------------------------------------------------------------------------------
(* Arm: the two pointers first, then the dispatch entry *)

\* Mutant: nothing refuses a second target.
ArmAgain(t) ==
  /\ control = "free"
  /\ image = "loaded"
  /\ t \notin hooked
  /\ target' = t
  /\ original' = t
  /\ control' = "swap"
  /\ UNCHANGED <<hooked, active, image, callerVars>>

Arm(t) ==
  /\ control = "free"
  /\ image = "loaded"
  /\ target = None
  /\ t \notin hooked
  /\ target' = t
  /\ original' = t
  /\ control' = "swap"
  /\ UNCHANGED <<hooked, active, image, callerVars>>

ArmSwap ==
  /\ control = "swap"
  /\ hooked' = hooked \cup {target}
  /\ control' = "free"
  /\ UNCHANGED <<target, original, active, image, callerVars>>

-------------------------------------------------------------------------------
(* Disarm: by request, by the last close, or by unload *)

BeginDisarm ==
  /\ control = "free"
  /\ image = "loaded"
  /\ target # None
  /\ control' = "restore"
  /\ UNCHANGED <<traceVars, active, image, callerVars>>

\* The I/O manager unloads a driver nobody has open.
BeginUnload ==
  /\ control = "free"
  /\ image = "loaded"
  /\ image' = "unloading"
  /\ control' = IF target = None THEN "free" ELSE "restore"
  /\ UNCHANGED <<traceVars, active, callerVars>>

DisarmRestore ==
  /\ control = "restore"
  /\ hooked' = hooked \ {target}
  /\ control' = "drain"
  /\ UNCHANGED <<target, original, active, image, callerVars>>

\* The last look at g_KnDbgIotraceActive finds nobody.
DisarmIdle ==
  /\ control = "drain"
  /\ active = 0
  /\ control' = "clear"
  /\ UNCHANGED <<traceVars, active, image, callerVars>>

\* Mutant: the target is released though a request is still inside.
DisarmBusyReleases ==
  /\ control = "drain"
  /\ active # 0
  /\ control' = "clear"
  /\ UNCHANGED <<traceVars, active, image, callerVars>>

\* Mutant: unload gives up like a request does.
DisarmBusyGivesUp ==
  /\ control = "drain"
  /\ active # 0
  /\ control' = "free"
  /\ UNCHANGED <<traceVars, active, image, callerVars>>

\* After the last poll somebody is still inside: a request or a close leaves
\* with STATUS_DEVICE_BUSY, unload starts over.
DisarmBusy ==
  /\ control = "drain"
  /\ active # 0
  /\ control' = IF image = "unloading" THEN "restore" ELSE "free"
  /\ UNCHANGED <<traceVars, active, image, callerVars>>

DisarmClear ==
  /\ control = "clear"
  /\ original' = None
  /\ control' = "release"
  /\ UNCHANGED <<hooked, target, active, image, callerVars>>

DisarmRelease ==
  /\ control = "release"
  /\ target' = None
  /\ control' = "free"
  /\ UNCHANGED <<hooked, original, active, image, callerVars>>

\* Unload has no hook left and lets the image go.
Unload ==
  /\ control = "free"
  /\ image = "unloading"
  /\ target = None
  /\ image' = "gone"
  /\ UNCHANGED <<traceVars, active, control, callerVars>>

-------------------------------------------------------------------------------
(* KnDbgIotraceDispatch, one caller *)

\* The I/O manager reads the dispatch entry and jumps to what it read.
Call(c, t) ==
  /\ pc[c] = "idle"
  /\ t \in hooked
  /\ pc' = [pc EXCEPT ![c] = "entering"]
  /\ device' = [device EXCEPT ![c] = t]
  /\ UNCHANGED <<traceVars, active, control, image, callee, timely>>

\* InterlockedIncrement.
Enter(c) ==
  /\ pc[c] = "entering"
  /\ active' = active + 1
  /\ pc' = [pc EXCEPT ![c] = "counted"]
  /\ timely' = [timely EXCEPT ![c] = /\ target = device[c]
                                     /\ control \notin {"clear", "release"}]
  /\ UNCHANGED <<traceVars, control, image, device, callee>>

ReadOriginal(c) ==
  /\ pc[c] = "counted"
  /\ callee' = [callee EXCEPT ![c] = original]
  /\ pc' = [pc EXCEPT ![c] = IF original = None THEN "refused" ELSE "read"]
  /\ UNCHANGED <<traceVars, active, control, image, device, timely>>

\* KnDbgIotracePush, and the call of the original.
Serve(c) ==
  /\ pc[c] = "read"
  /\ pc' = [pc EXCEPT ![c] = "serving"]
  /\ UNCHANGED <<traceVars, active, control, image, device, callee, timely>>

\* The original, or the completion with STATUS_DEVICE_NOT_READY, returns and
\* the count goes down.
Return(c) ==
  /\ pc[c] \in {"serving", "refused"}
  /\ active' = active - 1
  /\ pc' = [pc EXCEPT ![c] = "returning"]
  /\ UNCHANGED <<traceVars, control, image, device, callee, timely>>

Leave(c) ==
  /\ pc[c] = "returning"
  /\ pc' = [pc EXCEPT ![c] = "idle"]
  /\ device' = [device EXCEPT ![c] = None]
  /\ callee' = [callee EXCEPT ![c] = None]
  /\ timely' = [timely EXCEPT ![c] = FALSE]
  /\ UNCHANGED <<traceVars, active, control, image>>

-------------------------------------------------------------------------------

Finish == ArmSwap \/ DisarmRestore \/ DisarmIdle \/ DisarmBusy
          \/ DisarmClear \/ DisarmRelease \/ Unload

Proceed(c) == Enter(c) \/ ReadOriginal(c) \/ Serve(c) \/ Return(c) \/ Leave(c)

Next ==
  \/ Finish
  \/ BeginDisarm
  \/ BeginUnload
  \/ \E t \in Targets : Arm(t)
  \/ \E c \in Callers : Proceed(c) \/ \E t \in Targets : Call(c, t)

Spec == Init /\ [][Next]_vars

\* Threads that can run do, and a traced driver returns from its dispatch
\* routine (it may pend the request: that is a return).
Fairness == WF_vars(Finish) /\ \A c \in Callers : WF_vars(Proceed(c))

FairSpec == Spec /\ Fairness

-------------------------------------------------------------------------------
(* Properties *)

\* Only the target is hooked, and its own routine is the one to go back to:
\* no order of arm, busy disarm, retry and close leaves a driver with an entry
\* into this image that no later disarm or unload would restore.
HooksAreOwned ==
  \A t \in hooked : target = t /\ original = t /\ image # "gone"

\* A request counted before disarm's last look at the count is passed to its
\* own driver, which stays referenced until the request has returned, however
\* often the disarm gives up as busy.
Protected(c) ==
  /\ target = device[c]
  /\ original = device[c]
  /\ pc[c] \in {"read", "serving"} => callee[c] = device[c]
  /\ pc[c] # "refused"

CountedAreProtected ==
  \A c \in Callers : timely[c] /\ pc[c] \in Inside => Protected(c)

\* The trace is off for its users until Arm has set the pointers and again from
\* disarm's last look on.
Off == target = None \/ control \in {"clear", "release"}

\* The trace implements TraceContract: its pointers, its count and its polls
\* hold the target for every request that was counted in time, and pass each of
\* those to that target and no other.
Contract == INSTANCE TraceContract WITH
  state   <- IF Off THEN "off"
             ELSE IF control = "swap" \/ target \in hooked THEN "armed" ELSE "busy",
  held    <- IF Off THEN None ELSE target,
  serving <- [c \in Callers |->
                IF ~ timely[c] \/ pc[c] \notin Inside THEN None
                ELSE IF pc[c] \in {"read", "serving"} THEN callee[c] ELSE device[c]],
  phase   <- image

ImplementsTrace == Contract!Spec

\* The count is the number of requests inside.
CountIsExact == active = Cardinality({c \in Callers : pc[c] \in Inside})

\* Unload is not kept waiting for ever: once it runs, the image goes.
UnloadEnds == image = "unloading" ~> image = "gone"

\* KnDbgIotraceDispatch says that "the call target stays valid even if disarm
\* races this entry": a request the trampoline took is passed to the driver it
\* was sent to, which is still referenced.
CallTargetStaysValid ==
  \A c \in Callers :
    /\ pc[c] # "refused"
    /\ pc[c] \in {"read", "serving"} => callee[c] = device[c] /\ target = device[c]

-------------------------------------------------------------------------------
\* What the control lock's holder has done so far; with the properties above
\* this is inductive.
ControlOk ==
  /\ target = None => original = None
  /\ original = None => target = None \/ control = "release"
  /\ original # None => original = target
  /\ control = "release" => original = None
  /\ control \in {"swap", "restore", "drain", "clear"} => original # None
  /\ control \in {"swap", "drain", "clear", "release"} => hooked = {}
  /\ image = "gone" => control = "free" /\ target = None
  /\ image = "unloading" => control # "swap"
  /\ image = "unloading" /\ control = "free" => target = None

\* Between disarm's last look and its end no counted request was timely.
LookedOk ==
  control \in {"clear", "release"} =>
    \A c \in Callers : pc[c] \in Inside => ~ timely[c]

\* Where a caller is, it has a device.
CallersOk ==
  \A c \in Callers : pc[c] \in InCode => device[c] \in Targets

IInv == /\ TypeOK
        /\ HooksAreOwned
        /\ CountIsExact
        /\ CountedAreProtected
        /\ ControlOk
        /\ LookedOk
        /\ CallersOk
===============================================================================
