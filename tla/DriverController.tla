--------------------------- MODULE DriverController ---------------------------
(***************************************************************************)
(* Who may use the driver (driver/Driver.cpp): the one controlling process *)
(* and its handles, and the two collectors it may start, which must stop   *)
(* when its last handle closes.                                            *)
(*                                                                         *)
(* The owner lock makes Open, Release and Finish atomic.  Starting and     *)
(* stopping the timeline are sequences of kernel calls under               *)
(* g_KnDbgTimelineControlLock, whose holder is a file with a request in    *)
(* progress, a file being closed, or unload; the notify routines run on    *)
(* any thread.  The I/O trace is one step here (IoTrace has its steps): it *)
(* is off, armed, or busy after a disarm that gave up with the entry       *)
(* already restored.                                                       *)
(*                                                                         *)
(* The I/O manager closes a file only when no request on it is left, and   *)
(* unloads only a driver without open files.  The kernel removes a notify  *)
(* routine only when no thread is in it.                                   *)
(***************************************************************************)
EXTENDS Integers, FiniteSets

CONSTANTS Files,      \* file objects (handles) on the device
          Processes,  \* processes that open it
          Threads     \* threads in which the kernel calls notify routines

ASSUME FilesAssumption ==
  /\ IsFiniteSet(Files)
  /\ {"none", "unload"} \cap Files = {}
ASSUME ProcessesAssumption == "none" \notin Processes

VARIABLES
  file,        \* "closed" or "open"; after the last release also "cleaning"
               \* (the trace), "stopping" (the timeline) and "finishing"
  fileOwner,   \* OwnerPid of the file's context
  writable,    \* WriteEnabled of the file's context
  ownerPid,    \* g_KnDbgOwnerPid
  openCount,   \* g_KnDbgOwnerOpenCount
  closing,     \* g_KnDbgOwnerClosing
  trace,       \* the I/O trace: "off", "armed" or "busy"
  enabled,     \* g_KnDbgTimelineEnabled
  registered,  \* the notify routines that are registered
  ring,        \* the timeline's ring: "none", "live" or "freed"
  step,        \* the next step of the control lock's holder; "free" if none
  holder,      \* who holds the control lock
  notify,      \* where each thread is in a notify routine
  family,      \* which routine it is in
  image        \* this driver: "loaded", "unloading", "freeing" or "gone"

ownerVars    == <<file, fileOwner, writable, ownerPid, openCount, closing>>
timelineVars == <<enabled, registered, ring, step, holder>>
notifyVars   == <<notify, family>>
vars == <<ownerVars, trace, timelineVars, notifyVars, image>>

None     == "none"
Families == {"process", "image", "thread"}
Steps    == {"free", "ring", "register", "enable", "disable", "remove"}
Images   == {"loaded", "unloading", "freeing", "gone"}

Cleanups  == {"cleaning", "stopping", "finishing"}
OpenFiles == {f \in Files : file[f] = "open"}

TypeOK ==
  /\ file \in [Files -> {"closed", "open"} \cup Cleanups]
  /\ fileOwner \in [Files -> Processes \cup {None}]
  /\ writable \in [Files -> BOOLEAN]
  /\ ownerPid \in Processes \cup {None}
  /\ openCount \in Nat
  /\ closing \in BOOLEAN
  /\ trace \in {"off", "armed", "busy"}
  /\ enabled \in BOOLEAN
  /\ registered \subseteq Families
  /\ ring \in {"none", "live", "freed"}
  /\ step \in Steps
  /\ holder \in Files \cup {"none", "unload"}
  /\ notify \in [Threads -> {"idle", "entered", "pushing"}]
  /\ family \in [Threads -> Families \cup {None}]
  /\ image \in Images

Init ==
  /\ file = [f \in Files |-> "closed"]
  /\ fileOwner = [f \in Files |-> None]
  /\ writable = [f \in Files |-> FALSE]
  /\ ownerPid = None
  /\ openCount = 0
  /\ closing = FALSE
  /\ trace = "off"
  /\ enabled = FALSE
  /\ registered = {}
  /\ ring = "none"
  /\ step = "free"
  /\ holder = None
  /\ notify = [t \in Threads |-> "idle"]
  /\ family = [t \in Threads |-> None]
  /\ image = "loaded"

-------------------------------------------------------------------------------
(* Files and their owner *)

\* Mutant: the owner's cleanup does not keep new opens out.
OpenWhileClosing(f, p) ==
  /\ image = "loaded"
  /\ file[f] = "closed"
  /\ ownerPid \in {None, p} \/ closing
  /\ ownerPid' = p
  /\ openCount' = openCount + 1
  /\ file' = [file EXCEPT ![f] = "open"]
  /\ fileOwner' = [fileOwner EXCEPT ![f] = p]
  /\ writable' = [writable EXCEPT ![f] = FALSE]
  /\ UNCHANGED <<closing, trace, timelineVars, notifyVars, image>>

\* IRP_MJ_CREATE.  A refused open, or one without memory, changes nothing.
Open(f, p) ==
  /\ image = "loaded"
  /\ file[f] = "closed"
  /\ ~ closing
  /\ ownerPid \in {None, p}
  /\ ownerPid' = p
  /\ openCount' = openCount + 1
  /\ file' = [file EXCEPT ![f] = "open"]
  /\ fileOwner' = [fileOwner EXCEPT ![f] = p]
  /\ writable' = [writable EXCEPT ![f] = FALSE]
  /\ UNCHANGED <<closing, trace, timelineVars, notifyVars, image>>

\* KnDbgHandleWriteMode, with the acknowledgement it asks for.
WriteMode(f, enable) ==
  /\ file[f] = "open"
  /\ writable' = [writable EXCEPT ![f] = enable]
  /\ UNCHANGED <<file, fileOwner, ownerPid, openCount, closing, trace,
                 timelineVars, notifyVars, image>>

\* The owner's open count after f is released: a file that opened for
\* another owner does not count.
CountAfter(f) ==
  IF ownerPid = fileOwner[f] /\ openCount > 0 THEN openCount - 1 ELSE openCount

Last(f) == ownerPid = fileOwner[f] /\ CountAfter(f) = 0

\* IRP_MJ_CLOSE up to the release of the owner lock.
Release(f) ==
  /\ file[f] = "open"
  /\ holder # f
  /\ openCount' = CountAfter(f)
  /\ closing' = (closing \/ Last(f))
  /\ file' = [file EXCEPT ![f] = IF Last(f) THEN "cleaning" ELSE "closed"]
  /\ fileOwner' = [fileOwner EXCEPT ![f] = None]
  /\ writable' = [writable EXCEPT ![f] = FALSE]
  /\ UNCHANGED <<ownerPid, trace, timelineVars, notifyVars, image>>

\* What a disarm can leave: nothing, or a target that was still busy.
Disarmed == IF trace = "off" THEN {"off"} ELSE {"off", "busy"}

\* Mutant: the last close forgets the trace.
CloseKeepsTrace(f) ==
  /\ file[f] = "cleaning"
  /\ file' = [file EXCEPT ![f] = "stopping"]
  /\ UNCHANGED <<fileOwner, writable, ownerPid, openCount, closing, trace,
                 timelineVars, notifyVars, image>>

\* The last close disarms the trace; a busy disarm is not tried again.
CloseDisarms(f) ==
  /\ file[f] = "cleaning"
  /\ trace' \in Disarmed
  /\ file' = [file EXCEPT ![f] = "stopping"]
  /\ UNCHANGED <<fileOwner, writable, ownerPid, openCount, closing,
                 timelineVars, notifyVars, image>>

\* It waits for the timeline's lock and stops the timeline.
CloseStops(f) ==
  /\ file[f] = "stopping"
  /\ step = "free"
  /\ holder' = f
  /\ step' = "disable"
  /\ UNCHANGED <<ownerVars, trace, enabled, registered, ring, notifyVars, image>>

\* Then it lets the next owner in.
CloseFinishes(f) ==
  /\ file[f] = "finishing"
  /\ file' = [file EXCEPT ![f] = "closed"]
  /\ ownerPid' = None
  /\ closing' = FALSE
  /\ UNCHANGED <<fileOwner, writable, openCount, trace, timelineVars,
                 notifyVars, image>>

\* The I/O trace's handlers: requests need an armed write gate.
ArmTrace(f) ==
  /\ file[f] = "open"
  /\ writable[f]
  /\ trace = "off"
  /\ trace' = "armed"
  /\ UNCHANGED <<ownerVars, timelineVars, notifyVars, image>>

DisarmTrace(f) ==
  /\ file[f] = "open"
  /\ writable[f]
  /\ trace' \in Disarmed
  /\ UNCHANGED <<ownerVars, timelineVars, notifyVars, image>>

-------------------------------------------------------------------------------
(* The timeline, under its control lock *)

\* A START or STOP request gets the lock.
BeginStart(f) ==
  /\ file[f] = "open"
  /\ writable[f]
  /\ step = "free"
  /\ holder' = f
  /\ step' = "ring"
  /\ UNCHANGED <<ownerVars, trace, enabled, registered, ring, notifyVars, image>>

BeginStop(f) ==
  /\ file[f] = "open"
  /\ writable[f]
  /\ step = "free"
  /\ holder' = f
  /\ step' = "disable"
  /\ UNCHANGED <<ownerVars, trace, enabled, registered, ring, notifyVars, image>>

\* A new, empty ring, or the old one cleared.  Routines are never registered
\* in part here (TimelineOk), so the code's clean-up of that case does not occur.
EnsureRing ==
  /\ step = "ring"
  /\ ring' = "live"
  /\ step' = IF registered = Families THEN "enable" ELSE "register"
  /\ UNCHANGED <<ownerVars, trace, enabled, registered, holder, notifyVars, image>>

\* Without memory the request fails and leaves everything as it was.
EnsureRingFails ==
  /\ step = "ring"
  /\ step' = "free"
  /\ holder' = None
  /\ UNCHANGED <<ownerVars, trace, enabled, registered, ring, notifyVars, image>>

\* Process, then image, then thread routines.
NextToRegister ==
  IF "process" \notin registered THEN "process"
  ELSE IF "image" \notin registered THEN "image" ELSE "thread"

Register ==
  /\ step = "register"
  /\ registered' = registered \cup {NextToRegister}
  /\ step' = IF NextToRegister = "thread" THEN "enable" ELSE "register"
  /\ UNCHANGED <<ownerVars, trace, enabled, ring, holder, notifyVars, image>>

\* Mutant: a failed registration leaves the earlier ones in place.
RegisterFailsHalfway ==
  /\ step = "register"
  /\ step' = "free"
  /\ holder' = None
  /\ UNCHANGED <<ownerVars, trace, enabled, registered, ring, notifyVars, image>>

\* A registration fails: the earlier ones, if any, are undone.
RegisterFails ==
  /\ step = "register"
  /\ step' = IF registered = {} THEN "free" ELSE "disable"
  /\ holder' = IF registered = {} THEN None ELSE holder
  /\ UNCHANGED <<ownerVars, trace, enabled, registered, ring, notifyVars, image>>

Enable ==
  /\ step = "enable"
  /\ enabled' = TRUE
  /\ step' = "free"
  /\ holder' = None
  /\ UNCHANGED <<ownerVars, trace, registered, ring, notifyVars, image>>

\* KnDbgTimelineUnregisterCallbacks: first the flag, then each routine.
Disable ==
  /\ step = "disable"
  /\ enabled' = FALSE
  /\ step' = "remove"
  /\ UNCHANGED <<ownerVars, trace, registered, ring, holder, notifyVars, image>>

\* Thread, then process, then image routines.
NextToRemove ==
  IF "thread" \in registered THEN "thread"
  ELSE IF "process" \in registered THEN "process" ELSE "image"

\* Mutant: a routine goes while threads are in it.
RemoveAtOnce ==
  /\ step = "remove"
  /\ registered # {}
  /\ registered' = registered \ {NextToRemove}
  /\ UNCHANGED <<ownerVars, trace, enabled, ring, step, holder, notifyVars, image>>

\* The kernel waits for the threads in the routine.
Remove ==
  /\ step = "remove"
  /\ registered # {}
  /\ \A t \in Threads : family[t] # NextToRemove
  /\ registered' = registered \ {NextToRemove}
  /\ UNCHANGED <<ownerVars, trace, enabled, ring, step, holder, notifyVars, image>>

Removed ==
  /\ step = "remove"
  /\ registered = {}
  /\ step' = "free"
  /\ holder' = None
  /\ file' = IF holder \in Files /\ file[holder] = "stopping"
             THEN [file EXCEPT ![holder] = "finishing"] ELSE file
  /\ image' = IF holder = "unload" THEN "freeing" ELSE image
  /\ UNCHANGED <<fileOwner, writable, ownerPid, openCount, closing, trace,
                 enabled, registered, ring, notifyVars>>

-------------------------------------------------------------------------------
(* Notify routines *)

\* The kernel calls a registered routine, unless its removal has begun.
NotifyEnters(t, fam) ==
  /\ notify[t] = "idle"
  /\ fam \in registered
  /\ ~ (step = "remove" /\ fam = NextToRemove)
  /\ notify' = [notify EXCEPT ![t] = "entered"]
  /\ family' = [family EXCEPT ![t] = fam]
  /\ UNCHANGED <<ownerVars, trace, timelineVars, image>>

\* KnDbgTimelinePushEvent looks at the flag before it takes the spin lock.
NotifyChecks(t) ==
  /\ notify[t] = "entered"
  /\ notify' = [notify EXCEPT ![t] = IF enabled THEN "pushing" ELSE "idle"]
  /\ family' = [family EXCEPT ![t] = IF enabled THEN family[t] ELSE None]
  /\ UNCHANGED <<ownerVars, trace, timelineVars, image>>

NotifyPushes(t) ==
  /\ notify[t] = "pushing"
  /\ notify' = [notify EXCEPT ![t] = "idle"]
  /\ family' = [family EXCEPT ![t] = None]
  /\ UNCHANGED <<ownerVars, trace, timelineVars, image>>

-------------------------------------------------------------------------------
(* KnDbgUnload *)

\* The I/O manager calls it when no file is left.
BeginUnload ==
  /\ image = "loaded"
  /\ \A f \in Files : file[f] = "closed"
  /\ image' = "unloading"
  /\ UNCHANGED <<ownerVars, trace, timelineVars, notifyVars>>

\* Mutant: unload does not try a busy trace again.
UnloadDisarmsOnce ==
  /\ image = "unloading"
  /\ trace = "armed"
  /\ trace' \in Disarmed
  /\ UNCHANGED <<ownerVars, timelineVars, notifyVars, image>>

\* It disarms until the trace is not busy (IoTrace shows that this ends).
UnloadDisarms ==
  /\ image = "unloading"
  /\ trace # "off"
  /\ trace' = "off"
  /\ UNCHANGED <<ownerVars, timelineVars, notifyVars, image>>

UnloadStops ==
  /\ image = "unloading"
  /\ trace = "off"
  /\ step = "free"
  /\ holder' = "unload"
  /\ step' = "disable"
  /\ UNCHANGED <<ownerVars, trace, enabled, registered, ring, notifyVars, image>>

UnloadFrees ==
  /\ image = "freeing"
  /\ ring' = IF ring = "live" THEN "freed" ELSE ring
  /\ image' = "gone"
  /\ UNCHANGED <<ownerVars, trace, enabled, registered, step, holder, notifyVars>>

-------------------------------------------------------------------------------

\* What the lock's holder, a closing file and unload do once begun.
Continue ==
  \/ EnsureRing \/ EnsureRingFails \/ Register \/ RegisterFails \/ Enable
  \/ Disable \/ Remove \/ Removed
  \/ UnloadDisarms \/ UnloadStops \/ UnloadFrees

Close(f) == CloseDisarms(f) \/ CloseStops(f) \/ CloseFinishes(f)

Notify(t) == NotifyChecks(t) \/ NotifyPushes(t)

Request(f) ==
  \/ \E p \in Processes : Open(f, p)
  \/ \E enable \in BOOLEAN : WriteMode(f, enable)
  \/ ArmTrace(f) \/ DisarmTrace(f)
  \/ BeginStart(f) \/ BeginStop(f)
  \/ Release(f)

Next ==
  \/ Continue
  \/ \E f \in Files : Close(f) \/ Request(f)
  \/ \E t \in Threads : Notify(t) \/ \E fam \in Families : NotifyEnters(t, fam)
  \/ BeginUnload

Spec == Init /\ [][Next]_vars

\* Threads in the driver run on.  Nothing is assumed of the processes, and
\* events need not happen.
Fairness ==
  /\ WF_vars(Continue)
  /\ \A f \in Files : WF_vars(Close(f))
  /\ \A t \in Threads : WF_vars(Notify(t))

FairSpec == Spec /\ Fairness

-------------------------------------------------------------------------------
(* Properties *)

\* One process controls the driver: every open file is the owner's, the count
\* is the number of open files, and nobody is in while the last one closes.
SoleOwner ==
  /\ \A f \in OpenFiles : fileOwner[f] = ownerPid
  /\ openCount = Cardinality(OpenFiles)
  /\ closing => OpenFiles = {}
  /\ ownerPid = None => OpenFiles = {} /\ ~ closing

\* "Keep new opens out until this owner's collectors are stopped": a driver
\* without an owner collects nothing, and no request is at work in it.
NoOwnerNoCollectors ==
  ownerPid = None =>
    /\ trace # "armed"
    /\ ~ enabled
    /\ registered = {}
    /\ step = "free" \/ image # "loaded"

\* What the driver promises is ControllerLease: a lease ends, and the next
\* process gets in, only when no collector runs for it and no notify routine
\* is still writing; a STOP is answered only then; and the timeline of a live
\* owner is stopped by its own requests alone.
Lease == INSTANCE ControllerLease WITH
  owner   <- ownerPid,
  handles <- OpenFiles,
  serving <- IF holder \in OpenFiles THEN holder ELSE None,
  running <- {c \in {"timeline", "trace"} :
                IF c = "timeline" THEN enabled ELSE trace = "armed"},
  pushing <- {t \in Threads : notify[t] = "pushing"},
  phase   <- IF image = "freeing" THEN "unloading" ELSE image

ImplementsLease == Lease!Spec

\* The trace in one step is used as IoTrace's contract has it: armed only when
\* it is off, and off for good before the image goes.
Trace == INSTANCE TraceContract WITH
  Callers <- {},
  Targets <- {"target"},
  state   <- trace,
  held    <- IF trace = "off" THEN None ELSE "target",
  serving <- [c \in {} |-> None],
  phase   <- IF image = "freeing" THEN "unloading" ELSE image

UsesTrace == Trace!Spec

\* "Closing a secondary handle must not stop the live owner": while a file is
\* open, a collector stops only for a request on an open, writable file.
OnlyOwnerStops ==
  [][OpenFiles # {} =>
       /\ enabled /\ ~ enabled' => holder \in OpenFiles
       /\ trace = "armed" /\ trace' # "armed" =>
            /\ UNCHANGED <<file, image>>
            /\ \E f \in OpenFiles : writable[f]]_vars

\* Whenever the control lock is free, all notify routines are registered and
\* enabled or none is, and in the latter case no thread is in one: a failed
\* or finished START or STOP leaves no routine behind, and no event arrives
\* after STOP has returned.
AllOrNothing ==
  step = "free" =>
    \/ enabled /\ registered = Families
    \/ ~ enabled /\ registered = {} /\ \A t \in Threads : notify[t] = "idle"

\* A notify routine that passed the check has a ring to push to, and none is
\* in the image when it goes.
PushersAreSafe ==
  \A t \in Threads :
    /\ notify[t] = "pushing" => ring = "live"
    /\ image = "gone" => notify[t] = "idle"

\* The last close of an owner ends, so that the next one can open the driver,
\* and so does unload.
CleanupsEnd ==
  /\ closing ~> ~ closing
  /\ image = "unloading" ~> image = "gone"

\* When the three parts of Fairness can go on.
CanContinue ==
  \/ step \in {"ring", "register", "enable", "disable"}
  \/ step = "remove" /\ (registered = {} \/ \A t \in Threads : family[t] # NextToRemove)
  \/ image = "unloading" /\ (trace # "off" \/ step = "free")
  \/ image = "freeing"

CanClose(f) ==
  \/ file[f] \in {"cleaning", "finishing"}
  \/ file[f] = "stopping" /\ step = "free"

CanNotify(t) == notify[t] # "idle"

\* The safety half of CleanupsEnd: a last close or an unload that is not done
\* waits for somebody that can go on, never for an operator, another process
\* or itself.
CleanupsCanMove ==
  closing \/ image \in {"unloading", "freeing"} =>
    \/ CanContinue
    \/ \E f \in Files : CanClose(f)
    \/ \E t \in Threads : CanNotify(t)

-------------------------------------------------------------------------------
(* The inductive invariant *)

\* One file at most is being cleaned up after, and only when none is open.
FilesOk ==
  /\ \A f \in OpenFiles : fileOwner[f] = ownerPid
  /\ ownerPid = None <=> \A f \in Files : file[f] = "closed"
  /\ \A f \in Files : file[f] \in Cleanups =>
       /\ closing
       /\ \A g \in Files \ {f} : file[g] = "closed"
  /\ closing => /\ OpenFiles = {}
                /\ ownerPid # None
  /\ image # "loaded" => ownerPid = None

CountOk == openCount = Cardinality(OpenFiles)

\* Who may hold the control lock, and at which step.
HolderOk ==
  /\ step = "free" <=> holder = None
  /\ holder \in Files =>
       \/ file[holder] = "open"
       \/ file[holder] = "stopping" /\ step \in {"disable", "remove"}
  /\ holder = "unload" =>
       image = "unloading" /\ trace = "off" /\ step \in {"disable", "remove"}

\* What is registered at each step.
TimelineOk ==
  /\ enabled => ring = "live" /\ registered = Families
  /\ step \in {"register", "enable"} => ring = "live"
  /\ step \in {"free", "ring"} => enabled \/ registered = {}
  /\ step = "register" => ~ enabled /\ "thread" \notin registered
                          /\ (registered = {} \/ "process" \in registered)
  /\ step = "enable" => registered = Families
  /\ step = "remove" => ~ enabled

\* The collectors stop step by step while the owner's last file, or the
\* driver, goes.
StoppedOk ==
  /\ \A f \in Files :
       /\ file[f] \in {"stopping", "finishing"} => trace # "armed"
       /\ file[f] = "finishing" => ~ enabled /\ registered = {} /\ step = "free"
  /\ ownerPid = None => trace # "armed" /\ ~ enabled /\ registered = {}
  /\ ownerPid = None => holder \in {"none", "unload"}
  /\ image \in {"freeing", "gone"} => trace = "off" /\ step = "free"

\* A thread in a notify routine is in a registered one.
NotifyOk ==
  \A t \in Threads :
    /\ notify[t] = "idle" <=> family[t] = None
    /\ notify[t] # "idle" => family[t] \in registered
    /\ notify[t] = "pushing" => ring = "live"

IInv == /\ TypeOK
        /\ FilesOk
        /\ CountOk
        /\ HolderOk
        /\ TimelineOk
        /\ StoppedOk
        /\ NotifyOk
===============================================================================
