------------------------------- MODULE PendingIo -------------------------------
(***************************************************************************)
(* Pending I/O in the minifilter fixture (PendingIo.cpp).  A client arms   *)
(* the fixture for a target process; the target's next requests are held   *)
(* back by the upper or the lower instance, before (pre) or after (post)   *)
(* they reach the device, and a single worker thread completes them.       *)
(*                                                                         *)
(* g_Lock is a spin lock: what runs under it is one step.  g_Control is a  *)
(* mutex that is kept across such steps.  An operation's references are    *)
(* counted with interlocked instructions, outside both.  Delays, gates and *)
(* time limits only decide when a step is taken, which is left open, as is *)
(* whether an allocation fails; counters nobody reads are left out.        *)
(***************************************************************************)
EXTENDS Integers, Sequences, FiniteSets, Functions

CONSTANTS Ops,          \* contexts that can be allocated
          Ios,          \* requests; one that ended can be sent again
          Reads,        \* those of them that are reads; the others are creates
          Targets,      \* processes that can be armed for
          ClientIds,    \* cookies of port clients: each is given out once
          Modes,        \* the modes clients ask for
          Batches,      \* sizes of read batches
          MaxTopology   \* bound on attaching instances, for TLC

Levels    == {"upper", "lower"}
PairModes == {"DRAIN_PAIR", "FAIL_READ_LOCK"}
AllModes  == PairModes \cup
             {"PRE", "POST", "BOTH", "FAIL_PRE_QUEUE", "FAIL_POST_QUEUE"}
None      == "none"

ASSUME SetsAssumption ==
  /\ IsFiniteSet(Ops)
  /\ None \notin Ops /\ None \notin Targets /\ None \notin Ios
  /\ None \notin ClientIds
  /\ Reads \subseteq Ios
  /\ Ios \cap (Levels \cup {"worker"}) = {}
ASSUME ModesAssumption == Modes \subseteq AllModes
ASSUME BatchesAssumption == Batches \subseteq 2 .. 8
ASSUME TopologyAssumption == MaxTopology \in Nat

VARIABLES
  stage,      \* the driver: "loaded", "stopping", "joined" or "gone"
  control,    \* who has g_Control: None, "worker" or a client being replied to
  process,    \* each target: "running", "notified" (of its exit), "signaled"
  client,     \* each client: "none", "open", "exited" or "closed"
  owner,      \* g_Owner
  arm,        \* g_Target, ArmedMode, ArmedRemaining and ArmedGeneration
  topology,   \* TopologyGeneration
  instance,   \* each level: "attached", "stopping" or "absent"
  op,         \* the operations
  queue,      \* g_Work
  io,         \* the requests on their way down and up
  tail,       \* each thread's FinishLogical or DropReference in progress
  wpc,        \* where the worker is
  wop,        \* the operation the worker took
  snapshot,   \* the target the worker probes
  available,  \* g_WorkAvailable is set
  violations  \* g_Status.Violations

portVars   == <<process, client>>
armVars    == <<owner, arm, topology, instance>>
workerVars == <<wpc, wop, snapshot>>
vars == <<stage, control, portVars, armVars, op, queue, io, tail,
          workerVars, available, violations>>

Threads == Ios \cup Levels \cup {"worker"}   \* a level drains its posts

NoArm == [target |-> None, mode |-> None, left |-> 0, gen |-> 0]
Arms  == [target : Targets, mode : AllModes, left : 1 .. 8, gen : Nat]

Free == [live |-> FALSE]
Live == {o \in Ops : op[o].live}
Operations ==
  [live : {TRUE}, refs : 0 .. 3, released : BOOLEAN, level : Levels,
   data : Ios, target : Targets, mode : AllModes, owner : ClientIds,
   gen : Nat, wake : 0 .. 3, claimed : BOOLEAN, post : BOOLEAN]

NoContext == [l \in Levels |-> None]
Idle == [phase |-> "idle", level |-> "upper", proc |-> None,
         ctx |-> NoContext, cur |-> None, pinned |-> FALSE]
Phases == {"idle", "pre", "admitted", "pended", "device", "post", "leaving"}
Requests ==
  [phase : Phases, level : Levels, proc : Targets \cup {None},
   ctx : [Levels -> Ops \cup {None}], cur : Ops \cup {None}, pinned : BOOLEAN]

NoTail == [at |-> "none", op |-> None]
Tails  == {NoTail} \cup [at : {"drop", "unlink"}, op : Ops]

Holding == {"taken", "post", "cancel", "pass", "finish", "drop", "done"}
WorkerPcs == {"retire", "alive", "dead", "sense", "wait", "poll", "take",
              "exited"} \cup Holding

TypeOK ==
  /\ stage \in {"loaded", "stopping", "joined", "gone"}
  /\ control \in {None, "worker"} \cup ClientIds
  /\ process \in [Targets -> {"running", "notified", "signaled"}]
  /\ client \in [ClientIds -> {"none", "open", "exited", "closed"}]
  /\ owner \in ClientIds \cup {None}
  /\ arm \in Arms \cup {NoArm}
  /\ topology \in Nat
  /\ instance \in [Levels -> {"attached", "stopping", "absent"}]
  /\ op \in [Ops -> Operations \cup {Free}]
  /\ queue \in Seq(Ops)
  /\ io \in [Ios -> Requests]
  /\ tail \in [Threads -> Tails]
  /\ wpc \in WorkerPcs
  /\ wop \in Ops \cup {None}
  /\ snapshot \in Targets \cup {None}
  /\ available \in BOOLEAN
  /\ violations \in Nat

Init ==
  /\ stage = "loaded"
  /\ control = None
  /\ process = [t \in Targets |-> "running"]
  /\ client = [c \in ClientIds |-> "none"]
  /\ owner = None
  /\ arm = NoArm
  /\ topology = 0
  /\ instance = [l \in Levels |-> "absent"]
  /\ op = [o \in Ops |-> Free]
  /\ queue = <<>>
  /\ io = [i \in Ios |-> Idle]
  /\ tail = [t \in Threads |-> NoTail]
  /\ wpc = "retire"
  /\ wop = None
  /\ snapshot = None
  /\ available = FALSE
  /\ violations = 0

-------------------------------------------------------------------------------
(* Helpers that run under g_Lock *)

Wake(which, reason) ==
  [o \in Ops |-> IF o \in which /\ op[o].wake < reason
                 THEN [op[o] EXCEPT !.wake = reason] ELSE op[o]]

\* Disarm, and every operation of the owner woken to be cancelled.
ReleaseOwner ==
  /\ owner' = None
  /\ arm' = NoArm
  /\ op' = Wake({o \in Live : op[o].owner = owner}, 2)

ChangeTopology ==
  /\ topology' = topology + 1
  /\ arm' = NoArm

FinishLogical(thread, o) ==
  IF op[o].released
  THEN violations' = violations + 1 /\ UNCHANGED <<op, tail>>
  ELSE /\ op' = [op EXCEPT ![o].released = TRUE]
       /\ tail' = [tail EXCEPT ![thread] = [at |-> "drop", op |-> o]]
       /\ UNCHANGED violations

\* The request r on its way up from its level: the upper instance's post comes
\* next if that instance has a context for it.
Up(r) ==
  IF r.level = "lower" /\ r.ctx["upper"] # None
  THEN [r EXCEPT !.phase = "post", !.level = "upper", !.cur = None,
                 !.ctx["lower"] = None]
  ELSE Idle

\* On its way down.  The lower instance lets everything but reads pass.
Down(i, r) ==
  IF r.level = "upper" /\ i \in Reads /\ instance["lower"] = "attached"
  THEN [r EXCEPT !.phase = "pre", !.level = "lower", !.cur = None]
  ELSE [r EXCEPT !.phase = "device", !.level = "lower", !.cur = None]

-------------------------------------------------------------------------------
(* The port: Connect, Disconnect and Message, each under g_Control *)

Connect(c) ==
  /\ control = None
  /\ stage = "loaded"
  /\ client[c] = "none"
  /\ client' = [client EXCEPT ![c] = "open"]
  /\ UNCHANGED <<stage, control, process, armVars, op, queue, io, tail,
                 workerVars, available, violations>>

Disconnect(c) ==
  /\ control = None
  /\ client[c] \in {"open", "exited"}
  /\ client' = [client EXCEPT ![c] = "closed"]
  /\ IF owner = c THEN ReleaseOwner ELSE UNCHANGED <<owner, arm, op>>
  /\ UNCHANGED <<stage, control, process, topology, instance, queue, io, tail,
                 workerVars, available, violations>>

Accepted(c) ==
  /\ control = None
  /\ stage = "loaded"
  /\ client[c] = "open"
  /\ owner \in {None, c}

\* Mutant: the arm does not wake the worker.
ArmQuietly(c, t, m, n) ==
  /\ Accepted(c)
  /\ process[t] # "signaled"
  /\ \A l \in Levels : instance[l] # "stopping"
  /\ \E l \in Levels : instance[l] # "absent"
  /\ arm = NoArm /\ Live = {} /\ wop = None /\ queue = <<>>
  /\ owner' = c
  /\ arm' = [target |-> t, mode |-> m, left |-> n, gen |-> topology]
  /\ control' = c
  /\ UNCHANGED <<stage, portVars, topology, instance, op, queue, io, tail,
                 workerVars, available, violations>>

\* ARM and its racing and batch variants.  ProbeTarget found the process alive;
\* LiveInstances counts every instance not yet absent.
Arm(c, t, m, n) ==
  /\ Accepted(c)
  /\ process[t] # "signaled"
  /\ \A l \in Levels : instance[l] # "stopping"
  /\ \E l \in Levels : instance[l] # "absent"
  /\ arm = NoArm /\ Live = {} /\ wop = None /\ queue = <<>>
  /\ owner' = c
  /\ arm' = [target |-> t, mode |-> m, left |-> n, gen |-> topology]
  /\ available' = TRUE
  /\ control' = c
  /\ UNCHANGED <<stage, portVars, topology, instance, op, queue, io, tail,
                 workerVars, violations>>

ArmOne(c, t, m)     == Arm(c, t, m, 1)
ArmBatch(c, t, n)   == "DRAIN_PAIR" \in Modes /\ Arm(c, t, "DRAIN_PAIR", n)

Resume(c) ==
  /\ Accepted(c)
  /\ op' = Wake({o \in Live : op[o].owner = c}, 1)
  /\ control' = c
  /\ UNCHANGED <<stage, portVars, armVars, queue, io, tail, workerVars,
                 available, violations>>

Release(c) ==
  /\ Accepted(c)
  /\ ReleaseOwner
  /\ UNCHANGED <<stage, control, portVars, topology, instance, queue, io,
                 tail, workerVars, available, violations>>

\* The status is copied to the client with g_Control still held; a client that
\* cannot be told loses what it owns.
Reply(c) ==
  /\ control = c
  /\ control' = None
  /\ \/ UNCHANGED <<owner, arm, op>>
     \/ owner = c /\ ReleaseOwner
  /\ UNCHANGED <<stage, portVars, topology, instance, queue, io, tail,
                 workerVars, available, violations>>

-------------------------------------------------------------------------------
(* Process exits: PendingIoProcessExit, then the process object is signaled *)

ClientExit(c) ==
  /\ control = None
  /\ client[c] = "open"
  /\ client' = [client EXCEPT ![c] = "exited"]
  /\ IF owner = c THEN ReleaseOwner ELSE UNCHANGED <<owner, arm, op>>
  /\ UNCHANGED <<stage, control, process, topology, instance, queue, io, tail,
                 workerVars, available, violations>>

TargetExit(t) ==
  /\ control = None
  /\ process[t] = "running"
  /\ process' = [process EXCEPT ![t] = "notified"]
  /\ arm' = IF arm.target = t THEN NoArm ELSE arm
  /\ op' = Wake({o \in Live : op[o].target = t}, 2)
  /\ UNCHANGED <<stage, control, client, owner, topology, instance, queue, io,
                 tail, workerVars, available, violations>>

Signal(t) ==
  /\ process[t] = "notified"
  /\ process' = [process EXCEPT ![t] = "signaled"]
  /\ UNCHANGED <<stage, control, client, armVars, op, queue, io, tail,
                 workerVars, available, violations>>

-------------------------------------------------------------------------------
(* Instances come and go *)

Setup(l) ==
  /\ stage = "loaded"
  /\ instance[l] = "absent"
  /\ topology < MaxTopology
  /\ instance' = [instance EXCEPT ![l] = "attached"]
  /\ ChangeTopology
  /\ UNCHANGED <<stage, control, portVars, owner, op, queue, io, tail,
                 workerVars, available, violations>>

\* Mutant: a teardown leaves the arm alone.
TeardownKeepsArm(l) ==
  /\ stage # "gone"
  /\ instance[l] = "attached"
  /\ instance' = [instance EXCEPT ![l] = "stopping"]
  /\ topology' = topology + 1
  /\ op' = Wake({o \in Live : op[o].level = l}, 3)
  /\ UNCHANGED <<stage, control, portVars, owner, arm, queue, io, tail,
                 workerVars, available, violations>>

TeardownStart(l) ==
  /\ stage # "gone"
  /\ instance[l] = "attached"
  /\ instance' = [instance EXCEPT ![l] = "stopping"]
  /\ ChangeTopology
  /\ op' = Wake({o \in Live : op[o].level = l}, 3)
  /\ UNCHANGED <<stage, control, portVars, owner, queue, io, tail,
                 workerVars, available, violations>>

NotIn(i, l) ==
  /\ io[i].ctx[l] = None
  /\ io[i].phase \in {"pre", "admitted", "pended", "post", "leaving"} => io[i].level # l

\* The filter manager takes an instance away when no request is in its
\* callbacks and none has a context of it.
TeardownComplete(l) ==
  /\ instance[l] = "stopping"
  /\ tail[l] = NoTail
  /\ \A i \in Ios : NotIn(i, l)
  /\ instance' = [instance EXCEPT ![l] = "absent"]
  /\ UNCHANGED <<stage, control, portVars, owner, arm, topology, op, queue, io,
                 tail, workerVars, available, violations>>

-------------------------------------------------------------------------------
(* A request on its way down: PendingIoPreOperation *)

Issue(i, t) ==
  /\ io[i].phase = "idle"
  /\ process[t] # "signaled"
  /\ \E l \in Levels :
       /\ instance[l] = "attached"
       /\ l = "lower" => instance["upper"] # "attached" /\ i \in Reads
       /\ io' = [io EXCEPT ![i] = [Idle EXCEPT !.phase = "pre", !.level = l,
                                               !.proc = t]]
  /\ UNCHANGED <<stage, control, portVars, armVars, op, queue, tail,
                 workerVars, available, violations>>

Entered(i, l) ==
  /\ io[i].phase = "pre"
  /\ io[i].level = l

Open(l) == stage = "loaded" /\ instance[l] = "attached"

\* The arm is for this request.
Armed(i) ==
  /\ Open("upper")
  /\ arm.target = io[i].proc
  /\ (i \in Reads) = (arm.mode \in PairModes)

Consumed == IF arm.left = 1 THEN NoArm ELSE [arm EXCEPT !.left = @ - 1]

\* Mutant: the lower instance asks for nothing but the pair.
ClaimsAny(i, u) ==
  /\ Open("lower")
  /\ op[u].mode \in PairModes
  /\ op[u].level = "upper"
  /\ ~ op[u].claimed
  /\ ~ op[u].released
  /\ op[u].data = i
  /\ op[u].target = io[i].proc

\* The upper operation u of the same request lets the lower instance hold it.
Claims(i, u) ==
  /\ Open("lower")
  /\ op[u].mode \in PairModes
  /\ ~ op[u].claimed
  /\ ~ op[u].released
  /\ op[u].data = i
  /\ op[u].target = io[i].proc
  /\ op[u].gen = topology
  /\ op[u].owner = owner
  /\ op[u].wake < 2

Operation(l, i, t, m, c, g) ==
  [live |-> TRUE, refs |-> 1, released |-> FALSE, level |-> l, data |-> i,
   target |-> t, mode |-> m, owner |-> c, gen |-> g, wake |-> 0,
   claimed |-> FALSE, post |-> FALSE]

\* The arm is used up and the operation published in one step.
AdmitUpper(i, o) ==
  /\ Entered(i, "upper")
  /\ Armed(i)
  /\ o \notin Live
  /\ arm' = Consumed
  /\ op' = [op EXCEPT ![o] = Operation("upper", i, arm.target, arm.mode,
                                       owner, arm.gen)]
  /\ io' = [io EXCEPT ![i].phase = "admitted", ![i].cur = o]
  /\ UNCHANGED <<stage, control, portVars, owner, topology, instance, queue,
                 tail, workerVars, available, violations>>

LowerMode(m) == IF m = "FAIL_READ_LOCK" THEN m ELSE "PRE"

AdmitLower(i, u, o) ==
  /\ Entered(i, "lower")
  /\ u \in Live
  /\ Claims(i, u)
  /\ o \notin Live
  /\ op' = [op EXCEPT ![u].claimed = TRUE,
                      ![o] = Operation("lower", i, io[i].proc,
                                       LowerMode(op[u].mode), op[u].owner,
                                       op[u].gen)]
  /\ io' = [io EXCEPT ![i].phase = "admitted", ![i].cur = o]
  /\ UNCHANGED <<stage, control, portVars, armVars, queue, tail, workerVars,
                 available, violations>>

\* No memory for the operation: the arm, or the claim, is used up all the same.
AdmitFails(i) ==
  /\ \/ /\ Entered(i, "upper")
        /\ Armed(i)
        /\ arm' = Consumed
        /\ UNCHANGED op
     \/ \E u \in Live :
          /\ Entered(i, "lower")
          /\ Claims(i, u)
          /\ op' = [op EXCEPT ![u].claimed = TRUE]
          /\ UNCHANGED arm
  /\ io' = [io EXCEPT ![i] = Down(i, io[i])]
  /\ UNCHANGED <<stage, control, portVars, owner, topology, instance, queue,
                 tail, workerVars, available, violations>>

\* Nothing in this request is asked for.
PassBy(i) ==
  /\ io[i].phase = "pre"
  /\ io[i].level = "upper" => ~ Armed(i)
  /\ io[i].level = "lower" => \A u \in Live : ~ Claims(i, u)
  /\ io' = [io EXCEPT ![i] = Down(i, io[i])]
  /\ UNCHANGED <<stage, control, portVars, armVars, op, queue, tail,
                 workerVars, available, violations>>

Pends(o) ==
  \/ op[o].mode \in {"PRE", "BOTH", "FAIL_PRE_QUEUE"}
  \/ op[o].mode = "FAIL_READ_LOCK" /\ op[o].level = "lower"

\* Queue's conditions.
Queueable(o, post) ==
  /\ Open(op[o].level)
  /\ op[o].wake < 2
  /\ op[o].mode # (IF post THEN "FAIL_POST_QUEUE" ELSE "FAIL_PRE_QUEUE")

\* Mutant: the worker has no reference of its own.
EnqueueUncounted(o, post) ==
  /\ op' = [op EXCEPT ![o].post = post,
                      ![o].wake = IF post THEN 0 ELSE @]
  /\ queue' = Append(queue, o)
  /\ available' = TRUE

\* Mutant: the worker is not woken for the work.
EnqueueQuietly(o, post) ==
  /\ op' = [op EXCEPT ![o].refs = @ + 1,
                      ![o].post = post,
                      ![o].wake = IF post THEN 0 ELSE @]
  /\ queue' = Append(queue, o)
  /\ UNCHANGED available

\* Queue: the worker gets a reference of its own.
Enqueue(o, post) ==
  /\ op' = [op EXCEPT ![o].refs = @ + 1,
                      ![o].post = post,
                      ![o].wake = IF post THEN 0 ELSE @]
  /\ queue' = Append(queue, o)
  /\ available' = TRUE

QueuePre(i) ==
  LET o == io[i].cur IN
  /\ io[i].phase = "admitted"
  /\ Pends(o)
  /\ i \in Reads => op[o].mode # "FAIL_READ_LOCK"
  /\ Queueable(o, FALSE)
  /\ Enqueue(o, FALSE)
  /\ io' = [io EXCEPT ![i].phase = "pended", ![i].pinned = i \in Reads]
  /\ UNCHANGED <<stage, control, portVars, armVars, tail, workerVars,
                 violations>>

\* A read whose buffer cannot be locked is completed here.
LockFails(i) ==
  LET o == io[i].cur IN
  /\ io[i].phase = "admitted"
  /\ Pends(o)
  /\ i \in Reads
  /\ FinishLogical(i, o)
  /\ io' = [io EXCEPT ![i].phase = "leaving"]
  /\ UNCHANGED <<stage, control, portVars, armVars, queue, workerVars,
                 available>>

\* Not to be held here, or the queue refuses: post gets the operation.
GoOn(i) ==
  LET o == io[i].cur IN
  /\ io[i].phase = "admitted"
  /\ Pends(o) => /\ i \in Reads => op[o].mode # "FAIL_READ_LOCK"
                 /\ ~ Queueable(o, FALSE)
  /\ io' = [io EXCEPT ![i] = Down(i, [io[i] EXCEPT !.ctx[io[i].level] = o])]
  /\ UNCHANGED <<stage, control, portVars, armVars, op, queue, tail,
                 workerVars, available, violations>>

-------------------------------------------------------------------------------
(* And up again: PendingIoPostOperation *)

Complete(i) ==
  /\ io[i].phase = "device"
  /\ io' = [io EXCEPT ![i] = IF io[i].ctx["lower"] # None
                             THEN [io[i] EXCEPT !.phase = "post"]
                             ELSE Up(io[i])]
  /\ UNCHANGED <<stage, control, portVars, armVars, op, queue, tail,
                 workerVars, available, violations>>

Postpones(o) == op[o].mode \in {"POST", "BOTH", "FAIL_POST_QUEUE"}

QueuePost(i) ==
  LET l == io[i].level
      o == io[i].ctx[l]
  IN /\ io[i].phase = "post"
     /\ Postpones(o)
     /\ Queueable(o, TRUE)
     /\ Enqueue(o, TRUE)
     /\ io' = [io EXCEPT ![i].phase = "pended", ![i].ctx[l] = None]
     /\ UNCHANGED <<stage, control, portVars, armVars, tail, workerVars,
                    violations>>

FinishPost(i) ==
  LET l == io[i].level
      o == io[i].ctx[l]
  IN /\ io[i].phase = "post"
     /\ ~ (Postpones(o) /\ Queueable(o, TRUE))
     /\ FinishLogical(i, o)
     /\ io' = [io EXCEPT ![i].phase = "leaving", ![i].ctx[l] = None]
     /\ UNCHANGED <<stage, control, portVars, armVars, queue, workerVars,
                    available>>

Leave(i) ==
  /\ io[i].phase = "leaving"
  /\ tail[i] = NoTail
  /\ io' = [io EXCEPT ![i] = Up(io[i])]
  /\ UNCHANGED <<stage, control, portVars, armVars, op, queue, tail,
                 workerVars, available, violations>>

\* A draining post: the instance goes before the request comes back.
Drain(l, i) ==
  LET o == io[i].ctx[l] IN
  /\ instance[l] = "stopping"
  /\ tail[l] = NoTail
  /\ o # None
  /\ ~ (io[i].phase = "post" /\ io[i].level = l)
  /\ FinishLogical(l, o)
  /\ io' = [io EXCEPT ![i].ctx[l] = None]
  /\ UNCHANGED <<stage, control, portVars, armVars, queue, workerVars,
                 available>>

-------------------------------------------------------------------------------
(* DropReference, in any thread: the count first, the list after *)

DropReference(thread) ==
  LET o == tail[thread].op IN
  /\ tail[thread].at = "drop"
  /\ op' = [op EXCEPT ![o].refs = @ - 1]
  /\ tail' = [tail EXCEPT ![thread] = IF op[o].refs = 1
                                      THEN [@ EXCEPT !.at = "unlink"]
                                      ELSE NoTail]
  /\ UNCHANGED <<stage, control, portVars, armVars, queue, io, workerVars,
                 available, violations>>

Unlink(thread) ==
  /\ tail[thread].at = "unlink"
  /\ op' = [op EXCEPT ![tail[thread].op] = Free]
  /\ tail' = [tail EXCEPT ![thread] = NoTail]
  /\ UNCHANGED <<stage, control, portVars, armVars, queue, io, workerVars,
                 available, violations>>

-------------------------------------------------------------------------------
(* The worker *)

\* RetireExitedTarget takes a snapshot of the target and keeps g_Control.
Watch ==
  /\ wpc = "retire"
  /\ control = None
  /\ snapshot' = arm.target
  /\ IF arm.target = None
     THEN wpc' = "sense" /\ UNCHANGED control
     ELSE /\ control' = "worker"
          /\ wpc' \in IF process[arm.target] = "signaled"
                      THEN {"dead"} ELSE {"alive", "dead"}
  /\ UNCHANGED <<stage, portVars, armVars, op, queue, io, tail, wop,
                 available, violations>>

\* The probe's result counts only if its target is still armed for.
Retire ==
  /\ wpc \in {"alive", "dead"}
  /\ wpc' = "sense"
  /\ control' = None
  /\ IF wpc = "dead" /\ arm.target = snapshot
     THEN /\ arm' = NoArm
          /\ op' = Wake({o \in Live : op[o].target = snapshot}, 2)
     ELSE UNCHANGED <<arm, op>>
  /\ snapshot' = None
  /\ UNCHANGED <<stage, portVars, owner, topology, instance, queue, io, tail,
                 wop, available, violations>>

\* Polls only while something is armed.
Sense ==
  /\ wpc = "sense"
  /\ wpc' = IF arm.target # None THEN "poll" ELSE "wait"
  /\ UNCHANGED <<stage, control, portVars, armVars, op, queue, io, tail, wop,
                 snapshot, available, violations>>

WaitEnds ==
  /\ \/ wpc \in {"wait", "poll"} /\ available /\ available' = FALSE
     \/ wpc = "poll" /\ ~ available /\ UNCHANGED available
  /\ wpc' = "take"
  /\ UNCHANGED <<stage, control, portVars, armVars, op, queue, io, tail, wop,
                 snapshot, violations>>

Take ==
  /\ wpc = "take"
  /\ queue # <<>>
  /\ wop' = Head(queue)
  /\ queue' = Tail(queue)
  /\ wpc' = "taken"
  /\ UNCHANGED <<stage, control, portVars, armVars, op, io, tail, snapshot,
                 available, violations>>

\* Mutant: the thread ends as soon as it is told to.
IdleEndsEarly ==
  /\ wpc = "take"
  /\ queue = <<>> \/ stage # "loaded"
  /\ wpc' = IF stage # "loaded" THEN "exited" ELSE "retire"
  /\ UNCHANGED <<stage, control, portVars, armVars, op, queue, io, tail, wop,
                 snapshot, available, violations>>

NoWork ==
  /\ wpc = "take"
  /\ queue = <<>>
  /\ wpc' = IF stage # "loaded" THEN "exited" ELSE "retire"
  /\ UNCHANGED <<stage, control, portVars, armVars, op, queue, io, tail, wop,
                 snapshot, available, violations>>

MissingMdl == op[wop].data \in Reads /\ ~ io[op[wop].data].pinned

\* The held time is over, the request is woken or cancelled.
Decide ==
  LET o == wop IN
  /\ wpc = "taken"
  /\ IF op[o].post
     THEN wpc' = "post" /\ UNCHANGED violations
     ELSE /\ wpc' \in IF \/ MissingMdl \/ op[o].wake >= 2
                         \/ ~ Open(op[o].level)
                      THEN {"cancel"} ELSE {"cancel", "pass"}
          /\ violations' = violations + (IF MissingMdl THEN 1 ELSE 0)
  /\ UNCHANGED <<stage, control, portVars, armVars, op, queue, io, tail, wop,
                 snapshot, available>>

\* FltCompletePendedPostOperation, FltCompletePendedPreOperation.
Settle ==
  LET i == op[wop].data IN
  /\ \/ /\ wpc \in {"post", "cancel"}
        /\ io' = [io EXCEPT ![i] = Up(io[i])]
        /\ wpc' = "finish"
     \/ /\ wpc = "pass"
        /\ io' = [io EXCEPT ![i] = Down(i, [io[i] EXCEPT
                                           !.ctx[op[wop].level] = wop])]
        /\ wpc' = "drop"
  /\ UNCHANGED <<stage, control, portVars, armVars, op, queue, tail, wop,
                 snapshot, available, violations>>

Finish ==
  /\ wpc = "finish"
  /\ FinishLogical("worker", wop)
  /\ wpc' = "drop"
  /\ UNCHANGED <<stage, control, portVars, armVars, queue, io, wop, snapshot,
                 available>>

WorkerDrop ==
  /\ wpc = "drop"
  /\ tail["worker"] = NoTail
  /\ tail' = [tail EXCEPT !["worker"] = [at |-> "drop", op |-> wop]]
  /\ wpc' = "done"
  /\ UNCHANGED <<stage, control, portVars, armVars, op, queue, io, wop,
                 snapshot, available, violations>>

Done ==
  /\ wpc = "done"
  /\ tail["worker"] = NoTail
  /\ wop' = None
  /\ wpc' = "take"
  /\ UNCHANGED <<stage, control, portVars, armVars, op, queue, io, tail,
                 snapshot, available, violations>>

-------------------------------------------------------------------------------
(* Unload: PendingIoStop, FltUnregisterFilter *)

Stop ==
  /\ stage = "loaded"
  /\ control = None
  /\ stage' = "stopping"
  /\ op' = Wake(Live, 3)
  /\ owner' = None
  /\ arm' = NoArm
  /\ available' = TRUE
  /\ UNCHANGED <<control, portVars, topology, instance, queue, io, tail,
                 workerVars, violations>>

\* Mutant: idle is taken for ended.
JoinIdle ==
  /\ stage = "stopping"
  /\ queue = <<>>
  /\ stage' = "joined"
  /\ UNCHANGED <<control, portVars, armVars, op, queue, io, tail, workerVars,
                 available, violations>>

\* The worker thread is waited for, not just its queue.
Join ==
  /\ stage = "stopping"
  /\ wpc = "exited"
  /\ stage' = "joined"
  /\ UNCHANGED <<control, portVars, armVars, op, queue, io, tail, workerVars,
                 available, violations>>

Unregister ==
  /\ stage = "joined"
  /\ \A l \in Levels : instance[l] = "absent"
  /\ control = None
  /\ stage' = "gone"
  /\ UNCHANGED <<control, portVars, armVars, op, queue, io, tail, workerVars,
                 available, violations>>

-------------------------------------------------------------------------------

Port(c) ==
  \/ Connect(c) \/ Disconnect(c) \/ Resume(c) \/ Release(c) \/ ClientExit(c)
  \/ \E t \in Targets : \/ \E m \in Modes : ArmOne(c, t, m)
                        \/ \E n \in Batches : ArmBatch(c, t, n)

Request(i) ==
  \/ \E o \in Ops : AdmitUpper(i, o) \/ \E u \in Ops : AdmitLower(i, u, o)
  \/ AdmitFails(i) \/ PassBy(i) \/ QueuePre(i) \/ LockFails(i) \/ GoOn(i)
  \/ Complete(i) \/ QueuePost(i) \/ FinishPost(i) \/ Leave(i)

Worker ==
  \/ Retire \/ Sense \/ WaitEnds \/ Take \/ NoWork \/ Decide \/ Settle
  \/ Finish \/ WorkerDrop \/ Done

LetGo(thread) == DropReference(thread) \/ Unlink(thread)

Next ==
  \/ \E c \in ClientIds : Port(c) \/ Reply(c)
  \/ \E t \in Targets : TargetExit(t) \/ Signal(t)
  \/ \E l \in Levels : Setup(l) \/ TeardownStart(l) \/ TeardownComplete(l)
                       \/ \E i \in Ios : Drain(l, i)
  \/ \E i \in Ios : \/ Request(i)
                    \/ \E t \in Targets : Issue(i, t)
  \/ \E thread \in Threads : LetGo(thread)
  \/ Watch \/ Worker
  \/ Stop \/ Join \/ Unregister

Spec == Init /\ [][Next]_vars

\* Threads that can run do; the device completes what it is sent; the filter
\* manager ends what it began and, once the worker is joined, takes the
\* instances away.  g_Control is granted first come, first served.
Fairness ==
  /\ \A i \in Ios : /\ WF_vars(Request(i))
                    /\ \A l \in Levels : WF_vars(Drain(l, i))
  /\ \A thread \in Threads : WF_vars(LetGo(thread))
  /\ \A l \in Levels : /\ WF_vars(stage = "joined" /\ TeardownStart(l))
                       /\ WF_vars(TeardownComplete(l))
  /\ \A c \in ClientIds : WF_vars(Reply(c))
  /\ WF_vars(Worker)
  /\ SF_vars(Watch)
  /\ WF_vars(Join) /\ WF_vars(Unregister)

FairSpec == Spec /\ Fairness

-------------------------------------------------------------------------------
(* Properties *)

Pended == {i \in Ios : io[i].phase = "pended"}

\* Operations the worker still has to give back, in the queue or in its hands.
InHand == wpc \in {"taken", "post", "cancel", "pass"}
Undone == Range(queue) \cup (IF InHand THEN {wop} ELSE {})

\* Every request held back belongs to exactly one operation in the worker's
\* queue or hands, and every such operation to a request held back: no request
\* is lost by a stop, a teardown or a release, and none is completed twice
\* (ReleaseViolations, the code's own audit, stays at zero).
HeldIsInHand ==
  /\ \A i \in Pended : \E o \in Undone : op[o].live /\ op[o].data = i
  /\ \A o \in Undone :
       /\ op[o].live
       /\ op[o].data \in Pended
       /\ io[op[o].data].level = op[o].level
  /\ \A o, p \in Undone : op[o].data = op[p].data => o = p
  /\ \A a, b \in 1 .. Len(queue) : queue[a] = queue[b] => a = b
  /\ InHand => wop \notin Range(queue)
  /\ violations = 0

\* Whoever still uses an operation finds it allocated: the request that carries
\* it to its post, the callback that admitted it, the queue, the worker to its
\* last instruction, and every thread about to drop a reference.
Used == {io[i].cur : i \in {j \in Ios : io[j].phase = "admitted"}}
        \cup {io[i].ctx[l] : i \in Ios, l \in Levels}
        \cup {tail[t].op : t \in Threads}
        \cup Range(queue)
        \cup (IF wpc \in Holding \ {"done"} THEN {wop} ELSE {})

NobodyUsesFreed == Used \ {None} \subseteq Live

\* A cancellation sweep reaches everything: an operation not yet finished whose
\* owner has gone, or whose instance or driver stops, is known to be cancelled.
\* Nothing is published or requeued behind the sweep's back.
SweepsAreFinal ==
  \A o \in Live :
    ~ op[o].released =>
      /\ op[o].owner # owner => op[o].wake >= 2
      /\ stage # "loaded" => op[o].wake = 3
      /\ instance[op[o].level] # "attached" => op[o].wake = 3

\* An operation is published for the present owner and in the present topology,
\* while the driver and its instance stay: never for an arm or a pair of
\* before a teardown, a new instance or a release, and never beside an
\* operation of an earlier arm.
NewIsCurrent ==
  \A o \in Ops : ~ op[o].live /\ op'[o].live =>
    /\ op'[o].owner = owner /\ op'[o].gen = topology
    /\ Open(op'[o].level)
    /\ \A p \in Live : /\ op[p].owner = owner
                       /\ op[p].gen = topology
                       /\ op[p].target = op'[o].target

NewWorkIsCurrent == [][NewIsCurrent]_vars

\* The fixture keeps its promise to the file system.
Promise == INSTANCE HeldRequests WITH
  Requests <- Ios,
  held <- Pended,
  gate <- CASE stage = "loaded" -> "open"
            [] stage = "stopping" -> "closing"
            [] OTHER -> "closed"

ImplementsHeldRequests == Promise!Spec

\* Every request held back goes on.
HeldGoesOn == \A i \in Ios : io[i].phase = "pended" ~> io[i].phase # "pended"

\* When the driver's code goes, no thread is left in it and no operation is
\* left behind.
Clean ==
  /\ wpc = "exited" /\ queue = <<>> /\ Live = {}
  /\ \A t \in Threads : tail[t] = NoTail

\* Unload comes to a clean end, whatever was armed, held or in use.
UnloadEnds ==
  /\ stage = "stopping" ~> stage = "gone"
  /\ [](stage = "gone" => Clean)

\* Its clean end, without the promise that it comes.
GoneIsClean == stage = "gone" => Clean

\* What those who owe unload a step can do: a thread that still has a reference
\* to drop; the worker; a request on its way; an instance that goes.
CanLetGo(t) == tail[t] # NoTail

WorkerCanMove ==
  \/ wpc \in {"alive", "dead", "sense", "poll", "take", "taken", "post", "cancel",
              "pass", "finish"}
  \/ wpc = "retire" /\ control = None
  \/ wpc = "wait" /\ available
  \/ wpc \in {"drop", "done"} /\ tail["worker"] = NoTail

RequestCanMove(i) ==
  \/ io[i].phase \in {"pre", "admitted", "device", "post"}
  \/ io[i].phase = "leaving" /\ tail[i] = NoTail

InstanceCanMove(l) ==
  \/ instance[l] = "attached"
  \/ /\ instance[l] = "stopping"
     /\ tail[l] = NoTail
     /\ \/ \E i \in Ios : /\ io[i].ctx[l] # None
                          /\ ~ (io[i].phase = "post" /\ io[i].level = l)
        \/ \A i \in Ios : NotIn(i, l)

\* The safety half of that: unload is at no point stuck, neither with the worker
\* waiting for a signal that was already given, nor with an instance that waits
\* for a request that waits for the worker.
UnloadCanMove ==
  /\ stage = "stopping" =>
       \/ wpc = "exited"
       \/ WorkerCanMove
       \/ CanLetGo("worker")
       \/ control \in ClientIds
  /\ stage = "joined" =>
       \/ \E l \in Levels : InstanceCanMove(l) \/ CanLetGo(l)
       \/ \E i \in Ios : RequestCanMove(i) \/ CanLetGo(i)
       \/ control \in ClientIds
       \/ (\A l \in Levels : instance[l] = "absent") /\ control = None

\* An arm for a process that has ended is given up, also if it was made after
\* the notification of the exit.
DeadArmIsRetired ==
  \A t \in Targets :
    process[t] = "signaled" /\ arm.target = t ~> arm.target # t

-------------------------------------------------------------------------------
(* The inductive invariant behind the safety properties *)

\* Where a request is, against the operations it carries: at each level it has
\* at most one, which no thread has released.
Carries(i, l, o) ==
  /\ o \in Live
  /\ ~ op[o].released
  /\ op[o].level = l
  /\ op[o].data = i

Fits(i, r) ==
  /\ \A l \in Levels : r.ctx[l] # None => Carries(i, l, r.ctx[l])
  /\ r.phase = "admitted" => Carries(i, r.level, r.cur)
  /\ r.phase \in {"pre", "admitted", "pended", "leaving"} =>
       r.ctx[r.level] = None
  /\ r.phase = "post" => r.ctx[r.level] # None
  /\ r.phase = "device" => r.level = "lower"
  /\ r.level = "upper" => r.ctx["lower"] = None
  /\ r.phase # "idle" => r.proc # None

SlotsOk == \A i \in Ios : Fits(i, io[i])

\* Operations to be given back are not released, and buffers are locked.
UndoneOk ==
  /\ HeldIsInHand
  /\ \A o \in Undone :
       /\ ~ op[o].released
       /\ ~ op[o].post /\ op[o].data \in Reads => io[op[o].data].pinned

\* Who holds a reference: whoever has the logical one, not yet dropped; the
\* queue; and the worker, to its own DropReference.
Dropping(t, o)   == tail[t].at = "drop" /\ tail[t].op = o
DropsOwn(t)      == t = "worker" /\ wpc = "done"
LogicalDrop(t, o) == Dropping(t, o) /\ ~ DropsOwn(t)
Logical(o)       == ~ op[o].released \/ \E t \in Threads : LogicalDrop(t, o)
WorkerHas(o)     == /\ wpc \in Holding
                    /\ wop = o
                    /\ wpc = "done" => tail["worker"].at = "drop"
One(b)           == IF b THEN 1 ELSE 0

RefsOk ==
  \A o \in Live :
    op[o].refs = One(Logical(o)) + One(o \in Range(queue)) + One(WorkerHas(o))

\* Each reference is dropped once, and whoever drops the last one is alone.
TailOk ==
  /\ \A t \in Threads :
       /\ tail[t].at # "none" => tail[t].op \in Live
       /\ tail[t].at = "drop" /\ ~ DropsOwn(t) => op[tail[t].op].released
       /\ tail[t].at = "unlink" => op[tail[t].op].refs = 0
  /\ \A s, t \in Threads :
       /\ tail[s].at = "drop" /\ tail[t].at = "drop" /\ tail[s].op = tail[t].op
            => s = t \/ DropsOwn(s) \/ DropsOwn(t)
       /\ tail[s].at = "unlink" /\ tail[t].at = "unlink" /\ tail[s].op = tail[t].op
            => s = t
  /\ \A i \in Ios : io[i].phase # "leaving" => tail[i] = NoTail
  /\ tail["worker"] # NoTail =>
       wpc \in {"drop", "done"} /\ tail["worker"].op = wop

WorkerOk ==
  /\ wpc \in Holding <=> wop # None
  /\ wpc \in Holding \ {"done"} => wop \in Live
  /\ wpc = "finish" =>
       /\ ~ op[wop].released
       /\ wop \notin Range(queue)
       /\ \A i \in Ios : /\ io[i].phase = "admitted" => io[i].cur # wop
                         /\ \A l \in Levels : io[i].ctx[l] # wop
  /\ wpc = "exited" => queue = <<>> /\ stage # "loaded"

\* The arm is the present owner's, in the present topology; all operations
\* come from one arm, the present one if there is one.
ArmOk ==
  /\ \A o, p \in Live : /\ op[o].owner = op[p].owner
                        /\ op[o].gen = op[p].gen
                        /\ op[o].target = op[p].target
  /\ arm # NoArm =>
       /\ stage = "loaded" /\ owner # None
       /\ arm.gen = topology
       /\ \A o \in Live : /\ op[o].owner = owner
                          /\ op[o].gen = topology
                          /\ op[o].target = arm.target

CoreOk == SlotsOk /\ UndoneOk /\ RefsOk /\ TailOk /\ WorkerOk

IInv == TypeOK /\ CoreOk /\ SweepsAreFinal /\ ArmOk

-------------------------------------------------------------------------------
(* What unload relies on *)

\* A step of unload leaves behind what the next one needs; the worker is told
\* of the stop; and whoever has g_Control gives it back.
StageOk ==
  /\ stage \in {"joined", "gone"} => wpc = "exited"
  /\ stage = "gone" => \A l \in Levels : instance[l] = "absent"
  /\ stage # "loaded" =>
       (wpc \in {"retire", "alive", "dead", "sense", "wait", "poll"} => available)
  /\ control \in ClientIds \cup {None} \/ wpc \in {"alive", "dead"}

\* Nothing is inside an instance that is not there.
AbsentOk ==
  \A l \in Levels : instance[l] = "absent" =>
    tail[l] = NoTail /\ \A i \in Ios : NotIn(i, l)

\* An operation nobody has released is still somebody's, and one nobody refers
\* to is being freed.
Has(r, o) ==
  \/ r.phase = "admitted" /\ r.cur = o
  \/ \E l \in Levels : r.ctx[l] = o

AtWorker(o) == o \in Undone \/ (wpc = "finish" /\ wop = o)

Kept(o) == AtWorker(o) \/ \E i \in Ios : Has(io[i], o)

BeingFreed(o) == \E t \in Threads : tail[t].at = "unlink" /\ tail[t].op = o

KeptOk ==
  /\ \A o \in Live :
       /\ ~ op[o].released => Kept(o)
       /\ op[o].refs = 0 => BeingFreed(o)
  /\ \A i \in Ios : io[i].phase = "idle" => \A l \in Levels : io[i].ctx[l] = None

UnloadOk == StageOk /\ AbsentOk /\ KeptOk
===============================================================================
