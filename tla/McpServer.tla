------------------------------ MODULE McpServer ------------------------------
(***************************************************************************)
(* The MCP transport of user/McpServer.cpp, the operation ledger of        *)
(* user/McpOperation.h and the engine loop RunMcpEngineLoop of             *)
(* user/main.cpp.                                                          *)
(*                                                                         *)
(* Three threads share the server:                                         *)
(*   engine    the main thread: starts the server, arms the kernel write   *)
(*             gate, pops and executes jobs, stops the server, disarms;    *)
(*   listener  the one HTTP thread: serves one request at a time and, for  *)
(*             a call, enqueues a job and waits for its result;            *)
(*   reader    the console thread: turns "off" into RequestStop.           *)
(*                                                                         *)
(* queueMutex_ makes Enqueue, the waiter's resolution, TryPopJob and       *)
(* CompleteJob atomic; every step outside that lock is a step of its own.  *)
(* An operation id is 128 random bits: Ids are never drawn twice, except   *)
(* by an id the ledger still holds, which Begin refuses.                   *)
(***************************************************************************)
EXTENDS Naturals, Sequences, FiniteSets

CONSTANTS
  Ids,          \* operation ids
  Capacity,     \* records the ledger retains (256 in the code)
  MaxPending,   \* maxPending_, queued jobs the server admits (8)
  Kinds         \* the kinds of call clients make: "read", "write" (hidden
                \* from a read-only server) and "subscribe" (ti.subscribe
                \* start or stop: in the read catalog, yet it acts)

ASSUME CapacityAssumption == Capacity \in Nat \ {0}
ASSUME PendingAssumption  == MaxPending \in Nat \ {0}
ASSUME KindsAssumption    == Kinds \subseteq {"read", "write", "subscribe"}
ASSUME IdsAssumption      == "no_job" \notin Ids

VARIABLES
  enginePc,       \* where the engine thread is
  engineJob,      \* the job the engine holds, or NoJob
  engineResult,   \* the outcome DispatchMcpRequest gave it
  disarms,        \* the engine still has to disarm after it stops the server
  listener,       \* where the listener thread is
  waiting,        \* the job the listener waits for, or NoJob
  reader,         \* where the console thread is
  running,        \* running_
  stopRequested,  \* stopRequested_
  interrupted,    \* g_StopRequested
  events,         \* TRUE while stopEvent_ and jobReadyEvent_ are open
  allowWrite,     \* config_.AllowWrite
  armed,          \* the driver's write gate of this session
  lent,           \* history: a server's policy set the gate last, and no
                  \* transition back was made or reported as failed
  session,        \* sessionId_ is set: some client has initialized
  queue,          \* queue_
  ledger,         \* operations_.Records; state "absent" is no record
  order,          \* operations_.Order
  promise,        \* ResultPromise of each job
  kind,           \* history: what each admitted job asks for
  runs,           \* history: how often each job was dispatched
  effects,        \* history: jobs that changed the target
  answer          \* history: what the client was told about each job

serverVars  == <<running, stopRequested, interrupted, events, allowWrite>>
engineVars  == <<enginePc, engineJob, engineResult, disarms>>
jobVars     == <<queue, ledger, order, promise>>
historyVars == <<kind, runs, effects, answer>>
gateVars    == <<armed, lent>>
vars == <<engineVars, listener, waiting, reader, serverVars, gateVars,
          session, jobVars, historyVars>>

NoJob    == "no_job"
Outcomes == {"succeeded", "failed", "unknown_outcome"}
States   == Outcomes \cup
            {"absent", "queued", "running", "cancelled_before_execution"}
Answers  == {"none", "cancelled", "unknown", "result"}

Absent == [state |-> "absent", order |-> 0,
           dispatched |-> FALSE, finished |-> FALSE]

Serving   == {"loop", "drain", "exec", "complete"}
Leaving   == {"cancelReader", "joinReader", "stop", "joinListener", "flush",
              "disarm"}
EnginePcs == {"repl", "arm"} \cup Serving \cup Leaving

TypeOK ==
  /\ enginePc \in EnginePcs
  /\ engineJob \in Ids \cup {NoJob}
  /\ engineResult \in Outcomes
  /\ disarms \in BOOLEAN
  /\ listener \in {"off", "receive", "wait", "expired"}
  /\ waiting \in Ids \cup {NoJob}
  /\ reader \in {"none", "check", "enter", "read", "off", "stopping"}
  /\ running \in BOOLEAN
  /\ stopRequested \in BOOLEAN
  /\ interrupted \in BOOLEAN
  /\ events \in BOOLEAN
  /\ allowWrite \in BOOLEAN
  /\ armed \in BOOLEAN
  /\ lent \in BOOLEAN
  /\ session \in BOOLEAN
  /\ queue \in Seq(Ids)
  /\ ledger \in [Ids -> [state : States, order : Nat,
                         dispatched : BOOLEAN, finished : BOOLEAN]]
  /\ order \in Nat
  /\ promise \in [Ids -> {"none"} \cup Outcomes \cup {"stopping"}]
  /\ kind \in [Ids -> {"none"} \cup Kinds]
  /\ runs \in [Ids -> Nat]
  /\ effects \subseteq Ids
  /\ answer \in [Ids -> Answers]

Init ==
  /\ enginePc = "repl"
  /\ engineJob = NoJob
  /\ engineResult = "succeeded"
  /\ disarms = FALSE
  /\ listener = "off"
  /\ waiting = NoJob
  /\ reader = "none"
  /\ running = FALSE
  /\ stopRequested = FALSE
  /\ interrupted = FALSE
  /\ events = FALSE
  /\ allowWrite = FALSE
  /\ armed = FALSE
  /\ lent = FALSE
  /\ session = FALSE
  /\ queue = <<>>
  /\ ledger = [id \in Ids |-> Absent]
  /\ order = 0
  /\ promise = [id \in Ids |-> "none"]
  /\ kind = [id \in Ids |-> "none"]
  /\ runs = [id \in Ids |-> 0]
  /\ effects = {}
  /\ answer = [id \in Ids |-> "none"]

-----------------------------------------------------------------------------
(* The ledger, McpOperationLedger.  Each operator is one method.           *)

Retained == {id \in Ids : ledger[id].state # "absent"}
(* Mutant: any record may be evicted.                                      *)
FinishedOrNot == Retained

Finished == {id \in Retained : ledger[id].finished}

OldestFinished ==
  {id \in Finished : \A other \in Finished : ledger[id].order <= ledger[other].order}

Pending(id) ==
  id \in Retained /\ ~ledger[id].dispatched /\ ~ledger[id].finished

(* Begin: a full ledger gives up its oldest finished record, or refuses.   *)
Begin(id) ==
  LET record == [state |-> "queued", order |-> order + 1,
                 dispatched |-> FALSE, finished |-> FALSE]
  IN  /\ id \notin Retained
      /\ order' = order + 1
      /\ \/ /\ Cardinality(Retained) # Capacity
            /\ ledger' = [ledger EXCEPT ![id] = record]
         \/ /\ Cardinality(Retained) = Capacity
            /\ \E victim \in OldestFinished :
                 ledger' = [ledger EXCEPT ![victim] = Absent, ![id] = record]

Started(record) == [record EXCEPT !.dispatched = TRUE, !.state = "running"]

Cancelled(record) ==
  [record EXCEPT !.state = "cancelled_before_execution", !.finished = TRUE]

(* WaitEnded: only a running operation becomes unknown to its client.      *)
WaitEnded(record) ==
  IF record.dispatched /\ ~record.finished
  THEN [record EXCEPT !.state = "unknown_outcome"]
  ELSE record

(* Mutant: an operation whose waiter left can no longer be completed.      *)
CompletableWhileAwaited(id) == ledger[id].state = "running"

Completable(id) == ledger[id].dispatched /\ ~ledger[id].finished

-----------------------------------------------------------------------------
(* The engine thread at the local prompt.                                  *)

(* Start: the ledger forgets the previous server; the listener thread may  *)
(* give up at once (no event handle), which leaves running_ set.           *)
Start(write) ==
  /\ enginePc = "repl"
  /\ ~running
  /\ ~interrupted
  /\ enginePc' = "arm"
  /\ listener' \in {"receive", "off"}
  /\ running' = TRUE
  /\ stopRequested' = FALSE
  /\ events' = TRUE
  /\ allowWrite' = write
  /\ session' = FALSE
  /\ ledger' = [id \in Ids |-> Absent]
  /\ order' = 0
  /\ UNCHANGED <<engineJob, engineResult, disarms, waiting, reader,
                 interrupted, gateVars, queue, promise, historyVars>>

(* A Start that fails on the way runs Stop before it returns.              *)
StartFails ==
  /\ enginePc = "repl"
  /\ ~running
  /\ ~interrupted
  /\ stopRequested' = TRUE
  /\ allowWrite' \in BOOLEAN
  /\ session' = FALSE
  /\ ledger' = [id \in Ids |-> Absent]
  /\ order' = 0
  /\ UNCHANGED <<engineVars, listener, waiting, reader, running, interrupted,
                 events, gateVars, queue, promise, historyVars>>

(* The operator arms or disarms the local session by hand.                 *)
LocalWriteMode(write) ==
  /\ enginePc = "repl"
  /\ ~interrupted
  /\ armed' = write
  /\ lent' = FALSE
  /\ UNCHANGED <<engineVars, listener, waiting, reader, serverVars, session,
                 jobVars, historyVars>>

-----------------------------------------------------------------------------
(* RunMcpEngineLoop.                                                       *)

(* Mutant: a read-only server has nothing to arm, so it leaves the gate.   *)
ArmOnly ==
  /\ enginePc = "arm"
  /\ armed' = (armed \/ allowWrite)
  /\ lent' = TRUE
  /\ enginePc' = "loop"
  /\ reader' = "check"
  /\ UNCHANGED <<engineJob, engineResult, disarms, listener, waiting,
                 serverVars, session, jobVars, historyVars>>

(* The kernel gate takes the server's policy, or nothing is served.        *)
Arm ==
  /\ enginePc = "arm"
  /\ armed' = allowWrite
  /\ lent' = TRUE
  /\ enginePc' = "loop"
  /\ reader' = "check"
  /\ UNCHANGED <<engineJob, engineResult, disarms, listener, waiting,
                 serverVars, session, jobVars, historyVars>>

ArmFails ==
  /\ enginePc = "arm"
  /\ armed' \in {armed, allowWrite}
  /\ lent' = TRUE
  /\ enginePc' = "stop"
  /\ disarms' = TRUE
  /\ UNCHANGED <<engineJob, engineResult, listener, waiting, reader,
                 serverVars, session, jobVars, historyVars>>

(* The endpoint file cannot be written: the server stops before arming.    *)
EndpointFails ==
  /\ enginePc = "arm"
  /\ enginePc' = "stop"
  /\ disarms' = FALSE
  /\ UNCHANGED <<engineJob, engineResult, listener, waiting, reader,
                 serverVars, gateVars, session, jobVars, historyVars>>

LoopOrLeave ==
  /\ enginePc = "loop"
  /\ enginePc' = IF running /\ ~interrupted THEN "drain" ELSE "cancelReader"
  /\ UNCHANGED <<engineJob, engineResult, disarms, listener, waiting, reader,
                 serverVars, gateVars, session, jobVars, historyVars>>

(* TryPopJob has nothing to give: the engine waits for the event again.    *)
PopNothing ==
  /\ enginePc = "drain"
  /\ stopRequested \/ queue = <<>>
  /\ enginePc' = "loop"
  /\ UNCHANGED <<engineJob, engineResult, disarms, listener, waiting, reader,
                 serverVars, gateVars, session, jobVars, historyVars>>

(* TryPopJob pops the head and starts its record; a record that cannot     *)
(* start loses the job.                                                    *)
TryPopJob ==
  /\ enginePc = "drain"
  /\ ~stopRequested
  /\ queue # <<>>
  /\ queue' = Tail(queue)
  /\ LET id == Head(queue)
     IN  IF Pending(id)
         THEN /\ ledger' = [ledger EXCEPT ![id] = Started(@)]
              /\ engineJob' = id
              /\ runs' = [runs EXCEPT ![id] = @ + 1]
              /\ enginePc' = "exec"
         ELSE /\ enginePc' = "loop"
              /\ UNCHANGED <<ledger, engineJob, runs>>
  /\ UNCHANGED <<engineResult, disarms, listener, waiting, reader, serverVars,
                 gateVars, session, order, promise, kind, effects, answer>>

(* DispatchMcpRequest: the engine repeats the write policy for a tool that *)
(* the catalog marks as a write.                                           *)
Permitted(id) == kind[id] = "write" => allowWrite

(* ti.subscribe is a read in the catalog: its own handler refuses to start *)
(* or stop a capture for a read-only server.                               *)
SubscribePermitted(id) == kind[id] = "subscribe" => allowWrite

(* The driver has the last word on a write.                                *)
CanChange(id) ==
  /\ kind[id] # "read"
  /\ Permitted(id)
  /\ SubscribePermitted(id)
  /\ kind[id] = "write" => armed

(* A tool may fail, or throw, after it has changed the target.             *)
Dispatch(outcome) ==
  /\ enginePc = "exec"
  /\ (Permitted(engineJob) /\ SubscribePermitted(engineJob)) \/ outcome = "failed"
  /\ engineResult' = outcome
  /\ \/ UNCHANGED effects
     \/ /\ CanChange(engineJob)
        /\ effects' = effects \cup {engineJob}
  /\ enginePc' = "complete"
  /\ UNCHANGED <<engineJob, disarms, listener, waiting, reader, serverVars,
                 gateVars, session, jobVars, kind, runs, answer>>

(* CompleteJob: the first completion wins, also after the waiter left.     *)
CompleteJob ==
  /\ enginePc = "complete"
  /\ IF Completable(engineJob)
     THEN /\ ledger' = [ledger EXCEPT ![engineJob].state = engineResult,
                                      ![engineJob].finished = TRUE]
          /\ promise' = [promise EXCEPT ![engineJob] = engineResult]
     ELSE UNCHANGED <<ledger, promise>>
  /\ engineJob' = NoJob
  /\ engineResult' = "succeeded"
  /\ enginePc' = "drain"
  /\ UNCHANGED <<disarms, listener, waiting, reader, serverVars,
                 gateVars, session, queue, order, historyVars>>

-----------------------------------------------------------------------------
(* Leaving the loop: controlStop and CancelSynchronousIo are two calls, so *)
(* a reader between its check and its read misses the cancellation.        *)

ControlStop == enginePc \in Leaving

CancelReader ==
  /\ enginePc = "cancelReader"
  /\ reader' = IF reader = "read" THEN "none" ELSE reader
  /\ enginePc' = "joinReader"
  /\ disarms' = TRUE
  /\ UNCHANGED <<engineJob, engineResult, listener, waiting, serverVars,
                 gateVars, session, jobVars, historyVars>>

JoinReader ==
  /\ enginePc = "joinReader"
  /\ reader = "none"
  /\ enginePc' = "stop"
  /\ UNCHANGED <<engineJob, engineResult, disarms, listener, waiting, reader,
                 serverVars, gateVars, session, jobVars, historyVars>>

(* Stop: the stop flag, then the join, then what is left in the queue.     *)
Stop ==
  /\ enginePc = "stop"
  /\ stopRequested' = TRUE
  /\ running' = FALSE
  /\ enginePc' = "joinListener"
  /\ UNCHANGED <<engineJob, engineResult, disarms, listener, waiting, reader,
                 interrupted, events, allowWrite, gateVars, session, jobVars,
                 historyVars>>

(* Mutant: the listener is detached instead of joined.                     *)
DetachListener ==
  /\ enginePc = "joinListener"
  /\ enginePc' = "flush"
  /\ UNCHANGED <<engineJob, engineResult, disarms, listener, waiting, reader,
                 serverVars, gateVars, session, jobVars, historyVars>>

JoinListener ==
  /\ enginePc = "joinListener"
  /\ listener = "off"
  /\ enginePc' = "flush"
  /\ UNCHANGED <<engineJob, engineResult, disarms, listener, waiting, reader,
                 serverVars, gateVars, session, jobVars, historyVars>>

Queued == {queue[i] : i \in 1 .. Len(queue)}

StopFlush ==
  /\ enginePc = "flush"
  /\ queue' = <<>>
  /\ ledger' = [id \in Ids |-> IF id \in Queued /\ Pending(id)
                               THEN Cancelled(ledger[id]) ELSE ledger[id]]
  /\ promise' = [id \in Ids |-> IF id \in Queued /\ promise[id] = "none"
                                THEN "stopping" ELSE promise[id]]
  /\ events' = FALSE
  /\ session' = FALSE
  /\ enginePc' = IF disarms THEN "disarm" ELSE "repl"
  /\ disarms' = FALSE
  /\ UNCHANGED <<engineJob, engineResult, listener, waiting, reader,
                 running, stopRequested, interrupted, allowWrite, gateVars,
                 order, historyVars>>

(* Leaving the server must not leave the local session armed; a failed    *)
(* transition is reported, and the gate may be in either state.            *)
Disarm ==
  /\ enginePc = "disarm"
  /\ armed' = FALSE
  /\ lent' = FALSE
  /\ enginePc' = "repl"
  /\ UNCHANGED <<engineJob, engineResult, disarms, listener, waiting, reader,
                 serverVars, session, jobVars, historyVars>>

DisarmFails ==
  /\ enginePc = "disarm"
  /\ armed' \in {armed, FALSE}
  /\ lent' = FALSE
  /\ enginePc' = "repl"
  /\ UNCHANGED <<engineJob, engineResult, disarms, listener, waiting, reader,
                 serverVars, session, jobVars, historyVars>>

-----------------------------------------------------------------------------
(* The console thread.                                                     *)

ReaderCheck ==
  /\ reader = "check"
  /\ reader' = IF ControlStop THEN "none" ELSE "enter"
  /\ UNCHANGED <<engineVars, listener, waiting, serverVars, gateVars, session,
                 jobVars, historyVars>>

ReaderEnters ==
  /\ reader = "enter"
  /\ reader' = "read"
  /\ UNCHANGED <<engineVars, listener, waiting, serverVars, gateVars, session,
                 jobVars, historyVars>>

(* ReadConsoleW: a line ("off", or any other), or a failed read.           *)
ReadConsoleLine ==
  /\ reader = "read"
  /\ reader' \in {"off", "check", "none"}
  /\ UNCHANGED <<engineVars, listener, waiting, serverVars, gateVars, session,
                 jobVars, historyVars>>

(* RequestStop: the two flags, then the event, one after the other.        *)
RequestStop ==
  /\ reader = "off"
  /\ stopRequested' = TRUE
  /\ reader' = "stopping"
  /\ UNCHANGED <<engineVars, listener, waiting, running, interrupted, events,
                 allowWrite, gateVars, session, jobVars, historyVars>>

(* Mutant: running_ is left set.                                           *)
RequestStopHalf ==
  /\ reader = "stopping"
  /\ reader' = "none"
  /\ UNCHANGED <<engineVars, listener, waiting, serverVars, gateVars, session,
                 jobVars, historyVars>>

RequestStopEnds ==
  /\ reader = "stopping"
  /\ running' = FALSE
  /\ reader' = "none"
  /\ UNCHANGED <<engineVars, listener, waiting, stopRequested, interrupted,
                 events, allowWrite, gateVars, session, jobVars, historyVars>>

(* ConsoleHandler: Ctrl+C.                                                 *)
Interrupt ==
  /\ ~interrupted
  /\ interrupted' = TRUE
  /\ UNCHANGED <<engineVars, listener, waiting, reader, running,
                 stopRequested, events, allowWrite, gateVars, session,
                 jobVars, historyVars>>

-----------------------------------------------------------------------------
(* The listener thread, ListenerThreadMain and EnqueueAndWait.  A request  *)
(* that is refused (no session, writes disabled, stopping, queue or ledger *)
(* full, id in use) is answered and changes nothing.                       *)

Initialize ==
  /\ listener = "receive"
  /\ session' = TRUE
  /\ UNCHANGED <<engineVars, listener, waiting, reader, serverVars, gateVars,
                 jobVars, historyVars>>

Enqueue(id, k) ==
  /\ listener = "receive"
  /\ session
  /\ k = "write" => allowWrite
  /\ ~stopRequested
  /\ Len(queue) < MaxPending
  /\ kind[id] = "none"
  /\ Begin(id)
  /\ queue' = Append(queue, id)
  /\ kind' = [kind EXCEPT ![id] = k]
  /\ listener' = "wait"
  /\ waiting' = id
  /\ UNCHANGED <<engineVars, reader, serverVars, gateVars, session, promise,
                 runs, effects, answer>>

Ready(id) == promise[id] # "none"

Told(id) ==
  CASE promise[id] = "stopping"        -> "cancelled"
    [] promise[id] = "unknown_outcome" -> "unknown"
    [] OTHER                           -> "result"

Reply(told) ==
  /\ answer' = [answer EXCEPT ![waiting] = told]
  /\ listener' = "receive"
  /\ waiting' = NoJob
  /\ UNCHANGED <<engineVars, reader, serverVars, gateVars, session, order,
                 promise, kind, runs, effects>>

WaitReady ==
  /\ listener = "wait"
  /\ Ready(waiting)
  /\ Reply(Told(waiting))
  /\ UNCHANGED <<queue, ledger>>

(* Mutant: the wait has no deadline.                                       *)
WaitEndsOnStopOnly ==
  /\ listener = "wait"
  /\ ~Ready(waiting)
  /\ stopRequested
  /\ listener' = "expired"
  /\ UNCHANGED <<engineVars, waiting, reader, serverVars, gateVars, session,
                 jobVars, historyVars>>

(* The deadline has passed or the server stops; the lock is not held yet.  *)
WaitEnds ==
  /\ listener = "wait"
  /\ ~Ready(waiting)
  /\ listener' = "expired"
  /\ UNCHANGED <<engineVars, waiting, reader, serverVars, gateVars, session,
                 jobVars, historyVars>>

(* Under the lock: the result may have come, the job may still be queued.  *)
ResolveReady ==
  /\ listener = "expired"
  /\ Ready(waiting)
  /\ Reply(Told(waiting))
  /\ UNCHANGED <<queue, ledger>>

ResolveQueued ==
  /\ listener = "expired"
  /\ ~Ready(waiting)
  /\ \E i \in 1 .. Len(queue) :
       /\ queue[i] = waiting
       /\ queue' = [j \in 1 .. Len(queue) - 1 |->
                      IF j < i THEN queue[j] ELSE queue[j + 1]]
  /\ ledger' = IF Pending(waiting)
               THEN [ledger EXCEPT ![waiting] = Cancelled(@)]
               ELSE ledger
  /\ Reply("cancelled")

(* Mutant: every job whose wait ended is reported as cancelled.            *)
ResolveDispatchedCancels ==
  /\ listener = "expired"
  /\ ~Ready(waiting)
  /\ waiting \notin Queued
  /\ ledger' = [ledger EXCEPT ![waiting] = WaitEnded(@)]
  /\ Reply("cancelled")
  /\ UNCHANGED queue

ResolveDispatched ==
  /\ listener = "expired"
  /\ ~Ready(waiting)
  /\ waiting \notin Queued
  /\ ledger' = [ledger EXCEPT ![waiting] = WaitEnded(@)]
  /\ Reply("unknown")
  /\ UNCHANGED queue

ListenerExit ==
  /\ listener = "receive"
  /\ stopRequested
  /\ listener' = "off"
  /\ UNCHANGED <<engineVars, waiting, reader, serverVars, gateVars, session,
                 jobVars, historyVars>>

-----------------------------------------------------------------------------

Operator ==
  \/ \E write \in BOOLEAN : Start(write) \/ LocalWriteMode(write)
  \/ StartFails
  \/ Interrupt

Engine ==
  \/ Arm \/ ArmFails \/ EndpointFails
  \/ LoopOrLeave
  \/ PopNothing
  \/ TryPopJob
  \/ \E outcome \in Outcomes : Dispatch(outcome)
  \/ CompleteJob
  \/ CancelReader \/ JoinReader
  \/ Stop \/ JoinListener \/ StopFlush
  \/ Disarm \/ DisarmFails

Reader ==
  ReaderCheck \/ ReaderEnters \/ ReadConsoleLine \/ RequestStop \/ RequestStopEnds

Client == Initialize \/ \E id \in Ids, k \in Kinds : Enqueue(id, k)

Waiter ==
  WaitReady \/ WaitEnds \/ ResolveReady \/ ResolveQueued \/ ResolveDispatched

Next == Operator \/ Engine \/ Reader \/ Client \/ Waiter \/ ListenerExit

Spec == Init /\ [][Next]_vars

(* Threads are scheduled, a tool call returns (every one is bounded) and   *)
(* the 30 second deadline passes; no operator, client or console line is   *)
(* owed to anybody.                                                        *)
Fairness ==
  /\ WF_vars(Engine)
  /\ WF_vars(ReaderCheck \/ ReaderEnters \/ RequestStop \/ RequestStopEnds)
  /\ WF_vars(Waiter)
  /\ WF_vars(ListenerExit)

FairSpec == Spec /\ Fairness

-----------------------------------------------------------------------------
(* Properties.                                                             *)

Active(id) == id \in Retained /\ ~ledger[id].finished

(* A client told "cancelled before execution" may retry its mutation: the  *)
(* operation never ran, changed nothing, and is no longer in the queue     *)
(* (EnqueueAndWait against TryPopJob).                                     *)
CancelledNeverRuns ==
  \A id \in Ids :
    answer[id] = "cancelled" => runs[id] = 0 /\ id \notin effects \cup Queued

(* Nothing waits in the queue on behalf of nobody: a queued job is the one *)
(* the listener waits for, and its ledger record can still be started, so  *)
(* TryPopJob never loses a job (EnqueueAndWait, TryPopJob, Stop).          *)
QueuedIsAwaited ==
  \A id \in Queued :
    /\ listener \in {"wait", "expired"}
    /\ waiting = id
    /\ Pending(id)

(* operations.get never lies about execution: a finished outcome is the    *)
(* one the engine reported, "cancelled_before_execution" means it never    *)
(* ran, and a record that is not finished is queued or in the engine's     *)
(* hands, however late its completion comes.                               *)
LedgerTellsTheTruth ==
  \A id \in Retained :
    /\ ledger[id].dispatched <=> runs[id] = 1
    /\ ledger[id].dispatched /\ ledger[id].finished => promise[id] = ledger[id].state
    /\ ledger[id].state = "cancelled_before_execution" => runs[id] = 0
    /\ Active(id) => id \in Queued \/ engineJob = id

(* A thread that may still signal or wait on the server's events finds     *)
(* them open: Stop closes them after both joins (Stop, RunMcpEngineLoop).  *)
EventsOutliveThreads ==
  \/ listener # "off"
  \/ reader \in {"off", "stopping"}
  \/ enginePc \in Serving
  => events

(* The driver has one write gate for the session, used by the local prompt *)
(* and by every server the prompt starts.  While jobs are served the gate  *)
(* is the server's policy, whatever the operator had armed by hand before; *)
(* back at the prompt it is not armed by a server, whichever way the       *)
(* engine left (arming failed half way, "off", Ctrl+C), unless a disarm    *)
(* was reported as failed (RunMcpEngineLoop).                              *)
GateFollowsItsUser ==
  /\ enginePc \in Serving => armed = allowWrite
  /\ enginePc = "repl" /\ armed => ~lent

(* Neither eviction nor a restart of the server forgets an operation that  *)
(* is queued or running (McpOperationLedger::Begin, Start).                *)
ActiveIsRetained ==
  [][\A id \in Ids : Active(id) => ledger'[id].state # "absent"]_vars

(* The client-visible contract of McpOperations.                           *)
Phase(id) ==
  CASE id \in Queued                    -> "queued"
    [] engineJob = id                   -> "running"
    [] runs[id] > 0 /\ engineJob # id   -> "ended"
    [] kind[id] = "none"                -> "new"
    [] OTHER                            -> "dropped"

Operations == INSTANCE McpOperations
                WITH phase <- [id \in Ids |-> Phase(id)], told <- answer

ImplementsOperations == Operations!Spec

(* Whoever waits for a job is answered, by the deadline alone: not even a  *)
(* tool that never returns can hold the listener (EnqueueAndWait).         *)
WaiterIsAnswered ==
  \A id \in Ids : waiting = id ~> answer[id] # "none"

(* "off" takes the console back to the local prompt: no join waits for a   *)
(* thread that waits for the engine (RequestStop, Stop).                   *)
OffReturns == reader = "off" ~> enginePc = "repl"

(* An operation whose client left with "unknown" gets its final state in   *)
(* the ledger once the engine returns (WaitEnded, CompleteJob).            *)
UnknownSettles ==
  \A id \in Ids :
    (Active(id) /\ ledger[id].state = "unknown_outcome") ~> ~Active(id)

(* Ctrl+C lets the engine loop "notice the flag and tear down through      *)
(* normal paths" (ConsoleHandler).                                         *)
InterruptReturns ==
  interrupted /\ enginePc \in Serving ~> enginePc = "repl"

-----------------------------------------------------------------------------
(* The inductive invariant the safety properties follow from.              *)

(* One listener: the queue holds at most its job, which can be started.    *)
QueueInv ==
  /\ Len(queue) <= 1
  /\ queue # <<>> => /\ listener \in {"wait", "expired"}
                     /\ queue[1] = waiting
                     /\ Pending(waiting)

WaiterInv ==
  /\ listener \in {"wait", "expired"} <=> waiting # NoJob
  /\ waiting \in Ids => kind[waiting] # "none" /\ answer[waiting] = "none"

EngineInv ==
  /\ enginePc \in {"exec", "complete"} <=> engineJob # NoJob
  /\ engineJob \in Ids => /\ runs[engineJob] = 1
                          /\ engineJob \in Retained
                          /\ ledger[engineJob].dispatched
                          /\ ~ledger[engineJob].finished
                          /\ promise[engineJob] = "none"

LedgerOk(id) ==
  /\ id \notin Retained => ledger[id] = Absent
  /\ id \in Retained => (ledger[id].dispatched <=> runs[id] = 1)
  /\ id \in Retained /\ ~ledger[id].finished =>
       \/ ledger[id].dispatched /\ engineJob = id
       \/ ~ledger[id].dispatched /\ queue # <<>> /\ waiting = id
  /\ ledger[id].dispatched /\ ledger[id].finished => promise[id] = ledger[id].state
  /\ ledger[id].state = "cancelled_before_execution" =>
       runs[id] = 0 /\ ledger[id].finished

HistoryOk(id) ==
  /\ runs[id] \in {0, 1}
  /\ promise[id] # "stopping"
  /\ kind[id] = "none" => runs[id] = 0 /\ answer[id] = "none" /\ id \notin Retained
  /\ runs[id] = 1 => promise[id] # "none" \/ engineJob = id
  /\ runs[id] = 0 => promise[id] = "none" /\ id \notin effects
  /\ answer[id] = "cancelled" => runs[id] = 0

LedgerInv  == \A id \in Ids : LedgerOk(id)
HistoryInv == \A id \in Ids : HistoryOk(id)

ThreadInv ==
  /\ enginePc \in {"repl", "flush", "disarm"} => listener = "off"
  /\ reader # "none" => enginePc \in Serving \cup {"cancelReader", "joinReader"}
  /\ enginePc \notin {"repl", "disarm"} => events

(* A lent gate is taken back on every way out: Stop knows it has to.       *)
GateInv ==
  /\ GateFollowsItsUser
  /\ lent /\ enginePc \in {"joinReader", "stop", "joinListener", "flush"} => disarms
  /\ enginePc \in {"repl", "arm"} => ~lent

IInv ==
  /\ TypeOK
  /\ QueueInv
  /\ WaiterInv
  /\ EngineInv
  /\ LedgerInv
  /\ HistoryInv
  /\ ThreadInv
  /\ GateInv

(* A job that is awaited and no longer queued has been dispatched: "unknown" *)
(* is said of nothing else.                                                  *)
WaitedIsRun ==
  waiting \in Ids /\ queue = <<>> => runs[waiting] = 1

=============================================================================
