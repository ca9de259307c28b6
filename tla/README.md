# kn-live-dbg: a TLA+ model of the debugger's concurrent core

kn-live-dbg is a live Windows kernel debugger: a WDM driver (`driver/`), a large user-mode console
program (`user/`), and a minifilter fixture (`minifilter_fixture_driver/`) that the hunters are tested
against. Most of its 300,000 lines read and format kernel data, one command at a time. What can go
wrong between two actors is concentrated in a few places, and these modules are about those places.

## Inventory

| part | state it keeps | operations | interacts with | modules |
|---|---|---|---|---|
| MCP server (`user/McpServer.cpp`), operation ledger (`user/McpOperation.h`), engine loop (RunMcpEngineLoop of `user/main.cpp`) | job queue, ledger, promises, stop flags, session, write policy | initialize, tools/call, operations.get, pop and complete a job, stop, start | listener, console reader and engine threads; the driver's write gate | `McpServer`, `McpOperations` |
| Remote operator server (`user/RemoteServer.cpp`, RunRemoteEngineLoop) | one session, job queue, busy flag, lockouts | accept, auth, command, cancel, write off, disconnect, stop | the same three threads, one client | `RemoteServer`, `RemoteCommands` |
| Driver controller (`driver/Driver.cpp`) | owner, open handles, closing flag, write gate | create, close, write mode, timeline start and stop, unload | timeline and I/O trace collectors, notify routines | `DriverController`, `ControllerLease` |
| Driver timeline (`driver/Driver.cpp`) | event ring, numbering, drop counters | start, clear, push, drain | notify routines at high IRQL | `TimelineRing`, `EventLog` |
| Driver I/O trace (`driver/Driver.cpp`) | hooked dispatch slot, original pointer, active count | arm, disarm, trampoline | the I/O manager, the target driver | `IoTrace`, `TraceContract` |
| Fixture pending I/O (`minifilter_fixture_driver/PendingIo.cpp`) | arm, operations and their references, worker queue, topology | arm, hold, resume, release, exits, teardown, stop | filter manager callbacks, worker, port clients | `PendingIo`, `HeldRequests` |
| Fixture managed callbacks (`ManagedCallbacks.cpp`) | enabled and draining masks, rundowns, owner | pause, resume, bodies, exit, stop | the create callbacks, port clients | `ManagedCallbacks`, `PausableBodies` |
| KMON capture pipeline (`user/KernelMonitorPipeline.cpp`, `user/KmonCaptureScheduling.h`, `user/KmonWorkQueue.h`) | four bounded queues, keys in flight, byte budget | ask, read pages in turns, write files, stop | analysis, capture thread, writer thread | `KmonCapture` |
| KMON event collection (`user/KernelMonitor.cpp`, `user/KernelMonitorPipeline.cpp`) and the ETW subscriber (`user/ThreatIntelSubscriber.cpp`) | ring and sessions; cursor, queue, loss counts | start, stop, clear, read a page, analyze, drain | ETW callback, collector, analysis and engine threads | `KmonIngest`, `LossyFeed` |
| Timeline and evidence stores, KMON rules, scanners, symbols, output | files, graphs | publish, page, decode, format | console commands | none, see "Not modelled" |

Hard behaviours, by place: an answer given to a client while its job changes hands (MCP, remote); a
stop that joins a thread that waits for the stopper; a ledger, ring or queue at its limit; collectors
that outlive their controller; a hook removed while a call is inside it; a reference count dropped by
six parties; a sweep that an operation escapes; a rundown that is waited for and used again; requests
that starve each other; a cursor on a source that is restarted, cleared or overwritten between two
reads. PROJECT.json lists these hazards at their lines, with the properties that would catch them.

How the parts meet: the two servers' engine loops and the local prompt are one thread, so `McpServer` and
`RemoteServer` never run at once and share only the write gate, a variable of each. `DriverController`
takes the trace as one step. That is justified by a contract between the two, `TraceContract`: `IoTrace`
implements it step by step, and `DriverController` uses the trace in no other way. What is in the ring it
leaves to `TimelineRing`. `PendingIo` and `ManagedCallbacks` are unloaded by the same routine, each with
its own lock. `KmonIngest` is upstream of the analysis and `KmonCapture` downstream of it; KMON's Stop
runs them one after the other, first the drain of `KmonIngest` and then the end of `KmonCapture`.

## Runs

| run | module, cfg | distinct states | question |
|---|---|---|---|
| `mcp` | `McpServer` | 174,000 | may a client believe what it is told about a call, and is it told at all? |
| `mcp_interrupt` | `McpServer`, `McpServerInterrupt.cfg` | violation | does Ctrl+C always tear the server down? |
| `timeline_ring` | `TimelineRing` | 108,000 | is the ring a bounded log that loses only its oldest events, and counts them? |
| `iotrace_safety` | `IoTrace` | 394,000 | what does the active count protect, and does unload end? |
| `iotrace_race` | `IoTrace`, `IoTraceRace.cfg` | violation | does it protect the call target, as its comment says? |
| `driver_controller` | `DriverController` | 103,000 | do collectors stop with their owner, all of them, and nobody else's? |
| `remote` | `RemoteServer` | 434,000 | does a command run at most once and only for a waiting client, and do clients, "off" and "write off" end? |
| `pending_safety` | `PendingIo` | 1,450,000 | does any order of six parties lose, double or free an operation in use? |
| `pending_live` | `PendingIo`, `PendingIoLive.cfg` | 113,000 | does every held request go on, and does unload end clean? |
| `managed` | `ManagedCallbacks` | 14,000 | is a paused callback quiet, owned, and unload free of deadlock? |
| `capture` | `KmonCapture` | 178,000 | is each request taken once, served at last, and its bytes accounted for? |
| `ingest` | `KmonIngest` | 499,000 | what does the feed lose uncounted, and does it keep up? |

A run has one question and one configuration; safety and liveness are in one run where the state space
allows it. All runs but `remote` and `timeline_ring` switch deadlock checking off: those systems stop
(the driver is unloaded, the program has been interrupted), or every bound of the instance is used up.

## MCP server

`McpServer` has the three threads of the code as program counters (`enginePc`, `listener`, `reader`).
One action is one critical section of `queueMutex_`, or one step outside it where another thread can be
seen. The listener serves one request at a time, as `ListenerThreadMain` does, so a request that is
refused changes nothing and is not an action. HTTP framing, authentication and the catalog are not
modelled; of a tool the model keeps what its write gates look at (`Kinds`): a tool the catalog marks as a
write is refused by the listener, then by `DispatchMcpRequest` (`Permitted`), then by the driver; start
and stop of `ti.subscribe`, a read in the catalog, by that tool's own handler (`SubscribePermitted`).

| code | model |
|---|---|
| `queue_`, `operations_`, `ResultPromise` | `queue`, `ledger` and `order`, `promise` |
| `running_`, `stopRequested_`, `g_StopRequested` | `running`, `stopRequested`, `interrupted` |
| `stopEvent_`, `jobReadyEvent_` | `events` (open or closed) |
| `EnqueueAndWait` | `Enqueue`, `WaitReady`, `WaitEnds`, `ResolveReady`, `ResolveQueued`, `ResolveDispatched` |
| `TryPopJob`, `CompleteJob`, `DispatchMcpRequest` | `TryPopJob`, `PopNothing`, `CompleteJob`, `Dispatch` |
| `RequestStop`, `Stop` | `RequestStop`, `RequestStopEnds`; `Stop`, `JoinListener`, `StopFlush` |
| `RunMcpEngineLoop` | `Arm` ... `Disarm` |
| `SetWriteMode` of the prompt and of the engine | `armed`; `lent` remembers that a server set it last |

`McpOperations` is the contract of one operation as its client sees it: it runs at most once, a client
told "cancelled" may retry, "unknown" is said only of an operation that was dispatched, "result" only of
one that has ended. `McpServer` implements it, an operation's `phase` being computed from the queue, the
engine and the history.

Bounds of `mcp`: two operations, a ledger and a queue of one, calls whose tool is in the read catalog and
yet acts. One record makes every second admission evict or be refused; two operations give a late
completion and a new waiter at once; and a server may be started and stopped any number of times, with
the local session armed or not. A write call adds nothing to these races. `mcp_interrupt` needs one
operation.

Fairness: threads that can run do; the 30-second deadline passes; a dispatched tool returns. Nothing is
assumed of operators, clients or console lines. `WaiterIsAnswered` does not need the tool to return.

Proved (`McpServer_proofs`): `IInv` is inductive. Its core is that with one listener the queue is empty
or holds exactly the waiter's job with a startable record (`QueueInv`), that an unfinished record is
that job or the engine's (`LedgerOk`), and that history agrees (`HistoryOk`). From it follow the safety
properties, that no operation in flight loses its record (`ActiveStaysRetained`), and, with
`WaitedIsRun` (what is awaited and not queued was dispatched), that the server refines `McpOperations`
(`KeepsContract`). The driver has one write gate for the session, which the local prompt and every
server use in turn. `GateFollowsItsUser` says that neither sees the other's setting (a session armed by
hand before `mcp on`, an arming that fails half way, `off` and Ctrl+C), except after a disarm that is
reported as failed; it is inductive with what each state on the way out still owes (`GateInv`).

## Remote operator server

`RemoteServer` has the same three threads. The listener accepts, authenticates and serves one
connection at a time and waits in `EnqueueAndWait` for the engine; the console reader takes "off",
"disconnect" and "write off" from the serving machine's operator.

| code | model |
|---|---|
| `queue_`, `ResultPromise`, `commandInFlight_` | `queue`, `job`, `promise`, `inFlight`; `told` is what the client got |
| `sessionSock_`, the socket `DisconnectSession` took | `session`, `dropping` |
| `HandleClient` | `Accept`, `ProbeFails`, `Register`, `AuthRefused`, `AuthFails`, `AuthSucceeds`, `SessionOver`, `Leave`, `CloseConn` |
| `EnqueueAndWait` | `Submit`, `Cancel`, `ResultReady`, `GiveUp` |
| `failCounts_`, `globalFails_` | `fails`, `globalFails` |
| `RunRemoteEngineLoop` | `LoopOrLeave`, `Wake`, `TryPopJob`, `PopNothing`, `Execute`, `CancelReader`, `JoinReader` |
| its reader | `ReaderCheck`, `ReadOther`, `ReadOff`, `ReadDisconnect`, `ReadWriteOff`, `ReadFails`, `ReaderTakes`, `ReaderShuts` |
| `RequestStop`, `Stop` | `ReaderTakes`, `ReaderShuts`; `Stop`, `CloseListening`, `JoinListener` |

Socket handles are values that the operating system uses again, which is what `Handles` with one
element makes happen. A command may leave the write gate open or closed. Framing, time limits and
completion requests are left out: they end a connection, which `PeerLeaves` does anyway.

`RemoteCommands` is what the server promises, without threads, connections and queue: a client waits for
at most one command, a command is begun at most once, one at a time and only while its client waits, and
what the client is told is true. `ImplementsCommands` maps its phases to `job`, its client to `waiting`.

Bounds of `remote`: two commands, two connections (`MaxSerial`) through one handle, and lockouts after
one failure. So a session ends, another begins with the same socket and submits the second command while
the engine is still at the first one, which nobody waits for any more. Peers are told apart only by the
lockouts, which the proofs cover for any number, so the run has one.

The reader's state `read` is "in the console read, or on the way to it", so `CancelReader` may end the
read or miss it, as at `main.cpp:53162`. A loop left by Ctrl+C or by a refused "write off" has `running_`
still set; when the cancel was missed, the join waits for a line, commands are still admitted and nobody
runs them. `ClientsEnd` excepts exactly that state (`CancelMissed`); `OffReturns` says that any line then
brings the engine back. See "Divergences".

Fairness: each thread runs, commands return, waits with a deadline end. Nothing is assumed of clients, of
the operator or of console lines. `WriteOffIsServed` holds because commands are finitely many (each of `Jobs` once): the
engine pops until its queue is empty before it looks at the note again, so a client that never pauses
could delay the note without bound (`main.cpp:53062`), and no document promises one. The property says
by name that an engine which leaves its loop first loses the note, see "Divergences".

Proved (`RemoteServer_proofs`): `IInv` is inductive, every safety invariant follows, and from it each step
is a step of `RemoteCommands` or leaves its variables alone (`KeepsPromise`). `JobsOk` is its
core: the queue holds at most the waiter's own job, and a job's state says where it is. `LockoutHolds`
proves the lockouts (`RemoteServer.cpp:866`) for all limits, and is not a property of the run.
`NoWaitIsForgotten` is the half of `ClientsEnd` that needs no fairness: whenever a client waits for a
command (`WaiterIsCaredFor`), its answer is there, or the engine runs it or will look at the queue that
holds it (or is on its way out and has yet to stop), or the server has stopped or the session was cut,
which end the wait. It needs `WaitedOk`
beside `IInv`.

## Driver: timeline ring

`TimelineRing` is the ring under `g_KnDbgTimelineLock`, one action per critical section; its contract is
`EventLog`, a bounded sequence that loses its oldest events and numbers them. Slots, head and wrap are
`ring`, `head`, `count`; `Kept` is the refinement mapping.

Bounds: capacities 3 and 4 (the smallest for which the three-quarter pressure rule and the wrap at
different heads both happen), and requests that are defaulted, raised to the minimum and cut to the
maximum, with up to 8 events between two clears, so the larger ring wraps twice. The counters' width
(64 bits) is not reached by any run of the driver and is not modelled.

Proved (`TimelineRing_proofs`) for all capacities: types, that every event is buffered, drained or
counted, that buffered numbers are consecutive, that noise evicts nothing, and that the ring implements
`EventLog`. The strengthening is `InRange`: without it a slot could be read outside the ring.

## Driver: I/O trace

`IoTrace` has arm, disarm and unload as the steps of the control lock's holder (`control`), and each
request in `KnDbgIotraceDispatch` as a program counter (`pc`): the read of the dispatch entry, the
increment, the read of the original, the call, the decrement, the return. The record ring is the
algorithm of `TimelineRing` without noise and is not repeated; `g_KnDbgIotraceArmed` is never read.

Bounds of `iotrace_safety`: three requests and two targets, so two requests can be inside while a third
is about to enter across a disarm and an arm of the other target. `UnloadEnds` assumes that threads run
and a traced driver's routine returns. `ImplementsTrace` is what the count gives: the trace keeps
`TraceContract`, where requests that are "in time" (counted before disarm's last look) go to the driver
that is traced then, which is let go only when they have ended. An arm takes effect when it has set the
pointers, before the swap of the entry, and a disarm with its last look at the count; requests that came
too late are no part of the contract. The comment claims more, and `iotrace_race` shows where: a request
that has read the entry and not yet counted itself is refused, or after another arm passed to another
driver. Two requests are enough for that, and symmetry is sound there, since the run has no liveness.

Proved (`IoTrace_proofs`): `IInv` is inductive for any callers and targets. `CountIsExact` makes "active
is zero" mean that nobody is inside, and `LookedOk` carries that across the rest of the disarm. From
`IInv` and `CountedAreProtected`, which is proved with it, follows the refinement
(`KeepsTraceContract`).

## Driver: controller

`DriverController` has the owner and its handles (`ownerPid`, `openCount`, `closing`), the steps of the
timeline's START and STOP under its control lock (`step`, `holder`), the three notify routines with the
threads inside them, and unload. The trace is one step: a disarm either releases the target or gives up
with the entry restored.

`ControllerLease` is what the driver promises a controlling process, without handles, locks and
callbacks: the driver is leased to one process at a time, collectors are on only under a lease, the next
lease begins only when nothing runs for the last one, and a STOP is answered only when no event is still
being written. `ImplementsLease` maps the lease to `ownerPid`, the collectors to `enabled` and the trace,
and the request being served to the holder of the control lock.

Bounds: three handles of two processes (one process can hold two, close one, and race its last close
against the other process) and two notify threads. Fairness: the holder of the control lock goes on,
closes and notify routines end. `OnlyOwnerStops` is the deep one: a close that is not the last stops
nobody's collectors, and the last one stops none of the next owner.

Proved (`DriverController_proofs`): `IInv`, and from it every safety property and `OnlyOwnerStops`.
`HolderOk` and `TimelineOk` say what the control lock's holder has done so far; `CountOk` ties the
count to the open handles, whose finiteness is an assumption on `Files`. On these rest the refinement
(`KeepsLease`), the use of the trace by its contract (`TraceIsUsedAsPromised`), and `CleanupsAreNeverStuck`:
while a last close or an unload is under way, it or whoever it waits for has a step to take. That is the
half of `CleanupsEnd` that needs no fairness: no order of closes and commands ends in a deadlock.

## Fixture: pending I/O

`PendingIo` holds back file requests on two filter instances until a client, an exit, a teardown or the
stop lets them go. One action is one critical section of `g_Lock`, or one call that leaves it: the
completion of a request that was held is a step of its own, because the request's post callback may run
inside it and free the operation (`tail` is what each thread has still to do of `FinishLogical` and
`DropReference`).

| code | model |
|---|---|
| `g_Owner`, `g_Target` and the armed fields, `TopologyGeneration` | `owner`, `arm`, `topology` |
| an operation's context, its reference count and wake reason | `op` (`refs`, `wake`, `released`, `live`) |
| `g_Work`, `g_WorkAvailable` | `queue`, `available` |
| port messages | `Connect`, `Disconnect`, `ArmOne`, `ArmBatch`, `Resume`, `Release`, `Reply`, `ClientExit` |
| pre-operation | `AdmitUpper`, `AdmitLower`, `AdmitFails`, `PassBy`, `QueuePre`, `LockFails`, `GoOn` |
| post-operation | `Complete`, `QueuePost`, `FinishPost`, `Leave`, `Drain` |
| worker | `Watch`, `Retire`, `Sense`, `WaitEnds`, `Take`, `NoWork`, `Decide`, `Settle`, `Finish`, `WorkerDrop`, `Done` |
| sweeps | `ReleaseOwner`, `ChangeTopology`, `TeardownStart`, `TargetExit`, `Stop` |

`HeldRequests` is what the file system is promised: a request is held at most once at a time, no further
one once the driver has been told to stop, and the driver has ended only when every one was given back.

Bounds: `pending_safety` has two operations, two requests (one of them a read, which may lack its
buffer), one target and client, the modes that use both instances, a batch of two and two topologies, so
a pair is claimed across a teardown and an operation of an earlier arm is still about. `pending_live` has
one operation and one request, held on its way down and up. Operations and requests are interchangeable
in the safety run, which uses symmetry.

Fairness of `pending_live`: threads run, the device completes, the filter manager ends what it began and
removes the instances after the join. `g_Control` is granted first come, first served, hence weak
fairness on `Reply`; the watcher's look at the target is enabled again and again between other work,
hence strong fairness on `Watch`.

Proved (`PendingIo_proofs`), for any operations, requests, processes and clients: `IInv`, of which
`RefsOk` (the count is the number of parties that still use the operation), `TailOk` (whoever is about
to drop a reference has one) and `UndoneOk` (what is held is in the worker's queue or hands, once) are
the core; that nobody uses a freed operation; that sweeps reach everything; that what is published is
current; and that the fixture implements `HeldRequests`. Of unload, the two halves of `UnloadEnds` that
need no fairness are proved with a second invariant, `UnloadOk`, beside `IInv` (`StageOk`: what each
stage of unload has behind it; `AbsentOk`: nobody is on an instance that is absent; `KeptOk`: an
operation that is allocated has someone who will free it). `UnloadLeavesNothing`: when the code goes, the
worker has ended, its queue is empty, no operation is allocated and no thread has a reference to drop.
`UnloadNeverStalls`: at each stage before, someone whom unload waits for can move (`UnloadCanMove`).

## Fixture: managed callbacks

`ManagedCallbacks` is the pause and resume of the bodies of the pre and post create callbacks.
`SetEnabled` is taken apart where it leaves the spin lock (`SetBegin`, `SetWait`, `SetTurn`, `SetEnd`),
since bodies enter and leave there; `control` is the holder of `g_Control` with what it has still to do,
which is how a reply that fails, a disconnect and an exit undo a pause (`ReleaseBy`, `Restore`). `closed`
are rundowns waited for and not initialized again: using one is what the masks must prevent.

Bounds: two bodies and two clients, so one client takes over from another that disconnects or exits with
a body still running. Fairness: the transition goes on, bodies leave, `g_Control` is granted first come,
first served, unload's steps are taken. A test hold only makes a callback last longer.

Proved (`ManagedCallbacks_proofs`), for any callers and clients: `IInv` (`SetOk`: what `SetEnabled` has
done so far; `BodiesOk`: whose rundown is held; `OwnerOk`: for whom), `PausedIsQuiet`, `PausedIsOwned`,
and that the module implements `PausableBodies` (`KeepsPromise`): once a pause has been confirmed no body
begins or is inside until a resume, whoever asked for it and however often the rundowns are used again.
Its auxiliary invariant is `SwitchOk`, who may switch at which stage of the driver.

## KMON: captures

`KmonCapture` has the analysis that asks for captures, the capture thread, the writer and Stop. A request
is a key with the pages it still wants; the picker of `KmonCaptureScheduling.h` is `firstBurst`, `last`
and the two turns; the queues are sampled one after the other, as `Timing` does.

| code | model |
|---|---|
| `PriorityCaptures`, `ContinuedCaptures`, `CapturedPages`, `PipelineEvents` | `first`, `continued`, `pages`, `events` |
| `CapturedKeys`, `CapturedBytes` | `keys`, `bytes` |
| `QueueCapture`, `QueueCapturedBytes` | `Ask` and `Enqueue`; `QueueCapturedBytes` |
| `KmonCapturePicker` | `Sample`, `TurnOfFirst`, `TurnOfContinued`, `DispatchFirst`, `DispatchContinued` |
| `CaptureLoop` | `Open`, `LeaveLoop`, `Resume`, `CheckBudget`, `ReadPage`, `MissPage`, `Rotate`, `FinishRequest` |
| `CaptureWriterLoop` | `TakePage`, `Reserve`, `Write`, `Report`, `LeaveWriter` |
| Stop | `RequestStop`, `LoopsEnd`, `JoinProducers`, `StopCaptures`, `Expire`, `StopWriter`, `EndStop` |

Bounds: two keys of three pages, one of them of the kernel; queue limits 1, 1, 2 and 2, a budget of two
pages, bursts and quanta of two, one direct page. Every queue and the budget fill up, a request is
rotated in the middle of its pages, and a continuation competes with first requests beyond a burst.

Fairness: the threads and Stop go on, the analysis that has inserted a key goes on to push it, events are
drained; the capture deadline may pass or not. Stop's own draining ends after fifteen seconds, whatever it
still admits, hence strong fairness on `StopCaptures`. The capture thread waits while many pages are to
be written (`KernelMonitorPipeline.cpp:481`), which direct pages without end could prolong: `MaxDirect`
bounds them in a session.

Proved (`Kmon_proofs`), for any keys, pages and limits: `IInv` (`WorkOk`, `PickerOk`, `BytesOk`,
`KeysOk`), `InFlightOnce`, `BytesAreFiles`, and that continuations never take two turns in a row from
first requests that already waited (`TurnsAlternate`), for any burst. Two theorems are about the end,
with `EndingOk` beside `IInv` (which threads and queues each stage of Stop has behind it):
`StopLeavesNothing` says that a stopped pipeline has no key in flight and no page to be written, and
`PipelineNeverStalls` that neither the gates of the loops nor the order of the joins bring everything to
a standstill before that. They are what `StopEnds` says without fairness.

## KMON: event collection

`KmonIngest` is the way of an event of the ETW subscriber into the analysis: its ring, which overwrites;
its sessions, which an operator ends and begins; the collector, which reads a page behind a cursor in
three looks at the subscriber (the loop of `KmonReadStableTiIngestPage`: ring, sequence, statistics) and
starts again if the session changed in between; the queue; and Stop, which takes over both threads'
work, freezes the end and accounts for what is left. `taken`, `armed` and `waived` are history.

`LossyFeed` is what the analysis may rely on, without ring, pages, queue and threads: each pass goes on
from the last one, or from where a new session began, and takes or counts as lost all that it covers; a
stopped run counts what it leaves. `ImplementsFeed` maps the feed's `passed` to the cursor and its `end`
to the frozen end; a page is one pass, at the step that commits it. The contract also names what is not
promised: events between two sessions, and those before the first one that a cursor of 0 sees.

Bounds: a ring and a queue of two, a page of two, one event per turn of the analysis, three events and
three sessions, two attempts at a page. Three events overwrite a ring of two; a page is read across a
restart until its attempts are used up; the queue is full with an event left upstream.

Fairness: threads run, a trace that is closed lets its `ProcessTrace` return, and the five seconds of
Stop's drain pass (strong fairness on `StopFinishes`, which the clock enables between other steps).
Nothing is assumed of commands or events.

Both accounts, `GapsAreCounted` for the cursor and `StopAccountsForTail` for the frozen end, begin at the
monitor's start and cover every event since: queued (or analyzed, or left unanalyzed), counted as lost,
or waived. `waived` counts the two kinds that the code passes without counting them: what an ended
session still had after the cursor when a page of a new one is taken, and what precedes the first event
that a cursor of 0 sees. It is taken from the subscriber's session and the page's first record, not
from where the page's cursor happens to be: a page that went on with the old session's cursor breaks the
account (`RestartedAtCursor`). An exception in the collector's loop is in neither account. All three are
under "Divergences".

Proved (`Kmon_proofs`): `IngestInv` is inductive for any capacities and limits (`RingOk`: the ring's
numbers; `ThreadsOk`: who runs when; `PageOk`: what the page in hand still says of the ring; `QueueOk`;
`FenceOk`: what Stop froze; `FreshOk`: a page of a session the cursor is not in begins where that session
began), and with it `GapsAreCounted`, `StopAccountsForTail` and `OnceInOrder`, and that each step is one
of `LossyFeed` or leaves it alone (`CollectionIsLossyFeed`).

Left out: the driver timeline's events, which take the same way with a simpler cursor, health reports,
the lost counts of ETW itself, and the handler of a closed console.

## Proofs in general

Every theorem is about `Spec`, without fairness, and uses only the ASSUMEs of the constants: names are
distinct from "none", limits are positive numbers, sets that are counted are finite. Each has the same
shape: `Init => IInv`, one lemma per action or group of actions for `IInv /\ [Next]_vars => IInv'`, and
the properties from `IInv`. The type invariants and all safety properties of the passing runs are proved,
with the action properties and the eight refinements: `EventLog`, `McpOperations`, `RemoteCommands`,
`HeldRequests`, `PausableBodies`, `ControllerLease`, `TraceContract` and `LossyFeed`. A refinement is
proved step by step: the initial states map to initial ones, and each action maps to one of the contract
or leaves its variables alone, from `IInv` and, where that is not enough, a small invariant beside it
that is proved in the same way from `IInv`.

Left to TLC: liveness, since temporal proofs under fairness need ENABLED, which the prover cannot treat;
and the two violations, which are traces. Where a liveness property has a half that needs neither, that
half is a theorem: nothing is left behind at the end, and nobody is stuck before it. "Can move" is then
written with the guards of the actions, which TLC has confirmed to be what ENABLED says in the states of
the runs. No such theorem is stated for `OffReturns` and for the end of `ManagedCallbacks`: there, that
someone can move follows from the shape of the program counters and would say nothing.

## Divergences

Two are runs, see PROJECT.json: `mcp_interrupt` (a reader between its check and its read misses the one
`CancelSynchronousIo`, so Ctrl+C waits for a console line) and `iotrace_race` (above). The following were
met while modelling and are not kept as runs:

- `Driver.cpp:1894`: a request that has counted itself out has still to return through the image, which
  unload may have freed; the comment at `Driver.cpp:3518-3519` says unload waits for that. The model has
  the step (`Return`, `Leave`).
- `RemoteServer.cpp:374`: `DisconnectSession` takes the handle under the lock and shuts it down outside;
  if the session ends and the next client gets the same handle in between, that client is cut instead of
  the one `docs/REMOTE_SETUP.md:83` means.
- `main.cpp:53162`: the remote loop has the missed cancel of `mcp_interrupt`, with more at stake: the
  server still counts as running, so a client's command is queued and not answered until a line is typed
  at the serving machine, the client leaves or its cancel removes the command. `CancelMissed` names it.
- `main.cpp:53035`: "write off" followed by "off" before the engine serves the note leaves the gate open,
  while `docs/REMOTE_SETUP.md:85` says that it stays off. `WriteOffIsServed` excepts it.
- `KernelMonitor.cpp:205-210` and `9533`: a new ETW session that starts before the collector took the
  tail of the old one moves the cursor to just before the new session's first number; the tail is neither
  analyzed nor counted (`docs/VALIDATION.md:604-605` and `docs/ARCHITECTURE.md:352-358` speak of counted
  losses). `waived` counts them.
- `ThreatIntelSubscriber.cpp:419`: a cursor of 0 claims no loss, so what was overwritten before the first
  page is not counted (`waived` again); and with cursor 0 and a cleared ring Stop's drain uses its whole five seconds and
  counts those events as unanalyzed.
- `KernelMonitorPipeline.cpp:282-286`: clearing the timeline store starts its ids at 1 again, so events
  whose new id is not above the cursor may be skipped without being counted. This is the path left out.
- `KernelMonitorPipeline.cpp:273-276`: an exception in the collector's loop (memory runs out) counts one
  loss, whatever the page held. The model has no exceptions, so neither account covers it.

Two hazards have no property: `Driver.cpp:1894`, above, and the window of `KmonWorkQueue.h:198`, which
belongs to the schedule of the analysis.

## Not modelled

PROJECT.json lists every part with its reason. The largest by far are the scanners, hunters, symbol and
output code and the evidence rules of KMON: 200,000 lines that decode what they have read, keep nothing
that outlives a command, and run beside nothing. They are why the map covers a small share of the lines:
what they compute is a matter of formats, which an abstraction would leave out. The driver's memory,
register and process requests read or write once under the gate that `DriverController` has. The stores
and bundles are written by one thread, the service and cloaking code is a sequence of operating system
calls, and fixtures other than the minifilter stage a situation and wait.

Of modelled parts, left out are HTTP and TCP framing, the MCP catalog and audit file, the record ring of
the I/O trace, evidence bundles and the suppression of repeated captures by generation, the failure
paths of DriverEntry and of KMON's Start, and the collection of timeline events.

## Plan

1. The collection of timeline events beside `KmonIngest`, with the store that is cleared under its cursor.
2. `KmonReferenceWindow`, with the analysis that refuses and resumes it.
3. Load and unload of the whole fixture over `PendingIo` and `ManagedCallbacks`, with the failure path of
   DriverEntry, and the console's close handler beside KMON's Stop. `HeldRequests` and `PausableBodies`
   are what such a module needs to know of the two.
