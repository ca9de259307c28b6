----------------------------- MODULE KmonCapture -----------------------------
(***************************************************************************)
(* The capture pipeline of the kernel monitor (KernelMonitorPipeline.cpp): *)
(* QueueCapture admits a request under its key, CaptureLoop reads it page  *)
(* by page, taking turns between new requests and continued ones, and      *)
(* CaptureWriterLoop writes the pages within the session's byte budget.    *)
(* Stop ends the threads in order.                                         *)
(*                                                                         *)
(* A page is one unit of the budget.  The clock is left out: whether a     *)
(* continuation is late enough to borrow a turn is a choice, and so is the *)
(* moment the shutdown deadline expires.  A request that CandidateCaptures *)
(* turns away is one that nobody makes here.  The writer's other work,     *)
(* the evidence bundles, is left out.                                      *)
(***************************************************************************)
EXTENDS Integers, Sequences, FiniteSets

CONSTANTS Keys,            \* the keys of requests: identity, address, role
          KernelKeys,      \* those at kernel addresses
          Pages,           \* the pages of a request
          FirstLimit,      \* capacity of PriorityCaptures, 256
          ContinuedLimit,  \* of ContinuedCaptures, 256
          PageLimit,       \* of CapturedPages, 512
          EventLimit,      \* of PipelineEvents, 512
          Gate,            \* CaptureLoop waits at this many pages, 384
          ImmediateGate,   \* or this many with a page of its quantum left, 388
          EventGate,       \* CaptureWriterLoop waits at this many events, 384
          Budget,          \* pages that one session writes, 256 MB
          Burst,           \* KmonFirstCaptureBurstLimit, 8
          Quantum,         \* pages of a kernel request in one turn, 4
          MaxDirect        \* bound: pages a session's analysis hands over itself

ASSUME KeysAssumption == KernelKeys \subseteq Keys /\ Pages \in [Keys -> Nat \ {0}]
ASSUME LimitsAssumption ==
  /\ {FirstLimit, ContinuedLimit, PageLimit, EventLimit} \subseteq Nat \ {0}
  /\ {Gate, ImmediateGate, EventGate, Budget, Burst, Quantum} \subseteq Nat \ {0}
  /\ MaxDirect \in Nat

VARIABLES
  stop,       \* "running", "asked" (StopRequested), "ending" (the loops of the
              \* producers have seen it), "joined", "captures"
              \* (CaptureStopping), "writer" (WriterStopping) or "stopped"
  expired,    \* CaptureStopDeadlineMs has passed
  keys,       \* CapturedKeys
  asking,     \* keys between QueueCapture's insertion and its Push
  first,      \* PriorityCaptures
  continued,  \* ContinuedCaptures
  pc,         \* CaptureLoop: "top", "pick", "check", "read", "finish" or "done"
  work,       \* the request in its hands, or <<>>
  immediate,  \* the request whose quantum goes on, or <<>>
  quantum,    \* quantumPages
  late,       \* shutdownExpired, as read at the top of the loop
  seen,       \* whether PriorityCaptures had anything when Timing looked
  firstBurst, \* KmonCapturePicker
  last,
  bypassed,   \* history: first requests that the last continuation went before
  pages,      \* the number of CapturedPages
  direct,     \* how many of the session's pages came from QueueCapturedBytes
  events,     \* the number of PipelineEvents
  writer,     \* CaptureWriterLoop: "top", "reserve", "write", "report" or "done"
  allowed,    \* the page in its hands has its bytes reserved
  bytes,      \* CapturedBytes, in pages
  files       \* files of the session on disk

stopVars   == <<stop, expired>>
queueVars  == <<keys, asking, first, continued>>
workerVars == <<pc, work, immediate, quantum, late, seen, firstBurst, last, bypassed>>
writerVars == <<writer, allowed, bytes, files>>
vars == <<stopVars, queueVars, workerVars, pages, direct, events, writerVars>>

Requests == [key : Keys, offset : Nat]
AtMostOne(s, S) == s \in Seq(S) /\ Len(s) <= 1

TypeOK ==
  /\ stop \in {"running", "asked", "ending", "joined", "captures", "writer", "stopped"}
  /\ expired \in BOOLEAN
  /\ asking \subseteq keys /\ keys \subseteq Keys
  /\ first \in Seq(Requests) /\ Len(first) <= FirstLimit
  /\ continued \in Seq(Requests) /\ Len(continued) <= ContinuedLimit
  /\ pc \in {"top", "pick", "check", "read", "finish", "done"}
  /\ AtMostOne(work, Requests) /\ AtMostOne(immediate, Requests)
  /\ quantum \in 0 .. Quantum
  /\ late \in BOOLEAN /\ seen \in BOOLEAN
  /\ firstBurst \in 0 .. Burst
  /\ last \in {"none", "first", "continued"}
  /\ bypassed \subseteq Keys
  /\ pages \in 0 .. PageLimit /\ direct \in 0 .. MaxDirect /\ events \in 0 .. EventLimit
  /\ writer \in {"top", "reserve", "write", "report", "done"}
  /\ allowed \in BOOLEAN
  /\ bytes \in 0 .. Budget /\ files \in 0 .. Budget

\* A session as ResetPipeline and Start leave it.
Init ==
  /\ stop = "running" /\ expired = FALSE
  /\ keys = {} /\ asking = {} /\ first = <<>> /\ continued = <<>>
  /\ pc = "top" /\ work = <<>> /\ immediate = <<>> /\ quantum = 0
  /\ late = FALSE /\ seen = FALSE
  /\ firstBurst = 0 /\ last = "none" /\ bypassed = {}
  /\ pages = 0 /\ direct = 0 /\ events = 0
  /\ writer = "top" /\ allowed = FALSE /\ bytes = 0 /\ files = 0

-------------------------------------------------------------------------------
(* The producers: the collector and the analysis thread, and after them    *)
(* Stop, which classifies what they left                                   *)

Producing ==
  \/ stop \in {"running", "asked"}
  \/ stop = "joined" /\ asking = {}

\* QueueCapture takes the key under CapturesMutex.
Ask(k) ==
  /\ Producing
  /\ bytes < Budget
  /\ k \notin keys
  /\ keys' = keys \cup {k}
  /\ asking' = asking \cup {k}
  /\ UNCHANGED <<stopVars, first, continued, workerVars, pages, direct, events,
                 writerVars>>

\* Mutant: a request that the full queue refuses keeps its key.
EnqueueLeaks(k) ==
  /\ k \in asking
  /\ asking' = asking \ {k}
  /\ IF Len(first) < FirstLimit
       THEN first' = Append(first, [key |-> k, offset |-> 0])
       ELSE UNCHANGED first
  /\ UNCHANGED <<stopVars, keys, continued, workerVars, pages, direct, events,
                 writerVars>>

\* It queues the request after that, and gives the key back if it cannot.
Enqueue(k) ==
  /\ k \in asking
  /\ asking' = asking \ {k}
  /\ \/ /\ Len(first) < FirstLimit
        /\ first' = Append(first, [key |-> k, offset |-> 0])
        /\ UNCHANGED keys
     \/ /\ Len(first) >= FirstLimit
        /\ keys' = keys \ {k}
        /\ UNCHANGED first
  /\ UNCHANGED <<stopVars, continued, workerVars, pages, direct, events,
                 writerVars>>

QueueCapturedBytes ==
  /\ Producing
  /\ direct < MaxDirect
  /\ pages < PageLimit
  /\ pages' = pages + 1
  /\ direct' = direct + 1
  /\ UNCHANGED <<stopVars, queueVars, workerVars, events, writerVars>>

\* DrainPipelineEvents: the analysis thread's, then that of Stop.
Drain ==
  /\ stop \in {"running", "joined", "captures", "writer"}
  /\ events > 0
  /\ events' = 0
  /\ UNCHANGED <<stopVars, queueVars, workerVars, pages, direct, writerVars>>

Emitted == IF events < EventLimit THEN events + 1 ELSE events

-------------------------------------------------------------------------------
(* CaptureLoop *)

CaptureStopping == stop \in {"captures", "writer", "stopped"}

Open(gate) == (CaptureStopping /\ expired) \/ pages < gate

LeaveLoop ==
  /\ pc = "top"
  /\ CaptureStopping
  /\ immediate = <<>> /\ first = <<>> /\ continued = <<>>
  /\ pc' = "done"
  /\ UNCHANGED <<stopVars, queueVars, work, immediate, quantum, late, seen,
                 firstBurst, last, bypassed, pages, direct, events, writerVars>>

\* The next page of the quantum.
Resume ==
  /\ pc = "top"
  /\ immediate # <<>>
  /\ Open(ImmediateGate)
  /\ late' = (CaptureStopping /\ expired)
  /\ work' = immediate
  /\ immediate' = <<>>
  /\ quantum' = quantum + 1
  /\ pc' = "check"
  /\ UNCHANGED <<stopVars, queueVars, seen, firstBurst, last, bypassed, pages,
                 direct, events, writerVars>>

\* PriorityCaptures.Timing, before ContinuedCaptures.Timing and the picking.
Sample ==
  /\ pc = "top"
  /\ immediate = <<>>
  /\ first # <<>> \/ continued # <<>>
  /\ Open(Gate)
  /\ late' = (CaptureStopping /\ expired)
  /\ seen' = (first # <<>>)
  /\ quantum' = 1
  /\ pc' = "pick"
  /\ UNCHANGED <<stopVars, queueVars, work, immediate, firstBurst, last,
                 bypassed, pages, direct, events, writerVars>>

\* Mutant: no limit to a burst of first requests.
TurnOfFirstUnlimited == seen

\* KmonCapturePicker::Pick.  A continuation may be late enough to borrow a
\* turn, or not; after a full burst it is its turn.
TurnOfFirst == seen /\ (continued = <<>> \/ firstBurst < Burst)

TurnOfContinued ==
  /\ continued # <<>>
  /\ ~seen \/ firstBurst >= Burst \/ last # "continued"

DispatchFirst ==
  /\ pc = "pick"
  /\ TurnOfFirst
  /\ work' = <<Head(first)>>
  /\ first' = Tail(first)
  /\ firstBurst' = IF firstBurst < Burst THEN firstBurst + 1 ELSE Burst
  /\ last' = "first"
  /\ bypassed' = {}
  /\ seen' = FALSE
  /\ pc' = "check"
  /\ UNCHANGED <<stopVars, keys, asking, continued, immediate, quantum, late,
                 pages, direct, events, writerVars>>

DispatchContinued ==
  /\ pc = "pick"
  /\ TurnOfContinued
  /\ work' = <<Head(continued)>>
  /\ continued' = Tail(continued)
  /\ firstBurst' = 0
  /\ last' = "continued"
  /\ bypassed' = {first[i].key : i \in 1 .. Len(first)}
  /\ seen' = FALSE
  /\ pc' = "check"
  /\ UNCHANGED <<stopVars, keys, asking, first, immediate, quantum, late, pages,
                 direct, events, writerVars>>

\* The byte budget, and what is left of the time to shut down.
CheckBudget ==
  /\ pc = "check"
  /\ IF bytes < Budget /\ ~late
       THEN pc' = "read" /\ UNCHANGED <<late, quantum>>
       ELSE pc' = "finish" /\ late' = FALSE /\ quantum' = 0
  /\ UNCHANGED <<stopVars, queueVars, work, immediate, seen, firstBurst, last,
                 bypassed, pages, direct, events, writerVars>>

\* After a page: the same turn goes on, the request queues again, or it ends.
Rotate(r, fatal) ==
  LET goesOn == ~fatal /\ r.offset < Pages[r.key]
      stays  == goesOn /\ r.key \in KernelKeys /\ quantum < Quantum /\ ~late
      queues == goesOn /\ ~stays /\ Len(continued) < ContinuedLimit
  IN  /\ pc' = IF stays \/ queues THEN "top" ELSE "finish"
      /\ work' = IF stays \/ queues THEN <<>> ELSE <<r>>
      /\ immediate' = IF stays THEN <<r>> ELSE <<>>
      /\ quantum' = IF stays THEN quantum ELSE 0
      /\ late' = FALSE
      /\ continued' = IF queues THEN Append(continued, r) ELSE continued

NextPage == [work[1] EXCEPT !.offset = @ + 1]

\* The page is read and there is room for it.
ReadPage ==
  /\ pc = "read"
  /\ pages < PageLimit
  /\ pages' = pages + 1
  /\ Rotate(NextPage, FALSE)
  /\ UNCHANGED <<stopVars, keys, asking, first, seen, firstBurst, last,
                 bypassed, direct, events, writerVars>>

\* It cannot be read, or its identity or mapping changed (fatal), or the full
\* queue refuses it (fatal).
MissPage ==
  /\ pc = "read"
  /\ \E fatal \in BOOLEAN : Rotate(NextPage, fatal)
  /\ events' = Emitted
  /\ UNCHANGED <<stopVars, keys, asking, first, seen, firstBurst, last,
                 bypassed, pages, direct, writerVars>>

\* finished: the result, and the key is free for a new request.
FinishRequest ==
  /\ pc = "finish"
  /\ events' = Emitted
  /\ keys' = keys \ {work[1].key}
  /\ work' = <<>>
  /\ pc' = "top"
  /\ UNCHANGED <<stopVars, asking, first, continued, immediate, quantum, late,
                 seen, firstBurst, last, bypassed, pages, direct, writerVars>>

-------------------------------------------------------------------------------
(* CaptureWriterLoop *)

WriterStopping == stop \in {"writer", "stopped"}

\* Mutant: the writer leaves as soon as it is told to.
LeaveWriterEarly ==
  /\ writer = "top"
  /\ WriterStopping
  /\ writer' = "done"
  /\ UNCHANGED <<stopVars, queueVars, workerVars, pages, direct, events,
                 allowed, bytes, files>>

\* The queue of pages is empty.
LeaveWriter ==
  /\ writer = "top"
  /\ WriterStopping
  /\ pages = 0
  /\ writer' = "done"
  /\ UNCHANGED <<stopVars, queueVars, workerVars, pages, direct, events,
                 allowed, bytes, files>>

TakePage ==
  /\ writer = "top"
  /\ pages > 0
  /\ pages' = pages - 1
  /\ writer' = "reserve"
  /\ UNCHANGED <<stopVars, queueVars, workerVars, direct, events, allowed,
                 bytes, files>>

Reserve ==
  /\ writer = "reserve"
  /\ allowed' = (bytes < Budget)
  /\ bytes' = IF bytes < Budget THEN bytes + 1 ELSE bytes
  /\ writer' = "write"
  /\ UNCHANGED <<stopVars, queueVars, workerVars, pages, direct, events, files>>

\* Mutant: a write that fails keeps its bytes.
WriteKeeps(written) ==
  /\ writer = "write"
  /\ written => allowed
  /\ files' = IF written THEN files + 1 ELSE files
  /\ allowed' = FALSE
  /\ writer' = "report"
  /\ UNCHANGED <<stopVars, queueVars, workerVars, pages, direct, events, bytes>>

\* The file is written and flushed, or deleted and its bytes given back.
Write(written) ==
  /\ writer = "write"
  /\ written => allowed
  /\ files' = IF written THEN files + 1 ELSE files
  /\ bytes' = IF allowed /\ ~written THEN bytes - 1 ELSE bytes
  /\ allowed' = FALSE
  /\ writer' = "report"
  /\ UNCHANGED <<stopVars, queueVars, workerVars, pages, direct, events>>

\* It waits for room among the events, unless Stop was requested.
Report ==
  /\ writer = "report"
  /\ stop # "running" \/ events < EventGate
  /\ events' = Emitted
  /\ writer' = "top"
  /\ UNCHANGED <<stopVars, queueVars, workerVars, pages, direct, allowed, bytes,
                 files>>

-------------------------------------------------------------------------------
(* Stop, and the next Start *)

Advance(from, to) ==
  /\ stop = from
  /\ stop' = to
  /\ UNCHANGED <<queueVars, workerVars, pages, direct, events, writerVars>>

RequestStop ==
  /\ Advance("running", "asked")
  /\ UNCHANGED expired

\* The collector and the analysis thread begin no further call.
LoopsEnd ==
  /\ Advance("asked", "ending")
  /\ UNCHANGED expired

\* The collector, the layout worker and the analysis thread are joined.
JoinProducers ==
  /\ Advance("ending", "joined")
  /\ asking = {}
  /\ UNCHANGED expired

StopCaptures ==
  /\ Advance("joined", "captures")
  /\ asking = {}
  /\ UNCHANGED expired

Expire ==
  /\ stop = "captures"
  /\ ~expired
  /\ expired' = TRUE
  /\ UNCHANGED <<stop, queueVars, workerVars, pages, direct, events,
                 writerVars>>

\* The capture thread has ended.
StopWriter ==
  /\ pc = "done"
  /\ Advance("captures", "writer")
  /\ UNCHANGED expired

EndStop ==
  /\ pc = "done"
  /\ writer = "done"
  /\ Advance("writer", "stopped")
  /\ UNCHANGED expired

\* The next session starts afresh.
Start ==
  /\ stop = "stopped"
  /\ stop' = "running" /\ expired' = FALSE
  /\ keys' = {} /\ asking' = {} /\ first' = <<>> /\ continued' = <<>>
  /\ pc' = "top" /\ work' = <<>> /\ immediate' = <<>> /\ quantum' = 0
  /\ late' = FALSE /\ seen' = FALSE
  /\ firstBurst' = 0 /\ last' = "none" /\ bypassed' = {}
  /\ pages' = 0 /\ direct' = 0 /\ events' = 0
  /\ writer' = "top" /\ allowed' = FALSE /\ bytes' = 0 /\ files' = 0

Next ==
  \/ \E k \in Keys : Ask(k) \/ Enqueue(k)
  \/ QueueCapturedBytes \/ Drain
  \/ LeaveLoop \/ Resume \/ Sample \/ DispatchFirst \/ DispatchContinued
  \/ CheckBudget \/ ReadPage \/ MissPage \/ FinishRequest
  \/ LeaveWriter \/ TakePage \/ Reserve \/ Report
  \/ \E written \in BOOLEAN : Write(written)
  \/ RequestStop \/ LoopsEnd \/ JoinProducers \/ StopCaptures \/ Expire
  \/ StopWriter \/ EndStop \/ Start

Worker ==
  \/ LeaveLoop \/ Resume \/ Sample \/ DispatchFirst \/ DispatchContinued
  \/ CheckBudget \/ ReadPage \/ MissPage \/ FinishRequest

Writer ==
  \/ LeaveWriter \/ TakePage \/ Reserve \/ Report
  \/ \E written \in BOOLEAN : Write(written)

Stopper == LoopsEnd \/ JoinProducers \/ StopWriter \/ EndStop

Spec == Init /\ [][Next]_vars

\* The threads run and calls return, and the producers' loops see that Stop
\* was requested.  Stop's own draining ends after fifteen seconds, whatever it
\* still admits: hence the strong fairness.  Nobody has to call Stop, or Start
\* again, and the deadline may pass or not.
FairSpec ==
  /\ Spec
  /\ WF_vars(Worker) /\ WF_vars(Writer) /\ WF_vars(Stopper) /\ SF_vars(StopCaptures)
  /\ WF_vars(Drain)
  /\ \A k \in Keys : WF_vars(Enqueue(k))

-------------------------------------------------------------------------------
(* Properties *)

Places(k) ==
  Cardinality({i \in 1 .. Len(first) : first[i].key = k})
  + Cardinality({i \in 1 .. Len(continued) : continued[i].key = k})
  + (IF k \in asking THEN 1 ELSE 0)
  + (IF work # <<>> /\ work[1].key = k THEN 1 ELSE 0)
  + (IF immediate # <<>> /\ immediate[1].key = k THEN 1 ELSE 0)

\* A key is taken exactly while one request holds it: no request is read twice
\* at a time, and none is lost with its key still taken, which would turn away
\* every later request for that address (CapturedKeys against the queues).
InFlightOnce == \A k \in Keys : Places(k) = IF k \in keys THEN 1 ELSE 0

\* The bytes charged to the session are those of its files and of the one page
\* being written: failures are given back and nothing exceeds the budget
\* (CaptureWriterLoop's reservation).
BytesAreFiles ==
  /\ bytes = files + (IF allowed THEN 1 ELSE 0)
  /\ bytes <= Budget

\* A continuation never goes twice in a row before the same waiting first
\* request (the picker's promise, kept although the queues are sampled one
\* after the other).
TurnsAlternate ==
  [][pc = "pick" /\ Len(continued') < Len(continued) => bypassed = {}]_vars

\* Every admitted request ends and frees its key, whatever arrives meanwhile.
RequestsEnd == \A k \in Keys : k \in keys ~> k \notin keys

\* Stop returns, whether or not the deadline passes: neither thread is left
\* waiting for the other (the gates of the two loops and the order of the
\* joins), and no request and no page is left behind.
StopEnds == stop # "running" ~> stop = "stopped" /\ keys = {} /\ pages = 0

\* The safety half of StopEnds, for any deadline: when Stop has returned, no
\* request holds a key and no page is waiting to be written.
NothingIsLeft == stop = "stopped" => keys = {} /\ pages = 0

\* When the parts of the fairness can go on.
CanWork ==
  \/ /\ pc = "top"
     /\ \/ immediate # <<>> /\ Open(ImmediateGate)
        \/ immediate = <<>> /\ (first # <<>> \/ continued # <<>>) /\ Open(Gate)
        \/ immediate = <<>> /\ first = <<>> /\ continued = <<>> /\ CaptureStopping
  \/ pc = "pick" /\ (TurnOfFirst \/ TurnOfContinued)
  \/ pc \in {"check", "read", "finish"}

CanWrite ==
  \/ writer = "top" /\ (pages > 0 \/ WriterStopping)
  \/ writer \in {"reserve", "write"}
  \/ writer = "report" /\ (stop # "running" \/ events < EventGate)

CanStop ==
  \/ stop = "asked"
  \/ stop \in {"ending", "joined"} /\ asking = {}
  \/ stop = "captures" /\ pc = "done"
  \/ stop = "writer" /\ pc = "done" /\ writer = "done"

CanDrain == stop \in {"running", "joined", "captures", "writer"} /\ events > 0

\* Neither the gates nor the order of the joins can bring everything to a
\* standstill: while a request, a page or a Stop is unfinished, a thread of the
\* pipeline or the analysis has a step to take.
PipelineCanMove ==
  keys # {} \/ pages > 0 \/ stop \notin {"running", "stopped"} =>
    CanWork \/ CanWrite \/ CanStop \/ CanDrain \/ asking # {}

-------------------------------------------------------------------------------
(* The inductive invariant behind InFlightOnce, BytesAreFiles and          *)
(* TurnsAlternate                                                          *)

Held(s)     == {s[i].key : i \in 1 .. Len(s)}
Distinct(s) == \A i, j \in 1 .. Len(s) : s[i].key = s[j].key => i = j

\* The request in hand, and the quantum that goes on, against the loop's place.
WorkOk ==
  /\ (work # <<>>) = (pc \in {"check", "read", "finish"})
  /\ pc # "top" => immediate = <<>>
  /\ immediate # <<>> => quantum < Quantum
  /\ stop \in {"writer", "stopped"} => pc = "done"

\* A continuation that went before waiting first requests was the last to go,
\* and they still wait.
PickerOk ==
  /\ last # "continued" => bypassed = {}
  /\ last = "continued" => firstBurst = 0
  /\ bypassed # {} => first # <<>>
  /\ pc = "pick" /\ bypassed # {} => seen
  /\ pc = "pick" /\ seen => first # <<>>

BytesOk ==
  /\ BytesAreFiles
  /\ allowed => writer = "write"

\* The five places a request can be in share no key.
KeysOk ==
  /\ Distinct(first) /\ Distinct(continued)
  /\ keys = asking \cup Held(first) \cup Held(continued) \cup Held(work)
            \cup Held(immediate)
  /\ asking \cap (Held(first) \cup Held(continued) \cup Held(work)
                  \cup Held(immediate)) = {}
  /\ Held(first) \cap (Held(continued) \cup Held(work) \cup Held(immediate)) = {}
  /\ Held(continued) \cap (Held(work) \cup Held(immediate)) = {}
  /\ Held(work) \cap Held(immediate) = {}

IInv == TypeOK /\ WorkOk /\ PickerOk /\ BytesOk /\ KeysOk

\* How far the threads are while Stop goes on: beside IInv, for NothingIsLeft
\* and PipelineCanMove.
EndingOk ==
  /\ CaptureStopping => asking = {}
  /\ pc = "done" => /\ CaptureStopping
                    /\ first = <<>> /\ continued = <<>> /\ immediate = <<>>
  /\ writer = "done" => WriterStopping /\ pages = 0
  /\ stop = "stopped" => writer = "done"
  /\ pc = "pick" => seen \/ continued # <<>>
===============================================================================
