----------------------------- MODULE KmonIngest -----------------------------
(***************************************************************************)
(* How the events of the ETW subscriber reach the kernel monitor: the      *)
(* subscriber's ring and sessions (ThreatIntelSubscriber.cpp), the         *)
(* collector thread that reads the ring behind a cursor, the bounded queue *)
(* it fills, the analysis thread that empties the queue, and Stop, which   *)
(* freezes where the ring ends and takes over the work of both threads     *)
(* until nothing is left or its five seconds are over.                     *)
(*                                                                         *)
(* An event is its sequence number.  The ring holds consecutive sequences, *)
(* so it is the pair of its oldest one and the next one to be given.  What *)
(* the analysis makes of an event, the loss that ETW itself reports, the   *)
(* state that only health reports show and the wrap of the 64-bit sequence *)
(* are left out.  So is an exception in the collector's loop, for want of  *)
(* memory: it counts one loss for whatever page it ended                   *)
(* (KernelMonitorPipeline.cpp:273-276).  One thread, the engine, starts    *)
(* and stops both parts; the console's close handler, which stops them     *)
(* while the process is being ended, is left out too.                      *)
(***************************************************************************)
EXTENDS Integers, Sequences

CONSTANTS RingCapacity,    \* TiOptions.RingCapacity, 1048576
          QueueCapacity,   \* of CollectedTi, 2048
          CollectLimit,       \* events the collector takes at a time, 512
          DrainLimit,      \* events the analysis takes at a time, 512
          Attempts,        \* of KmonReadStableTiIngestPage, 3
          MaxSequence,     \* bound: events of the subscriber
          MaxGeneration    \* bound: starts of the subscriber

ASSUME IngestAssumption ==
  /\ {RingCapacity, QueueCapacity, CollectLimit, DrainLimit, Attempts} \subseteq Nat \ {0}
  /\ {MaxSequence, MaxGeneration} \subseteq Nat

VARIABLES
  \* the subscriber
  ringFirst,   \* the oldest sequence of Ring, or nextSeq when it is empty
  nextSeq,     \* NextRingSequence
  gen,         \* TraceLifecycle.Generation
  firstSeq,    \* TraceLifecycle.FirstSequence
  trace,       \* "off", "on", "exited" (ProcessTrace returned by itself),
               \* "closing" (StopLocked waits for the thread, with StateMutex
               \* held) or "closed" (the thread has ended)
  \* the monitor
  kmon,        \* "off", "on", "stopping" (StopRequested), "draining" or "ended"
  collector,   \* the collector thread runs
  worker,      \* the analysis thread runs
  tiGen,       \* TiTraceGeneration
  tiCursor,    \* TiCursorSequence
  tiQueue,     \* CollectedTi
  lost,        \* CollectionLost
  ingested,    \* TiIngested
  fence,       \* tiFence: the generation and the end of the ring at Stop
  unanalyzed,  \* ShutdownEventsUnanalyzed
  \* the producer, which is the collector and then Stop
  at,          \* "page", "sequence", "stats", "ingest" or "test"
  page,        \* the locals of KmonReadStableTiIngestPage
  \* history
  armed,       \* the latest sequence when the monitor started
  waived,      \* the events that the code passes without counting them
  taken        \* the events put in the queue, in order

subscriberVars == <<ringFirst, nextSeq, gen, firstSeq, trace>>
lifeVars == <<kmon, collector, worker, fence, unanalyzed, armed>>
cursorVars == <<tiGen, tiCursor, lost, waived, taken>>
workVars == <<tiQueue, ingested>>
ingestVars == <<subscriberVars, lifeVars, cursorVars, workVars, at, page>>

Least(a, b) == IF a < b THEN a ELSE b
Greatest(a, b) == IF a < b THEN b ELSE a
WithoutFirst(s, n) == SubSeq(s, Least(n, Len(s)) + 1, Len(s))
\* The sequence <<a, a + 1, ..., b>>.
FromTo(a, b) == [k \in 1 .. b - a + 1 |-> a + k - 1]

\* Records first to last, and Snapshot.LatestAssignedSequence.
Request(generation, cursor, room, attempt) ==
  [gen |-> generation, cursor |-> cursor, room |-> room, attempt |-> attempt,
   latest |-> 0, missing |-> 0, first |-> 1, last |-> 0]
NoPage == Request(0, 0, 0, 0)

IngestInit ==
  /\ ringFirst = 1 /\ nextSeq = 1 /\ gen = 0 /\ firstSeq = 0 /\ trace = "off"
  /\ kmon = "off" /\ collector = FALSE /\ worker = FALSE
  /\ tiGen = 0 /\ tiCursor = 0 /\ tiQueue = << >>
  /\ lost = 0 /\ ingested = 0 /\ unanalyzed = 0
  /\ fence = [gen |-> 0, last |-> 0]
  /\ at = "page" /\ page = NoPage
  /\ armed = 0 /\ waived = 0 /\ taken = << >>

(***************************************************************************)
(* The subscriber                                                          *)
(***************************************************************************)
\* The engine thread is between two commands.
EngineFree == kmon \in {"off", "on", "ended"} /\ trace \notin {"closing", "closed"}

\* TiSubscriber::Start.  An attempt that fails later has made a generation too.
NewGeneration ==
  /\ EngineFree /\ trace \in {"off", "exited"} /\ gen < MaxGeneration
  /\ gen' = gen + 1 /\ firstSeq' = nextSeq
  /\ UNCHANGED <<ringFirst, nextSeq, lifeVars, cursorVars, workVars, at, page>>
TiStart == NewGeneration /\ trace' = "on"
TiStartFails == NewGeneration /\ trace' = "off"

\* The ETW callback numbers the event and puts it in the ring, which drops its
\* oldest when it is full.
RecordKeep ==
  /\ trace \in {"on", "closing"} /\ nextSeq <= MaxSequence
  /\ nextSeq' = nextSeq + 1
  /\ ringFirst' = Greatest(ringFirst, nextSeq + 1 - RingCapacity)
  /\ UNCHANGED <<gen, firstSeq, trace, lifeVars, cursorVars, workVars, at, page>>

\* ProcessTrace returns, because the session died or because it was closed.
ProcessTraceReturns ==
  /\ trace \in {"on", "closing"}
  /\ trace' = IF trace = "on" THEN "exited" ELSE "closed"
  /\ UNCHANGED <<ringFirst, nextSeq, gen, firstSeq, lifeVars, cursorVars, workVars, at, page>>

\* StopLocked, up to the join of the thread and after it.
TiStop ==
  /\ EngineFree /\ trace = "on" /\ trace' = "closing"
  /\ UNCHANGED <<ringFirst, nextSeq, gen, firstSeq, lifeVars, cursorVars, workVars, at, page>>
TiStopEnds ==
  /\ trace = "closed" /\ trace' = "off"
  /\ UNCHANGED <<ringFirst, nextSeq, gen, firstSeq, lifeVars, cursorVars, workVars, at, page>>

\* TiSubscriber::Clear keeps the numbering.
TiClear ==
  /\ EngineFree /\ ringFirst # nextSeq
  /\ ringFirst' = nextSeq
  /\ UNCHANGED <<nextSeq, gen, firstSeq, trace, lifeVars, cursorVars, workVars, at, page>>

(***************************************************************************)
(* The monitor starts, and its analysis                                    *)
(***************************************************************************)
\* KernelMonitor::Start skips what arrived before it.  The command has started
\* the subscriber first; its session may have died since.
KmonStartAfter(sequence) ==
  /\ EngineFree /\ kmon # "on" /\ trace # "off"
  /\ kmon' = "on" /\ collector' = TRUE /\ worker' = TRUE
  /\ tiGen' = gen /\ tiCursor' = sequence /\ tiQueue' = << >>
  /\ lost' = 0 /\ ingested' = 0 /\ unanalyzed' = 0
  /\ armed' = nextSeq - 1 /\ waived' = 0 /\ taken' = << >>
  /\ UNCHANGED <<subscriberVars, fence, at, page>>

\* A plausible slip: the cursor starts at zero, and the ring is read again.
KmonStartFromZero == KmonStartAfter(0)

KmonStart == KmonStartAfter(nextSeq - 1)

\* IngestThreatIntel, in the analysis thread.
IngestThreatIntel ==
  /\ worker /\ tiQueue # << >>
  /\ tiQueue' = WithoutFirst(tiQueue, DrainLimit)
  /\ ingested' = ingested + Least(DrainLimit, Len(tiQueue))
  /\ UNCHANGED <<subscriberVars, lifeVars, cursorVars, at, page>>

(***************************************************************************)
(* CollectTiPage, for the collector or for Stop                            *)
(***************************************************************************)
Draining == kmon = "draining"
StateMutexFree == trace \notin {"closing", "closed"}
\* What follows the page: the collector looks at StopRequested and begins
\* again, Stop analyzes.
AfterPage == IF Draining THEN "ingest" ELSE "page"

\* Room for a page; a full queue keeps the events upstream.
TiRoom == Least(CollectLimit, QueueCapacity - Len(tiQueue))

CollectTiPage ==
  /\ at = "page"
  /\ Draining \/ (collector /\ kmon = "on")
  /\ IF TiRoom = 0 \/ (Draining /\ tiCursor >= fence.last)
     THEN at' = AfterPage /\ UNCHANGED page
     ELSE /\ at' = "sequence"
          /\ page' = Request(tiGen, tiCursor, TiRoom, 0)
  /\ UNCHANGED <<subscriberVars, lifeVars, cursorVars, workVars>>

\* A plausible slip: the cursor of the old session is used on the new one.
RestartedAtCursor ==
  /\ gen # page.gen
  /\ page' = Request(gen, page.cursor, page.room, page.attempt + 1)
  /\ at' = IF page.attempt + 1 = Attempts THEN AfterPage ELSE "sequence"

\* A generation that is not the one asked for: begin again where it began.
Restarted ==
  /\ gen # page.gen
  /\ page' = Request(gen, firstSeq - 1, page.room, page.attempt + 1)
  /\ at' = IF page.attempt + 1 = Attempts THEN AfterPage ELSE "sequence"

\* SnapshotTiSequenceRange: what the ring still has after the cursor.
SnapshotTiSequenceRange(p) ==
  LET first == Greatest(p.cursor + 1, ringFirst)
  IN [p EXCEPT !.latest = nextSeq - 1,
               !.missing = IF p.cursor = 0 THEN 0 ELSE first - 1 - p.cursor,
               !.first = first,
               !.last = Least(first + p.room - 1, nextSeq - 1)]

ReadSequence ==
  /\ at = "sequence" /\ StateMutexFree
  /\ \/ Restarted
     \/ gen = page.gen /\ at' = "stats" /\ page' = SnapshotTiSequenceRange(page)
  /\ UNCHANGED <<subscriberVars, lifeVars, cursorVars, workVars>>

\* A plausible slip: the page is taken whole.
Unfenced(p) == p

\* Stop cuts a page off at the sequence it froze.
Fenced(p) ==
  [p EXCEPT !.latest = Least(@, fence.last), !.last = Least(@, fence.last),
            !.missing = Least(@, fence.last - p.cursor)]

\* What a page passes without a count.  When the session has changed, what the
\* old one had after the cursor: a page of the new one begins where it began.
\* And what precedes the first event that a cursor of zero sees.
Uncounted(p) ==
  (IF p.gen = tiGen THEN 0 ELSE firstSeq - 1 - tiCursor)
  + (IF p.cursor = 0 /\ p.first <= p.last THEN p.first - 1 ELSE 0)

\* The page and the statistics agree on the generation: take the events.
Commit(p) ==
  LET records == FromTo(p.first, p.last)
      room == QueueCapacity - Len(tiQueue)
      admitted == SubSeq(records, 1, Least(room, Len(records)))
      ahead == p.cursor > p.latest
  IN /\ tiGen' = p.gen
     /\ tiCursor' = IF records # << >> THEN p.last
                    ELSE IF ahead \/ p.missing # 0 THEN p.latest ELSE p.cursor
     /\ lost' = lost + p.missing + IF ahead THEN 1 ELSE 0
     /\ tiQueue' = tiQueue \o admitted
     /\ taken' = taken \o admitted
     /\ waived' = waived + Uncounted(p)

ReadStats ==
  /\ at = "stats" /\ StateMutexFree
  /\ \/ Restarted /\ UNCHANGED <<cursorVars, tiQueue>>
     \/ /\ gen = page.gen /\ at' = AfterPage /\ page' = NoPage
        /\ IF ~Draining THEN Commit(page)
           ELSE IF page.gen = fence.gen /\ page.cursor <= fence.last THEN Commit(Fenced(page))
           ELSE UNCHANGED <<cursorVars, tiQueue>>
  /\ UNCHANGED <<subscriberVars, lifeVars, ingested>>

(***************************************************************************)
(* KernelMonitor::Stop                                                     *)
(***************************************************************************)
StopBegins ==
  /\ EngineFree /\ kmon = "on" /\ kmon' = "stopping"
  /\ UNCHANGED <<subscriberVars, collector, worker, fence, unanalyzed, armed,
                 cursorVars, workVars, at, page>>
CollectorEndsIf(handedOver) ==
  /\ collector /\ kmon = "stopping" /\ at = "page" /\ handedOver
  /\ collector' = FALSE
  /\ UNCHANGED <<subscriberVars, kmon, worker, fence, unanalyzed, armed,
                 cursorVars, workVars, at, page>>
\* A plausible slip: the collector first waits for its queue to be emptied.
CollectorEndsEmpty == CollectorEndsIf(tiQueue = << >>)
CollectorEnds == CollectorEndsIf(TRUE)

WorkerEnds ==
  /\ worker /\ kmon = "stopping"
  /\ worker' = FALSE
  /\ UNCHANGED <<subscriberVars, kmon, collector, fence, unanalyzed, armed,
                 cursorVars, workVars, at, page>>

\* Both threads are joined: freeze where the ring ends.
FreezeTail ==
  /\ kmon = "stopping" /\ ~collector /\ ~worker
  /\ kmon' = "draining" /\ at' = "test"
  /\ fence' = [gen |-> gen, last |-> nextSeq - 1]
  /\ UNCHANGED <<subscriberVars, collector, worker, unanalyzed, armed, cursorVars, workVars, page>>

\* A turn of the loop: a page, then the analysis of what is in the queue.
DrainTurn ==
  /\ at = "test"
  /\ tiQueue # << >> \/ tiCursor < fence.last
  /\ at' = "page"
  /\ UNCHANGED <<subscriberVars, lifeVars, cursorVars, workVars, page>>
DrainIngest ==
  /\ at = "ingest" /\ at' = "test"
  /\ tiQueue' = WithoutFirst(tiQueue, DrainLimit)
  /\ ingested' = ingested + Least(DrainLimit, Len(tiQueue))
  /\ UNCHANGED <<subscriberVars, lifeVars, cursorVars, page>>

\* No work is left or the five seconds are over.  What is in the queue is
\* written down as it is; what is upstream is counted.
StopFinishes ==
  /\ at = "test"
  /\ kmon' = "ended" /\ at' = "page"
  /\ unanalyzed' = Len(tiQueue) + Greatest(0, fence.last - tiCursor)
  /\ tiQueue' = << >>
  /\ UNCHANGED <<subscriberVars, collector, worker, fence, armed, cursorVars, ingested, page>>

Subscriber == TiStart \/ TiStartFails \/ RecordKeep \/ ProcessTraceReturns
              \/ TiStop \/ TiStopEnds \/ TiClear
Producer == CollectTiPage \/ ReadSequence \/ ReadStats
Stop == \/ StopBegins \/ CollectorEnds \/ WorkerEnds \/ FreezeTail
        \/ DrainTurn \/ DrainIngest \/ StopFinishes

IngestNext == Subscriber \/ KmonStart \/ IngestThreatIntel \/ Producer \/ Stop

IngestSpec == IngestInit /\ [][IngestNext]_ingestVars

\* Threads run.  The trace of a stopped session returns.  Five seconds pass.
\* Nothing is assumed of commands or of events.
Fairness ==
  /\ WF_ingestVars(Producer) /\ WF_ingestVars(IngestThreatIntel)
  /\ WF_ingestVars(CollectorEnds) /\ WF_ingestVars(WorkerEnds) /\ WF_ingestVars(FreezeTail)
  /\ WF_ingestVars(DrainTurn \/ StopFinishes) /\ WF_ingestVars(DrainIngest) /\ SF_ingestVars(StopFinishes)
  /\ WF_ingestVars(trace = "closing" /\ ProcessTraceReturns) /\ WF_ingestVars(TiStopEnds)

IngestFairSpec == IngestSpec /\ Fairness

(***************************************************************************)
(* Properties                                                              *)
(***************************************************************************)
IngestTypeOK ==
  /\ {ringFirst, nextSeq} \subseteq Nat \ {0}
  /\ {gen, firstSeq, tiGen, tiCursor, lost, ingested, unanalyzed, armed, waived} \subseteq Nat
  /\ trace \in {"off", "on", "exited", "closing", "closed"}
  /\ kmon \in {"off", "on", "stopping", "draining", "ended"}
  /\ {collector, worker} \subseteq BOOLEAN
  /\ tiQueue \in Seq(Nat) /\ taken \in Seq(Nat)
  /\ fence \in [gen : Nat, last : Nat]
  /\ at \in {"page", "sequence", "stats", "ingest", "test"}
  /\ page \in [gen : Nat, cursor : Nat, room : Nat, attempt : 0 .. Attempts,
               latest : Nat, missing : Nat, first : Nat, last : Nat]

\* However the ring is overwritten or cleared and the session restarted, no
\* event is handed to the analysis twice or out of order, and none that arrived
\* before the monitor was started (KernelMonitor.cpp:8521-8548, 199-229).
OnceInOrder ==
  /\ \A i, j \in DOMAIN taken : i < j => taken[i] < taken[j]
  /\ \A i \in DOMAIN taken : taken[i] > armed

\* Of the events since the start, each that the cursor has passed was put in the
\* queue, counted as lost, or is of one of two kinds that the code does not
\* count: what an ended session still had after the cursor when a page of a new
\* one was taken (KernelMonitor.cpp:205-221, 9545-9555), and what precedes the
\* first event that a cursor of zero sees (ThreatIntelSubscriber.cpp:419-421).
\* A full queue, an overwritten or a cleared ring and a restart between the two
\* reads of a page lose no other (KernelMonitor.cpp:9482-9591).
GapsAreCounted == Len(taken) + lost + waived = tiCursor - armed

FeedPhase == CASE kmon = "stopping" -> "on" [] kmon = "draining" -> "frozen" [] OTHER -> kmon
Feed == INSTANCE LossyFeed WITH
  emitted <- nextSeq - 1, session <- gen, first <- firstSeq, phase <- FeedPhase,
  following <- tiGen, passed <- tiCursor,
  analyzed <- ingested, end <- fence.last, left <- unanalyzed

\* To the analysis all this is one lossy feed: threads, pages that begin again
\* when the session changed between their two reads, a full queue and Stop's
\* taking over change nothing of it (KernelMonitor.cpp:199-229, 8521-8548,
\* 8803-8887, 9482-9591).
ImplementsFeed == Feed!Spec

\* When Stop has ended, every event from the start to the end that it froze has
\* been analyzed, counted as lost, counted as left unanalyzed or is of the two
\* kinds that are passed uncounted (see GapsAreCounted), and no later one was
\* taken (KernelMonitor.cpp:8835-8887).
StopAccountsForTail ==
  kmon = "ended" =>
    /\ ingested + lost + unanalyzed + waived = fence.last - armed
    /\ tiCursor <= fence.last

\* The collector reaches every event that stays in the ring unless the monitor
\* is stopped, and then the stop ends: no full queue, restart or held lock keeps
\* it from there (KernelMonitorPipeline.cpp:217-277, KernelMonitor.cpp:8803-8858).
SourceIsFollowed ==
  \A s \in 1 .. MaxSequence :
    (kmon \in {"on", "stopping", "draining"} /\ s < nextSeq)
      ~> (kmon = "ended" \/ tiCursor >= s \/ s < ringFirst)

-------------------------------------------------------------------------------
(* The inductive invariant *)

\* The ring, its session and the cursor: what the cursor's session does not
\* hold yet began after the cursor.
RingOk ==
  /\ ringFirst <= nextSeq /\ firstSeq <= nextSeq
  /\ tiGen <= gen /\ tiCursor < nextSeq
  /\ tiGen < gen => tiCursor < firstSeq
  /\ armed <= tiCursor

\* Which threads there are, and who is the producer.
ThreadsOk ==
  /\ collector \/ worker => kmon \in {"on", "stopping"}
  /\ at \in {"ingest", "test"} => kmon = "draining"
  /\ at # "page" => collector \/ kmon = "draining"
  /\ kmon = "on" => collector

\* A page that was read: its records follow what is missing after its cursor.
PageFits(p) ==
  /\ p.cursor <= p.latest /\ p.latest < nextSeq
  /\ p.cursor < p.first /\ p.last <= p.latest /\ p.last - p.first < p.room
  /\ p.first <= p.latest => p.first <= p.last
  /\ p.missing = IF p.cursor = 0 THEN 0 ELSE Least(p.first - 1, p.latest) - p.cursor

\* A page in hand goes on from the cursor, or from where a later session began.
PageOk ==
  /\ at \in {"sequence", "stats"} =>
       /\ tiGen <= page.gen /\ page.gen <= gen
       /\ tiCursor <= page.cursor /\ page.cursor < nextSeq
       /\ page.gen = tiGen => page.cursor = tiCursor
       /\ 0 < page.room /\ page.room + Len(tiQueue) <= QueueCapacity
       /\ page.attempt < Attempts
  /\ at = "stats" => PageFits(page)

\* What was taken is in the queue or analyzed, and not past the cursor.
QueueOk ==
  /\ Len(tiQueue) <= QueueCapacity
  /\ kmon # "ended" => ingested + Len(tiQueue) = Len(taken)
  /\ \A i \in DOMAIN taken : taken[i] <= tiCursor

FenceOk == kmon \in {"draining", "ended"} => tiCursor <= fence.last

\* A page that begins again begins where its session began.
FreshOk ==
  at \in {"sequence", "stats"} /\ page.gen = gen /\ page.gen # tiGen => page.cursor = firstSeq - 1

CollectionOk ==
  /\ IngestTypeOK /\ RingOk /\ ThreadsOk /\ PageOk /\ QueueOk /\ FenceOk
  /\ OnceInOrder /\ GapsAreCounted /\ StopAccountsForTail

\* FreshOk tells how much of an ended session a page passes.
IngestInv == CollectionOk /\ FreshOk

=============================================================================
