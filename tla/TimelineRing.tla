----------------------------- MODULE TimelineRing -----------------------------
(***************************************************************************)
(* The event ring of the driver's timeline (driver/Driver.cpp): every      *)
(* action is one critical section of g_KnDbgTimelineLock.  Which callbacks *)
(* push, and when the ring may be replaced or freed, is the business of    *)
(* DriverController; here pushes, clears, replacements and drains come in  *)
(* any order.  Of an event record the ring keeps its sequence number and   *)
(* whether it is thread noise.                                             *)
(***************************************************************************)
EXTENDS Integers, Sequences

CONSTANTS
  MinCapacity, MaxCapacity,   \* KNDBG_TIMELINE_MIN_CAPACITY and _MAX_
  DefaultCapacity,            \* KNDBG_TIMELINE_DEFAULT_CAPACITY
  Requests,                   \* capacities a START request may name
  MaxOffered                  \* bound: events offered between two clears

ASSUME CapacityAssumption ==
  /\ MinCapacity \in Nat \ {0}
  /\ MaxCapacity \in Nat
  /\ DefaultCapacity \in Nat
  /\ MinCapacity <= DefaultCapacity
  /\ DefaultCapacity <= MaxCapacity
ASSUME RequestsAssumption == Requests \subseteq Nat
ASSUME OfferedAssumption  == MaxOffered \in Nat

VARIABLES
  ring,          \* g_KnDbgTimelineRing, slots 0 .. capacity - 1
  capacity,      \* g_KnDbgTimelineCapacity, 0 before the first START
  head,          \* g_KnDbgTimelineHead, the slot written next
  count,         \* g_KnDbgTimelineCount
  dropped,       \* g_KnDbgTimelineDropped
  nextSequence,  \* g_KnDbgTimelineNextSequence
  reply,         \* Events of the last drain response
  offered,       \* history: events that reached the ring since it was cleared
  delivered      \* history: events drained since the ring was cleared

vars == <<ring, capacity, head, count, dropped, nextSequence, reply,
          offered, delivered>>

Records    == [noise : BOOLEAN, sequence : Nat]
Zeroed     == [noise |-> FALSE, sequence |-> 0]
Capacities == MinCapacity .. MaxCapacity

TypeOK ==
  /\ capacity \in Capacities \cup {0}
  /\ ring \in [0 .. capacity - 1 -> Records]
  /\ head \in Nat
  /\ count \in Nat
  /\ dropped \in Nat
  /\ nextSequence \in Nat \ {0}
  /\ reply \in Seq(Records)
  /\ offered \in Nat
  /\ delivered \in Nat

Init ==
  /\ capacity = 0
  /\ ring = [slot \in 0 .. capacity - 1 |-> Zeroed]
  /\ head = 0
  /\ count = 0
  /\ dropped = 0
  /\ nextSequence = 1
  /\ reply = <<>>
  /\ offered = 0
  /\ delivered = 0

-------------------------------------------------------------------------------
(* Operators of the code *)

Normalize(request) ==
  LET value == IF request = 0 THEN DefaultCapacity ELSE request
  IN  IF value < MinCapacity THEN MinCapacity
      ELSE IF value > MaxCapacity THEN MaxCapacity ELSE value

UnderPressure == count * 4 >= capacity * 3

Oldest == (head + capacity - count) % capacity

\* The slot of the i-th oldest event, i from 0.
SlotOf(i) ==
  IF Oldest + i >= capacity THEN Oldest + i - capacity ELSE Oldest + i

\* The i-th oldest event, i from 1.
Buffered(i) == ring[SlotOf(i - 1)]

Advance(slot) == IF slot + 1 >= capacity THEN 0 ELSE slot + 1

-------------------------------------------------------------------------------
(* Actions: the three outcomes of KnDbgTimelinePushEvent *)

DropNoise ==
  /\ capacity # 0
  /\ UnderPressure
  /\ offered < MaxOffered
  /\ dropped' = dropped + 1
  /\ offered' = offered + 1
  /\ UNCHANGED <<ring, capacity, head, count, nextSequence, reply, delivered>>

\* Mutant: noise and other events share the ring first come, first served.
PushNoPressure(noise) ==
  /\ capacity # 0
  /\ offered < MaxOffered
  /\ ring' = [ring EXCEPT ![head] = [noise |-> noise,
                                     sequence |-> nextSequence]]
  /\ nextSequence' = nextSequence + 1
  /\ head' = Advance(head)
  /\ count' = IF count < capacity THEN count + 1 ELSE count
  /\ dropped' = IF count < capacity THEN dropped ELSE dropped + 1
  /\ offered' = offered + 1
  /\ UNCHANGED <<capacity, reply, delivered>>

Push(noise) ==
  /\ capacity # 0
  /\ ~ (noise /\ UnderPressure)
  /\ offered < MaxOffered
  /\ ring' = [ring EXCEPT ![head] = [noise |-> noise,
                                     sequence |-> nextSequence]]
  /\ nextSequence' = nextSequence + 1
  /\ head' = Advance(head)
  /\ count' = IF count < capacity THEN count + 1 ELSE count
  /\ dropped' = IF count < capacity THEN dropped ELSE dropped + 1
  /\ offered' = offered + 1
  /\ UNCHANGED <<capacity, reply, delivered>>

\* KnDbgTimelineClearLocked: the slots keep what they held.
ClearLocked ==
  /\ head' = 0
  /\ count' = 0
  /\ dropped' = 0
  /\ nextSequence' = 1
  /\ offered' = 0
  /\ delivered' = 0
  /\ UNCHANGED reply

Clear == ClearLocked /\ UNCHANGED <<ring, capacity>>

\* KnDbgTimelineEnsureRing: a START with the capacity the ring has clears it,
\* any other allocates a zeroed ring and swaps it in.  A failed allocation
\* changes nothing.
EnsureRing(request) ==
  /\ ClearLocked
  /\ capacity' = Normalize(request)
  /\ ring' = IF capacity = capacity' THEN ring
             ELSE [slot \in 0 .. capacity' - 1 |-> Zeroed]

Taken(max) == IF count < max THEN count ELSE max

\* Mutant: the drain copies from the head of the ring instead of its oldest
\* event.
DrainFromHead(max) ==
  /\ reply' = [i \in 1 .. Taken(max) |-> ring[(head + i - 1) % capacity]]
  /\ count' = count - Taken(max)
  /\ delivered' = delivered + Taken(max)
  /\ UNCHANGED <<ring, capacity, head, dropped, nextSequence, offered>>

Drain(max) ==
  /\ reply' = [i \in 1 .. Taken(max) |-> Buffered(i)]
  /\ count' = count - Taken(max)
  /\ delivered' = delivered + Taken(max)
  /\ UNCHANGED <<ring, capacity, head, dropped, nextSequence, offered>>

Next ==
  \/ DropNoise
  \/ \E noise \in BOOLEAN : Push(noise)
  \/ Clear
  \/ \E request \in Requests : EnsureRing(request)
  \/ \E max \in 1 .. MaxCapacity : Drain(max)

Spec == Init /\ [][Next]_vars

-------------------------------------------------------------------------------
(* Properties *)

\* Every event that reached the ring since it was cleared is in it, was
\* drained, or is in the dropped count the debugger prints: overwriting,
\* refusing noise and replacing the ring lose no event silently.
Accounted == offered = delivered + dropped + count

\* The events in the ring carry consecutive numbers that end just before
\* nextSequence, at whatever slot the ring starts: a reader that sees a gap
\* between two drains knows exactly how many events were overwritten.
Contiguous ==
  \A i \in 1 .. count : Buffered(i).sequence = nextSequence - count + i - 1

Contents == {Buffered(i) : i \in 1 .. count}
Kept     == [i \in 1 .. count |-> Buffered(i)]

\* Thread noise never pushes an older event out of the ring ("a post-arm
\* driver map is not overwritten before user mode drains it"): every event
\* buffered before a push of noise is buffered after it.
NoiseEvictsNothing ==
  [][Push(TRUE) => Contents \subseteq Contents']_vars

\* The ring is the log of EventLog: wrapping, replacing and draining in parts
\* never reorder, repeat or mix up events.
Log == INSTANCE EventLog WITH
         Bounds <- Capacities \cup {0},
         log    <- Kept,
         bound  <- capacity,
         lost   <- dropped,
         next   <- nextSequence

ImplementsEventLog == Log!Spec

-------------------------------------------------------------------------------
\* The indices stay in range; with TypeOK, Accounted and Contiguous this is
\* inductive.
InRange ==
  /\ count <= capacity
  /\ capacity = 0 => head = 0
  /\ capacity # 0 => head < capacity
  /\ count < nextSequence

IInv == TypeOK /\ InRange /\ Accounted /\ Contiguous
===============================================================================
