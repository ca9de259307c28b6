------------------------- MODULE TimelineRing_proofs -------------------------
(***************************************************************************)
(* Proofs about TimelineRing: the inductive invariant, the properties it   *)
(* gives, and that the ring implements EventLog.                           *)
(***************************************************************************)
EXTENDS TimelineRing, SequenceTheorems, TLAPS

-------------------------------------------------------------------------------
(* Slots, as functions of capacity, head and count *)

At(c, h, n, i) ==
  LET oldest == (h + c - n) % c
  IN  IF oldest + i >= c THEN oldest + i - c ELSE oldest + i

After(c, h) == IF h + 1 >= c THEN 0 ELSE h + 1

\* The slot of the oldest event, without the remainder.
LEMMA ModOldest ==
  ASSUME NEW c \in Nat \ {0}, NEW h \in 0 .. c - 1, NEW n \in 0 .. c
  PROVE  (h + c - n) % c = IF h >= n THEN h - n ELSE h + c - n
  OBVIOUS

\* The slots of the events are slots of the ring.
LEMMA AtInRange ==
  ASSUME NEW c \in Nat \ {0}, NEW h \in 0 .. c - 1, NEW n \in 0 .. c,
         NEW i \in 0 .. c - 1
  PROVE  At(c, h, n, i) \in 0 .. c - 1
  BY ModOldest DEF At

\* The head stays in the ring when it advances.
LEMMA AfterInRange ==
  ASSUME NEW c \in Nat \ {0}, NEW h \in 0 .. c - 1
  PROVE  After(c, h) \in 0 .. c - 1
  BY DEF After

\* A push that fills a free slot writes the newest event there and moves none
\* of the others.
LEMMA AtKept ==
  ASSUME NEW c \in Nat \ {0}, NEW h \in 0 .. c - 1, NEW n \in 0 .. c - 1
  PROVE  /\ At(c, After(c, h), n + 1, n) = h
         /\ \A i \in 0 .. n - 1 : /\ At(c, After(c, h), n + 1, i) = At(c, h, n, i)
                                  /\ At(c, h, n, i) # h
<1>1. (h + c - n) % c = IF h >= n THEN h - n ELSE h + c - n
  BY ModOldest
<1>2. /\ After(c, h) \in 0 .. c - 1
      /\ n + 1 \in 0 .. c
  BY AfterInRange
<1>3. (After(c, h) + c - (n + 1)) % c =
         IF After(c, h) >= n + 1 THEN After(c, h) - (n + 1)
         ELSE After(c, h) + c - (n + 1)
  BY <1>2, ModOldest
<1>4. QED
  BY <1>1, <1>3 DEF At, After

\* A push into a full ring writes over the oldest event; the others move up.
LEMMA AtShifted ==
  ASSUME NEW c \in Nat \ {0}, NEW h \in 0 .. c - 1
  PROVE  /\ At(c, After(c, h), c, c - 1) = h
         /\ \A i \in 0 .. c - 2 : /\ At(c, After(c, h), c, i) = At(c, h, c, i + 1)
                                  /\ At(c, h, c, i + 1) # h
<1>1. (h + c - c) % c = IF h >= c THEN h - c ELSE h + c - c
  BY ModOldest
<1>2. After(c, h) \in 0 .. c - 1
  BY AfterInRange
<1>3. (After(c, h) + c - c) % c =
         IF After(c, h) >= c THEN After(c, h) - c ELSE After(c, h) + c - c
  BY <1>2, ModOldest
<1>4. QED
  BY <1>1, <1>3 DEF At, After

\* Taking the t oldest events away leaves the rest where it was.
LEMMA AtDrained ==
  ASSUME NEW c \in Nat \ {0}, NEW h \in 0 .. c - 1, NEW n \in 0 .. c,
         NEW t \in 0 .. n, NEW i \in 0 .. n - t - 1
  PROVE  At(c, h, n - t, i) = At(c, h, n, i + t)
<1>1. n - t \in 0 .. c
  OBVIOUS
<1>2. (h + c - n) % c = IF h >= n THEN h - n ELSE h + c - n
  BY ModOldest
<1>3. (h + c - (n - t)) % c =
         IF h >= n - t THEN h - (n - t) ELSE h + c - (n - t)
  BY <1>1, ModOldest
<1>4. QED
  BY <1>2, <1>3 DEF At

\* A capacity request is always brought into range.
LEMMA NormalizeInRange ==
  ASSUME NEW request \in Requests
  PROVE  Normalize(request) \in Capacities
  BY CapacityAssumption, RequestsAssumption DEF Normalize, Capacities

-------------------------------------------------------------------------------
(* What the actions do to the buffer *)

\* The indices in range, as the lemmas about slots want them.
LEMMA Ranges ==
  ASSUME TypeOK, InRange
  PROVE  /\ capacity \in Nat
         /\ count \in 0 .. capacity
         /\ capacity # 0 => capacity \in Nat \ {0} /\ head \in 0 .. capacity - 1
  BY CapacityAssumption DEF TypeOK, InRange, Capacities

\* Every buffered event is a record of the ring.
LEMMA BufferedIsRecord ==
  ASSUME TypeOK, InRange, NEW i \in 1 .. count
  PROVE  Buffered(i) \in Records
<1>1. /\ capacity \in Nat \ {0}
      /\ head \in 0 .. capacity - 1
      /\ count \in 0 .. capacity
  BY Ranges
<1>2. i - 1 \in 0 .. capacity - 1
  BY <1>1
<1>3. At(capacity, head, count, i - 1) \in 0 .. capacity - 1
  BY <1>1, <1>2, AtInRange
<1>4. QED
  BY <1>3 DEF TypeOK, Buffered, SlotOf, Oldest, At

\* A push writes the newest event; a free slot takes it without moving any
\* event, a full ring gives up its oldest one and the others move up.
LEMMA PushShifts ==
  ASSUME TypeOK, InRange, NEW noise \in BOOLEAN, Push(noise)
  PROVE  /\ count < capacity =>
              /\ count' = count + 1
              /\ Buffered(count)' = [noise |-> noise, sequence |-> nextSequence]
              /\ \A i \in 1 .. count : Buffered(i)' = Buffered(i)
         /\ count = capacity =>
              /\ count' = capacity
              /\ Buffered(count)' = [noise |-> noise, sequence |-> nextSequence]
              /\ \A i \in 1 .. capacity - 1 : Buffered(i)' = Buffered(i + 1)
<1> DEFINE new == [noise |-> noise, sequence |-> nextSequence]
<1>1. /\ capacity \in Nat \ {0}
      /\ head \in 0 .. capacity - 1
      /\ count \in 0 .. capacity
      /\ ring \in [0 .. capacity - 1 -> Records]
  BY Ranges DEF TypeOK, Push
<1>2. /\ capacity' = capacity
      /\ head' = After(capacity, head)
      /\ count' = IF count < capacity THEN count + 1 ELSE count
      /\ ring' = [ring EXCEPT ![head] = new]
  BY DEF Push, Advance, After
<1>3. \A i : /\ Buffered(i) = ring[At(capacity, head, count, i - 1)]
             /\ Buffered(i)' = ring'[At(capacity, head', count', i - 1)]
  BY <1>2 DEF Buffered, SlotOf, Oldest, At
<1>4. \A s \in 0 .. capacity - 1 : ring'[s] = IF s = head THEN new ELSE ring[s]
  BY <1>1, <1>2
<1>5. ASSUME count < capacity
      PROVE  /\ count' = count + 1
             /\ Buffered(count)' = new
             /\ \A i \in 1 .. count : Buffered(i)' = Buffered(i)
  <2>1. count' = count + 1
    BY <1>2, <1>5
  <2>2. count \in 0 .. capacity - 1
    BY <1>1, <1>5
  <2>3. /\ At(capacity, head', count + 1, count) = head
        /\ \A i \in 0 .. count - 1 :
             /\ At(capacity, head', count + 1, i) = At(capacity, head, count, i)
             /\ At(capacity, head, count, i) # head
    BY <1>1, <1>2, <2>2, AtKept
  <2>4. Buffered(count)' = new
    <3>1. (count + 1) - 1 = count
      BY <2>2
    <3>2. Buffered(count)' = ring'[At(capacity, head', count + 1, count)]
      BY <1>3, <2>1, <3>1
    <3>3. QED
      BY <1>1, <1>4, <2>3, <3>2
  <2>5. ASSUME NEW i \in 1 .. count
        PROVE  Buffered(i)' = Buffered(i)
    <3>1. i - 1 \in 0 .. count - 1 /\ i - 1 \in 0 .. capacity - 1
      BY <1>1, <2>2
    <3>2. At(capacity, head, count, i - 1) \in 0 .. capacity - 1
      BY <1>1, <3>1, AtInRange
    <3>3. QED
      BY <1>3, <1>4, <2>1, <2>3, <3>1, <3>2
  <2>6. QED
    BY <2>1, <2>4, <2>5
<1>6. ASSUME count = capacity
      PROVE  /\ count' = capacity
             /\ Buffered(count)' = new
             /\ \A i \in 1 .. capacity - 1 : Buffered(i)' = Buffered(i + 1)
  <2>1. count' = capacity
    BY <1>1, <1>2, <1>6
  <2>2. /\ At(capacity, head', capacity, capacity - 1) = head
        /\ \A i \in 0 .. capacity - 2 :
             /\ At(capacity, head', capacity, i) = At(capacity, head, capacity, i + 1)
             /\ At(capacity, head, capacity, i + 1) # head
    BY <1>1, <1>2, AtShifted
  <2>3. Buffered(count)' = new
    <3>1. Buffered(count)' = ring'[At(capacity, head', capacity, capacity - 1)]
      BY <1>3, <2>1
    <3>2. QED
      BY <1>1, <1>4, <2>2, <3>1
  <2>4. ASSUME NEW i \in 1 .. capacity - 1
        PROVE  Buffered(i)' = Buffered(i + 1)
    <3>1. /\ i - 1 \in 0 .. capacity - 2
          /\ i \in 0 .. capacity - 1
          /\ (i - 1) + 1 = i
          /\ (i + 1) - 1 = i
      BY <1>1
    <3>2. At(capacity, head, capacity, i) \in 0 .. capacity - 1
      BY <1>1, <1>6, <3>1, AtInRange
    <3>3. Buffered(i)' = ring'[At(capacity, head, capacity, i)]
      BY <1>3, <2>1, <2>2, <3>1
    <3>4. Buffered(i + 1) = ring[At(capacity, head, capacity, i)]
      BY <1>3, <1>6, <3>1
    <3>5. At(capacity, head, capacity, i) # head
      BY <2>2, <3>1
    <3>6. QED
      BY <1>4, <3>2, <3>3, <3>4, <3>5
  <2>5. QED
    BY <2>1, <2>3, <2>4
<1>7. QED
  BY <1>5, <1>6

\* A drain leaves the events behind those it returned, in order.
LEMMA DrainShifts ==
  ASSUME TypeOK, InRange, NEW max \in 1 .. MaxCapacity, Drain(max)
  PROVE  /\ Taken(max) \in 0 .. count
         /\ count' = count - Taken(max)
         /\ \A i \in 1 .. count - Taken(max) :
              Buffered(i)' = Buffered(i + Taken(max))
<1>1. /\ capacity \in Nat
      /\ count \in 0 .. capacity
      /\ Taken(max) \in 0 .. count
  BY Ranges DEF Taken
<1>2. /\ count' = count - Taken(max)
      /\ head' = head /\ capacity' = capacity /\ ring' = ring
  BY DEF Drain
<1>3. ASSUME NEW i \in 1 .. count - Taken(max)
      PROVE  Buffered(i)' = Buffered(i + Taken(max))
  <2>1. /\ capacity \in Nat \ {0}
        /\ head \in 0 .. capacity - 1
        /\ i - 1 \in 0 .. count - Taken(max) - 1
        /\ (i + Taken(max)) - 1 = (i - 1) + Taken(max)
    BY <1>1, Ranges
  <2>2. At(capacity, head, count - Taken(max), i - 1) =
          At(capacity, head, count, (i - 1) + Taken(max))
    BY <1>1, <2>1, AtDrained
  <2>3. Buffered(i)' = ring[At(capacity, head, count - Taken(max), i - 1)]
    BY <1>2 DEF Buffered, SlotOf, Oldest, At
  <2>4. Buffered(i + Taken(max)) =
          ring[At(capacity, head, count, (i + Taken(max)) - 1)]
    BY DEF Buffered, SlotOf, Oldest, At
  <2>5. QED
    BY <2>1, <2>2, <2>3, <2>4
<1>4. QED
  BY <1>1, <1>2, <1>3

-------------------------------------------------------------------------------
(* The inductive invariant *)

\* A state in which nothing is buffered satisfies Contiguous.
LEMMA InitIInv == Init => IInv
  BY DEF Init, IInv, TypeOK, InRange, Accounted, Contiguous, Records, Zeroed,
         Capacities

\* Dropping noise only counts it.
LEMMA DropNoiseIInv == IInv /\ DropNoise => IInv'
  BY DEF DropNoise, IInv, TypeOK, InRange, Accounted, Contiguous, Buffered,
         SlotOf, Oldest

\* A push keeps the indices in range and the numbers consecutive.
LEMMA PushIInv ==
  ASSUME IInv, NEW noise \in BOOLEAN, Push(noise)
  PROVE  IInv'
<1> USE DEF IInv
<1>1. /\ capacity \in Nat \ {0}
      /\ head \in 0 .. capacity - 1
      /\ count \in 0 .. capacity
  BY Ranges DEF Push
<1>2. TypeOK'
  <2>1. /\ ring' \in [0 .. capacity' - 1 -> Records]
        /\ capacity' \in Capacities \cup {0}
    BY <1>1 DEF Push, TypeOK, Records
  <2>2. head' \in Nat /\ count' \in Nat
    BY <1>1 DEF Push, Advance
  <2>3. /\ dropped' \in Nat
        /\ nextSequence' \in Nat \ {0}
        /\ offered' \in Nat
        /\ delivered' \in Nat
    BY DEF Push, TypeOK
  <2>4. reply' \in Seq(Records)
    BY DEF Push, TypeOK
  <2>5. QED
    BY <2>1, <2>2, <2>3, <2>4 DEF TypeOK
<1>3. InRange' /\ Accounted'
  BY <1>1 DEF Push, Advance, TypeOK, InRange, Accounted
<1>4. Contiguous'
  <2>1. /\ nextSequence \in Nat
        /\ nextSequence' = nextSequence + 1
    BY DEF Push, TypeOK
  <2>2. CASE count < capacity
    <3>1. /\ count' = count + 1
          /\ Buffered(count)'.sequence = nextSequence
          /\ \A i \in 1 .. count : Buffered(i)' = Buffered(i)
      BY <2>2, PushShifts
    <3>2. ASSUME NEW i \in 1 .. count
          PROVE  Buffered(i)'.sequence = nextSequence' - count' + i - 1
      <4>1. Buffered(i)'.sequence = nextSequence - count + i - 1
        BY <3>1 DEF Contiguous
      <4>2. nextSequence' - count' = nextSequence - count
        BY <1>1, <2>1, <3>1
      <4>3. QED
        BY <4>1, <4>2
    <3>3. Buffered(count)'.sequence = nextSequence' - count' + count' - 1
      BY <1>1, <2>1, <3>1
    <3>4. 1 .. count' = 1 .. count \cup {count'}
      BY <1>1, <3>1
    <3>5. QED
      BY <3>2, <3>3, <3>4 DEF Contiguous
  <2>3. CASE count = capacity
    <3>1. /\ count' = capacity
          /\ Buffered(count)'.sequence = nextSequence
          /\ \A i \in 1 .. capacity - 1 : Buffered(i)' = Buffered(i + 1)
      BY <1>1, <2>3, PushShifts
    <3>2. ASSUME NEW i \in 1 .. capacity - 1
          PROVE  Buffered(i)'.sequence = nextSequence' - count' + i - 1
      <4>1. i + 1 \in 1 .. count
        BY <1>1, <2>3
      <4>2. Buffered(i)'.sequence = nextSequence - count + (i + 1) - 1
        BY <3>1, <4>1 DEF Contiguous
      <4>3. nextSequence' - count' + i - 1 = nextSequence - count + (i + 1) - 1
        BY <1>1, <2>1, <2>3, <3>1
      <4>4. QED
        BY <4>2, <4>3
    <3>3. Buffered(count)'.sequence = nextSequence' - count' + count' - 1
      BY <1>1, <2>1, <3>1
    <3>4. 1 .. count' = 1 .. capacity - 1 \cup {count'}
      BY <1>1, <3>1
    <3>5. QED
      BY <3>2, <3>3, <3>4 DEF Contiguous
  <2>4. QED
    BY <1>1, <2>2, <2>3
<1>5. QED
  BY <1>2, <1>3, <1>4

\* Clearing empties the buffer.
LEMMA ClearIInv ==
  ASSUME IInv, Clear
  PROVE  IInv'
<1>1. capacity \in Nat
  BY Ranges DEF IInv
<1>2. TypeOK'
  BY DEF Clear, ClearLocked, IInv, TypeOK
<1>3. InRange'
  BY <1>1 DEF Clear, ClearLocked, InRange
<1>4. Accounted' /\ Contiguous'
  BY DEF Clear, ClearLocked, Accounted, Contiguous
<1>5. QED
  BY <1>2, <1>3, <1>4 DEF IInv

\* A ring of another size is zeroed and empty.
LEMMA EnsureRingIInv ==
  ASSUME IInv, NEW request \in Requests, EnsureRing(request)
  PROVE  IInv'
<1>1. Normalize(request) \in Capacities
  BY NormalizeInRange
<1>2. /\ capacity' = Normalize(request)
      /\ capacity' \in Nat \ {0}
  BY <1>1, CapacityAssumption DEF EnsureRing, Capacities
<1>3. ring' \in [0 .. capacity' - 1 -> Records]
  BY DEF EnsureRing, IInv, TypeOK, Records, Zeroed
<1>4. TypeOK'
  BY <1>1, <1>2, <1>3 DEF EnsureRing, ClearLocked, IInv, TypeOK
<1>5. InRange' /\ Accounted' /\ Contiguous'
  BY <1>2 DEF EnsureRing, ClearLocked, InRange, Accounted, Contiguous
<1>6. QED
  BY <1>4, <1>5 DEF IInv

\* A drain moves events from the buffer to the reply.
LEMMA DrainIInv ==
  ASSUME IInv, NEW max \in 1 .. MaxCapacity, Drain(max)
  PROVE  IInv'
<1> USE DEF IInv
<1>1. /\ capacity \in Nat
      /\ count \in 0 .. capacity
      /\ Taken(max) \in 0 .. count
      /\ count' = count - Taken(max)
      /\ \A i \in 1 .. count - Taken(max) :
           Buffered(i)' = Buffered(i + Taken(max))
  BY Ranges, DrainShifts
<1>2. reply' \in Seq(Records)
  <2>1. \A i \in 1 .. Taken(max) : i \in 1 .. count
    BY <1>1
  <2>2. \A i \in 1 .. Taken(max) : Buffered(i) \in Records
    BY <2>1, BufferedIsRecord
  <2>3. Taken(max) \in Nat
    BY <1>1
  <2>4. reply' = [i \in 1 .. Taken(max) |-> Buffered(i)]
    BY DEF Drain
  <2>5. reply' \in [1 .. Taken(max) -> Records]
    BY <2>2, <2>4
  <2>6. QED
    BY <2>3, <2>5
<1>3. TypeOK'
  BY <1>1, <1>2 DEF Drain, TypeOK
<1>4. InRange' /\ Accounted'
  <2>1. /\ head' = head /\ capacity' = capacity
        /\ dropped' = dropped /\ nextSequence' = nextSequence
        /\ offered' = offered /\ delivered' = delivered + Taken(max)
    BY DEF Drain
  <2>2. InRange'
    BY <1>1, <2>1 DEF TypeOK, InRange
  <2>3. offered' = delivered' + dropped' + count'
    BY <1>1, <2>1 DEF TypeOK, Accounted
  <2>4. QED
    BY <2>2, <2>3 DEF Accounted
<1>5. Contiguous'
  <2>1. ASSUME NEW i \in 1 .. count - Taken(max)
        PROVE  Buffered(i)'.sequence = nextSequence - (count - Taken(max)) + i - 1
    <3>1. i + Taken(max) \in 1 .. count
      BY <1>1
    <3>2. Buffered(i)'.sequence = nextSequence - count + (i + Taken(max)) - 1
      BY <1>1, <3>1 DEF Contiguous
    <3>3. nextSequence \in Nat
      BY DEF TypeOK
    <3>4. QED
      BY <1>1, <3>2, <3>3
  <2>2. nextSequence' = nextSequence
    BY DEF Drain
  <2>3. QED
    BY <1>1, <2>1, <2>2 DEF Contiguous
<1>6. QED
  BY <1>3, <1>4, <1>5

\* The indices, the counters and the numbers agree in every reachable state.
THEOREM Invariance == Spec => []IInv
<1>1. IInv /\ [Next]_vars => IInv'
  <2>1. IInv /\ UNCHANGED vars => IInv'
    BY DEF vars, IInv, TypeOK, InRange, Accounted, Contiguous, Buffered,
           SlotOf, Oldest
  <2>2. IInv /\ Next => IInv'
    BY DropNoiseIInv, PushIInv, ClearIInv, EnsureRingIInv, DrainIInv DEF Next
  <2>3. QED
    BY <2>1, <2>2
<1>2. QED
  BY <1>1, InitIInv, PTL DEF Spec

\* The driver's counters and records keep their types, the ring its capacity.
THEOREM TypeCorrect == Spec => []TypeOK
  BY Invariance, PTL DEF IInv

\* No event disappears without being counted (KnDbgTimelinePushEvent,
\* KnDbgHandleTimelineDrain).
THEOREM NothingIsLostSilently == Spec => []Accounted
  BY Invariance, PTL DEF IInv

\* The numbers in the ring are consecutive and end before nextSequence.
THEOREM NumbersAreConsecutive == Spec => []Contiguous
  BY Invariance, PTL DEF IInv

\* A push of thread noise keeps every buffered event.
THEOREM NoiseIsHarmless == Spec => NoiseEvictsNothing
<1>1. ASSUME IInv, Push(TRUE)
      PROVE  Contents \subseteq Contents'
  <2>1. /\ capacity \in Nat \ {0}
        /\ count \in 0 .. capacity
    BY <1>1, Ranges DEF IInv, Push
  <2>2. count < capacity
    BY <1>1, <2>1 DEF Push, UnderPressure
  <2>3. /\ count' = count + 1
        /\ \A i \in 1 .. count : Buffered(i)' = Buffered(i)
    BY <1>1, <2>2, PushShifts DEF IInv
  <2>4. ASSUME NEW i \in 1 .. count
        PROVE  Buffered(i) \in Contents'
    <3>1. i \in 1 .. count'
      BY <2>1, <2>3
    <3>2. Buffered(i)' \in Contents'
      BY <3>1 DEF Contents
    <3>3. QED
      BY <2>3, <3>2
  <2>5. QED
    BY <2>4 DEF Contents
<1>2. IInv /\ [Next]_vars
        => [Push(TRUE) => Contents \subseteq Contents']_vars
  BY <1>1
<1>3. QED
  BY <1>2, Invariance, PTL DEF Spec, NoiseEvictsNothing

-------------------------------------------------------------------------------
(* The ring implements EventLog *)

\* A sequence is Append(s, e) when it is s followed by e.
LEMMA IsAppend ==
  ASSUME NEW S, NEW s \in Seq(S), NEW e \in S, NEW t \in Seq(S),
         Len(t) = Len(s) + 1,
         \A i \in 1 .. Len(s) : t[i] = s[i],
         t[Len(s) + 1] = e
  PROVE  t = Append(s, e)
<1>1. /\ Append(s, e) \in Seq(S)
      /\ Len(Append(s, e)) = Len(s) + 1
      /\ \A i \in 1 .. Len(s) : Append(s, e)[i] = s[i]
      /\ Append(s, e)[Len(s) + 1] = e
  BY AppendProperties
<1>2. Len(s) \in Nat
  BY LenProperties
<1>3. \A i \in 1 .. Len(t) : t[i] = Append(s, e)[i]
  <2>1. \A i \in 1 .. Len(s) + 1 : i \in 1 .. Len(s) \/ i = Len(s) + 1
    BY <1>2
  <2>2. QED
    BY <1>1, <2>1
<1>4. QED
  BY <1>1, <1>3, SeqEqual

\* A sequence is Append(Tail(s), e) when it is s moved up by one with e last.
LEMMA IsAppendToTail ==
  ASSUME NEW S, NEW s \in Seq(S), NEW e \in S, NEW t \in Seq(S), s # <<>>,
         Len(t) = Len(s),
         \A i \in 1 .. Len(s) - 1 : t[i] = s[i + 1],
         t[Len(s)] = e
  PROVE  t = Append(Tail(s), e)
<1>1. /\ Tail(s) \in Seq(S)
      /\ Len(Tail(s)) = Len(s) - 1
      /\ \A i \in 1 .. Len(Tail(s)) : Tail(s)[i] = s[i + 1]
  BY HeadTailProperties
<1>2. Len(s) \in Nat \ {0}
  BY LenProperties, EmptySeq
<1>3. /\ Len(t) = Len(Tail(s)) + 1
      /\ \A i \in 1 .. Len(Tail(s)) : t[i] = Tail(s)[i]
      /\ t[Len(Tail(s)) + 1] = e
  BY <1>1, <1>2
<1>4. QED
  BY <1>1, <1>3, IsAppend

\* The buffer as a sequence.
KeptOk == /\ Kept \in Seq(Records)
          /\ Len(Kept) = count
          /\ \A i \in 1 .. count : Kept[i] = Buffered(i)

\* It is one, as long as the ring says, for the abstract log to be compared with.
LEMMA KeptIsSeq == IInv => KeptOk
<1> SUFFICES ASSUME IInv
             PROVE  KeptOk
  OBVIOUS
<1>1. count \in Nat
  BY DEF IInv, TypeOK
<1>2. Kept \in [1 .. count -> Records]
  BY BufferedIsRecord DEF Kept, IInv
<1>3. QED
  BY <1>1, <1>2 DEF Kept, KeptOk

\* And the buffer after a step.
LEMMA KeptIsSeqNext == IInv' => KeptOk'
  BY KeptIsSeq, PTL

\* A push is Keep while there is room and Replace when the ring is full.
LEMMA PushRefines ==
  ASSUME IInv, IInv', NEW noise \in BOOLEAN, Push(noise)
  PROVE  Log!Next
<1> DEFINE new == [noise |-> noise, sequence |-> nextSequence]
<1>1. /\ capacity \in Nat \ {0}
      /\ count \in 0 .. capacity
      /\ count' \in 0 .. capacity'
  BY Ranges DEF IInv, Push
<1>2. /\ capacity' = capacity
      /\ nextSequence' = nextSequence + 1
      /\ dropped' = IF count < capacity THEN dropped ELSE dropped + 1
      /\ reply' = reply
  BY DEF Push
<1>3. /\ Kept \in Seq(Records)
      /\ Len(Kept) = count
      /\ \A i \in 1 .. count : Kept[i] = Buffered(i)
  BY KeptIsSeq DEF KeptOk
<1>4. /\ Kept' \in Seq(Records)
      /\ Len(Kept') = count'
      /\ \A i \in 1 .. count' : Kept'[i] = Buffered(i)'
  BY KeptIsSeqNext DEF KeptOk
<1>5. new \in Records
  BY DEF IInv, TypeOK, Records
<1>6. CASE count < capacity
  <2>1. /\ count' = count + 1
        /\ Buffered(count)' = new
        /\ \A i \in 1 .. count : Buffered(i)' = Buffered(i)
    BY <1>6, PushShifts DEF IInv
  <2>2. /\ \A i \in 1 .. count : Kept'[i] = Kept[i]
        /\ Kept'[count + 1] = new
    <3>1. /\ \A i \in 1 .. count : i \in 1 .. count'
          /\ count' \in 1 .. count'
      BY <1>1, <2>1
    <3>2. Kept'[count'] = Buffered(count)'
      BY <1>4, <3>1
    <3>3. QED
      BY <1>3, <1>4, <2>1, <3>1, <3>2
  <2>3. Kept' = Append(Kept, new)
    BY <1>3, <1>4, <1>5, <2>1, <2>2, IsAppend
  <2>4. Log!Keep(noise)
    BY <1>2, <1>3, <1>6, <2>3 DEF Log!Keep, Log!Event
  <2>5. QED
    BY <2>4 DEF Log!Next
<1>7. CASE count = capacity
  <2>1. noise = FALSE
    BY <1>1, <1>7 DEF Push, UnderPressure
  <2>2. /\ count' = capacity
        /\ Buffered(count)' = new
        /\ \A i \in 1 .. capacity - 1 : Buffered(i)' = Buffered(i + 1)
    BY <1>7, PushShifts DEF IInv
  <2>3. /\ \A i \in 1 .. capacity - 1 : Kept'[i] = Kept[i + 1]
        /\ Kept'[capacity] = new
    <3>1. /\ \A i \in 1 .. capacity - 1 :
               i \in 1 .. count' /\ i + 1 \in 1 .. count
          /\ count' \in 1 .. count'
      BY <1>1, <1>7, <2>2
    <3>2. Kept'[count'] = Buffered(count)'
      BY <1>4, <3>1
    <3>3. QED
      BY <1>3, <1>4, <2>2, <3>1, <3>2
  <2>4. Kept # <<>>
    BY <1>1, <1>3, <1>7, EmptySeq
  <2>5. Kept' = Append(Tail(Kept), new)
    BY <1>3, <1>4, <1>5, <1>7, <2>2, <2>3, <2>4, IsAppendToTail
  <2>6. Log!Replace
    <3>1. new = [noise |-> FALSE, sequence |-> nextSequence]
      BY <2>1
    <3>2. /\ Kept' = Append(Tail(Kept), Log!Event(FALSE))
          /\ capacity > 0
          /\ Len(Kept) = capacity
      BY <1>1, <1>3, <1>7, <2>5, <3>1 DEF Log!Event
    <3>3. /\ dropped' = dropped + 1
          /\ nextSequence' = nextSequence + 1
          /\ UNCHANGED <<capacity, reply>>
      BY <1>1, <1>2, <1>7
    <3>4. QED
      BY <3>2, <3>3 DEF Log!Replace
  <2>7. QED
    BY <2>6 DEF Log!Next
<1>8. QED
  BY <1>1, <1>6, <1>7

\* A drain is a Read of as many events.
LEMMA DrainRefines ==
  ASSUME IInv, IInv', NEW max \in 1 .. MaxCapacity, Drain(max)
  PROVE  Log!Next
<1>1. /\ count \in Nat
      /\ Taken(max) \in 0 .. count
      /\ count' = count - Taken(max)
      /\ \A i \in 1 .. count - Taken(max) :
           Buffered(i)' = Buffered(i + Taken(max))
  BY DrainShifts DEF IInv, TypeOK
<1>2. /\ Kept \in Seq(Records)
      /\ Len(Kept) = count
      /\ \A i \in 1 .. count : Kept[i] = Buffered(i)
  BY KeptIsSeq DEF KeptOk
<1>3. SubSeq(Kept, 1, Taken(max)) = reply'
  <2>1. SubSeq(Kept, 1, Taken(max)) = [i \in 1 .. Taken(max) |-> Kept[i]]
    BY <1>1, <1>2
  <2>2. \A i \in 1 .. Taken(max) : Kept[i] = Buffered(i)
    BY <1>1, <1>2
  <2>3. QED
    BY <2>1, <2>2 DEF Drain
<1>4. SubSeq(Kept, Taken(max) + 1, Len(Kept)) = Kept'
  <2>1. SubSeq(Kept, Taken(max) + 1, count) =
          [i \in 1 .. count - Taken(max) |-> Kept[i + Taken(max)]]
    BY <1>1, <1>2
  <2>2. \A i \in 1 .. count - Taken(max) : Kept[i + Taken(max)] = Buffered(i)'
    BY <1>1, <1>2
  <2>3. QED
    BY <1>1, <1>2, <2>1, <2>2 DEF Kept
<1>5. Log!Read(Taken(max))
  BY <1>3, <1>4 DEF Log!Read, Drain
<1>6. QED
  BY <1>1, <1>2, <1>5 DEF Log!Next

\* A cleared buffer is an empty log.
LEMMA EmptyKept == count = 0 => Kept = <<>>
  BY DEF Kept

\* And so it is after the step that clears it.
LEMMA EmptyKeptNext == (count = 0)' => (Kept = <<>>)'
  BY EmptyKept, PTL

\* The ring implements the log: the debugger reads what EventLog promises.
THEOREM RingImplementsLog == Spec => ImplementsEventLog
<1>1. Init => Log!Init
  BY EmptyKept DEF Init, Log!Init
<1>2. IInv /\ IInv' /\ [Next]_vars => [Log!Next]_(Log!logVars)
  <2>1. ASSUME IInv, DropNoise
        PROVE  Log!Next
    <3>1. capacity \in Nat \ {0} /\ Len(Kept) = count
      BY <2>1, Ranges, KeptIsSeq DEF IInv, DropNoise, KeptOk
    <3>2. Kept' = Kept
      BY <2>1 DEF DropNoise, Kept, Buffered, SlotOf, Oldest
    <3>3. Log!RefuseNoise
      BY <2>1, <3>1, <3>2 DEF DropNoise, UnderPressure, Log!RefuseNoise
    <3>4. QED
      BY <3>3 DEF Log!Next
  <2>2. ASSUME IInv, Clear
        PROVE  Log!Next
    <3>1. Kept' = <<>>
      BY <2>2, EmptyKeptNext DEF Clear, ClearLocked
    <3>2. Log!Restart(capacity)
      BY <2>2, <3>1 DEF Clear, ClearLocked, Log!Restart
    <3>3. capacity \in Capacities \cup {0}
      BY <2>2 DEF IInv, TypeOK
    <3>4. QED
      BY <3>2, <3>3 DEF Log!Next
  <2>3. ASSUME IInv, NEW request \in Requests, EnsureRing(request)
        PROVE  Log!Next
    <3>1. Kept' = <<>>
      BY <2>3, EmptyKeptNext DEF EnsureRing, ClearLocked
    <3>2. Log!Restart(Normalize(request))
      BY <2>3, <3>1 DEF EnsureRing, ClearLocked, Log!Restart
    <3>3. Normalize(request) \in Capacities \cup {0}
      BY NormalizeInRange
    <3>4. QED
      BY <3>2, <3>3 DEF Log!Next
  <2>4. UNCHANGED vars => UNCHANGED Log!logVars
    BY DEF vars, Log!logVars, Kept, Buffered, SlotOf, Oldest
  <2>5. QED
    BY <2>1, <2>2, <2>3, <2>4, PushRefines, DrainRefines DEF Next
<1>3. QED
  BY <1>1, <1>2, Invariance, PTL DEF Spec, ImplementsEventLog, Log!Spec
===============================================================================
