------------------------------ MODULE Kmon_proofs ------------------------------
(***************************************************************************)
(* Proofs about the two halves of the kernel monitor's pipeline.  First    *)
(* KmonCapture: for any requests and any limits, requests are in flight    *)
(* once, bytes are accounted for and turns alternate.  Then KmonIngest:    *)
(* for any capacities and limits, events are taken once and in order, and  *)
(* what is not taken is counted.  Neither half uses the other's facts.     *)
(***************************************************************************)
EXTENDS KmonCapture, KmonIngest, FiniteSetTheorems, TLAPS

\* The limits are positive.
LEMMA Limits ==
  /\ FirstLimit \in Nat /\ FirstLimit >= 1
  /\ ContinuedLimit \in Nat /\ ContinuedLimit >= 1
  /\ PageLimit \in Nat /\ PageLimit >= 1
  /\ EventLimit \in Nat /\ EventLimit >= 1
  /\ Budget \in Nat /\ Budget >= 1
  /\ Burst \in Nat /\ Burst >= 1
  /\ Quantum \in Nat /\ Quantum >= 1
  /\ MaxDirect \in Nat
<1>1. \A n \in Nat \ {0} : n \in Nat /\ n >= 1
  OBVIOUS
<1>2. {FirstLimit, ContinuedLimit, PageLimit, EventLimit} \subseteq Nat \ {0}
  BY LimitsAssumption
<1>3. {Budget, Burst, Quantum} \subseteq Nat \ {0} /\ MaxDirect \in Nat
  BY LimitsAssumption
<1>4. QED
  BY <1>1, <1>2, <1>3

-------------------------------------------------------------------------------
(* Sequences of requests *)

\* The keys in an empty queue and in a single hand.
LEMMA HeldFew ==
  ASSUME NEW r
  PROVE  Held(<<>>) = {} /\ Held(<<r>>) = {r.key}
<1>1. Len(<<>>) = 0 /\ Len(<<r>>) = 1 /\ <<r>>[1] = r
  OBVIOUS
<1>2. 1 .. 0 = {} /\ 1 .. 1 = {1}
  OBVIOUS
<1>3. QED
  BY <1>1, <1>2 DEF Held

\* A hand that is not empty holds one request.
LEMMA HeldInHand ==
  ASSUME NEW s, AtMostOne(s, Requests), s # <<>>
  PROVE  s[1] \in Requests /\ s = <<s[1]>> /\ Held(s) = {s[1].key}
<1>1. s \in Seq(Requests) /\ Len(s) = 1
  <2>1. s \in Seq(Requests) /\ Len(s) <= 1 /\ Len(s) \in Nat
    BY DEF AtMostOne
  <2>2. Len(s) # 0
    <3>1. \A q \in Seq(Requests) : Len(q) = 0 => q = <<>>
      OBVIOUS
    <3>2. QED
      BY <2>1, <3>1
  <2>3. Len(s) = 1
    <3>1. \A n \in Nat : n <= 1 /\ n # 0 => n = 1
      OBVIOUS
    <3>2. QED
      BY <2>1, <2>2, <3>1
  <2>4. QED
    BY <2>1, <2>3
<1>2. s[1] \in Requests /\ s = <<s[1]>>
  BY <1>1
<1>3. QED
  BY <1>2, HeldFew

\* A request that joins a queue adds its key, and keeps the keys distinct if it
\* is a new one.
LEMMA HeldAppend ==
  ASSUME NEW s \in Seq(Requests), NEW r \in Requests
  PROVE  /\ Append(s, r) \in Seq(Requests) /\ Len(Append(s, r)) = Len(s) + 1
         /\ Held(Append(s, r)) = Held(s) \cup {r.key}
         /\ Distinct(s) /\ r.key \notin Held(s) => Distinct(Append(s, r))
<1> DEFINE t == Append(s, r)
<1>1. /\ t \in Seq(Requests) /\ Len(t) = Len(s) + 1 /\ Len(s) \in Nat
      /\ t[Len(s) + 1] = r
      /\ \A i \in 1 .. Len(s) : t[i] = s[i]
  OBVIOUS
<1> HIDE DEF t
<1>2. Held(t) = Held(s) \cup {r.key}
  BY <1>1 DEF Held
<1>3. Distinct(s) /\ r.key \notin Held(s) => Distinct(t)
  BY <1>1 DEF Held, Distinct
<1>4. QED
  BY <1>1, <1>2, <1>3 DEF t

\* A request that leaves a queue of distinct keys takes its key along.
LEMMA HeldTail ==
  ASSUME NEW s \in Seq(Requests), s # <<>>, Distinct(s)
  PROVE  /\ Head(s) \in Requests
         /\ Tail(s) \in Seq(Requests) /\ Len(Tail(s)) = Len(s) - 1
         /\ Held(s) = Held(Tail(s)) \cup {Head(s).key}
         /\ Head(s).key \notin Held(Tail(s))
         /\ Distinct(Tail(s))
<1> DEFINE t == Tail(s)
<1>1. /\ Head(s) = s[1] /\ s[1] \in Requests
      /\ t \in Seq(Requests) /\ Len(t) = Len(s) - 1
      /\ Len(s) \in Nat /\ Len(s) >= 1
      /\ \A i \in 1 .. Len(t) : t[i] = s[i + 1]
  OBVIOUS
<1> HIDE DEF t
<1>2. \A i \in 1 .. Len(t) : i + 1 \in 1 .. Len(s) /\ i + 1 # 1
  BY <1>1
<1>3. Distinct(t)
  <2> SUFFICES ASSUME NEW i \in 1 .. Len(t), NEW j \in 1 .. Len(t),
                      t[i].key = t[j].key
               PROVE  i = j
    BY DEF Distinct
  <2>1. s[i + 1].key = s[j + 1].key
    BY <1>1
  <2>2. i + 1 = j + 1
    BY <1>2, <2>1 DEF Distinct
  <2>3. QED
    BY <2>2
<1>4. s[1].key \notin Held(t)
  <2> SUFFICES ASSUME NEW i \in 1 .. Len(t), t[i].key = s[1].key
               PROVE  FALSE
    BY DEF Held
  <2>1. s[i + 1].key = s[1].key /\ 1 \in 1 .. Len(s)
    BY <1>1
  <2>2. QED
    BY <1>2, <2>1 DEF Distinct
<1>5. Held(s) = Held(t) \cup {s[1].key}
  <2>1. \A i \in 1 .. Len(s) : i = 1 \/ i - 1 \in 1 .. Len(t)
    BY <1>1
  <2>2. \A i \in 1 .. Len(s) : i # 1 => s[i] = t[i - 1]
    BY <1>1, <2>1
  <2>3. 1 \in 1 .. Len(s)
    BY <1>1
  <2>4. Held(s) \subseteq Held(t) \cup {s[1].key}
    BY <2>1, <2>2 DEF Held
  <2>5. Held(t) \cup {s[1].key} \subseteq Held(s)
    BY <1>1, <1>2, <2>3 DEF Held
  <2>6. QED
    BY <2>4, <2>5
<1>6. QED
  BY <1>1, <1>3, <1>4, <1>5 DEF t

\* In a queue of distinct keys each key is at one place.
LEMMA OnePlace ==
  ASSUME NEW s \in Seq(Requests), Distinct(s), NEW k
  PROVE  Cardinality({i \in 1 .. Len(s) : s[i].key = k})
           = IF k \in Held(s) THEN 1 ELSE 0
<1> DEFINE P == {i \in 1 .. Len(s) : s[i].key = k}
<1>1. CASE k \in Held(s)
  <2>1. PICK i \in 1 .. Len(s) : s[i].key = k
    BY <1>1 DEF Held
  <2>2. P = {i}
    BY <2>1 DEF Distinct
  <2>3. QED
    BY <1>1, <2>2, FS_Singleton
<1>2. CASE k \notin Held(s)
  <2>1. P = {}
    BY <1>2 DEF Held
  <2>2. QED
    BY <1>2, <2>1, FS_EmptySet
<1>3. QED
  BY <1>1, <1>2

\* The invariant about the places gives the property.
LEMMA PlacesOk ==
  ASSUME IInv
  PROVE  InFlightOnce
<1> SUFFICES ASSUME NEW k \in Keys
             PROVE  Places(k) = IF k \in keys THEN 1 ELSE 0
  BY DEF InFlightOnce
<1>1. /\ first \in Seq(Requests) /\ continued \in Seq(Requests)
      /\ AtMostOne(work, Requests) /\ AtMostOne(immediate, Requests)
      /\ Distinct(first) /\ Distinct(continued)
  BY DEF IInv, TypeOK, KeysOk
<1>2. work # <<>> /\ work[1].key = k <=> k \in Held(work)
  <2>1. CASE work = <<>>
    BY <2>1, HeldFew
  <2>2. CASE work # <<>>
    <3>1. Held(work) = {work[1].key}
      BY <1>1, <2>2, HeldInHand
    <3>2. QED
      BY <2>2, <3>1
  <2>3. QED
    BY <2>1, <2>2
<1>3. immediate # <<>> /\ immediate[1].key = k <=> k \in Held(immediate)
  <2>1. CASE immediate = <<>>
    BY <2>1, HeldFew
  <2>2. CASE immediate # <<>>
    <3>1. Held(immediate) = {immediate[1].key}
      BY <1>1, <2>2, HeldInHand
    <3>2. QED
      BY <2>2, <3>1
  <2>3. QED
    BY <2>1, <2>2
<1>4. Places(k) = (IF k \in Held(first) THEN 1 ELSE 0)
                  + (IF k \in Held(continued) THEN 1 ELSE 0)
                  + (IF k \in asking THEN 1 ELSE 0)
                  + (IF k \in Held(work) THEN 1 ELSE 0)
                  + (IF k \in Held(immediate) THEN 1 ELSE 0)
  BY <1>1, <1>2, <1>3, OnePlace DEF Places
<1>5. QED
  BY <1>4 DEF IInv, KeysOk

-------------------------------------------------------------------------------
(* What a step leaves alone *)

\* Requests that stay where they are.
LEMMA KeysStay ==
  ASSUME KeysOk, UNCHANGED <<queueVars, work, immediate>>
  PROVE  KeysOk'
<1>1. UNCHANGED <<keys, asking, first, continued, work, immediate>>
  BY DEF queueVars
<1>2. /\ Held(first') = Held(first) /\ Held(continued') = Held(continued)
      /\ Held(work') = Held(work) /\ Held(immediate') = Held(immediate)
      /\ Distinct(first') /\ Distinct(continued')
  BY <1>1 DEF KeysOk
<1>3. QED
  BY <1>1, <1>2 DEF KeysOk

\* The loop stands still.
LEMMA LoopStays ==
  ASSUME WorkOk, UNCHANGED <<pc, work, immediate, quantum>>,
         stop' \in {"writer", "stopped"} => pc = "done" \/ stop' = stop
  PROVE  WorkOk'
  BY DEF WorkOk

\* The picker stands still, and the first requests stay or grow.
LEMMA PickerStays ==
  ASSUME PickerOk, UNCHANGED <<firstBurst, last, bypassed>>,
         first' = first \/ first' # <<>>,
         pc' = "pick" => \/ seen' = seen /\ pc = "pick"
                         \/ seen' <=> first' # <<>>
  PROVE  PickerOk'
<1>1. bypassed' # {} => first' # <<>>
  BY DEF PickerOk
<1>2. ASSUME pc' = "pick"
      PROVE  (bypassed' # {} => seen') /\ (seen' => first' # <<>>)
  <2>1. CASE seen' = seen /\ pc = "pick"
    BY <2>1 DEF PickerOk
  <2>2. CASE seen' <=> first' # <<>>
    BY <1>1, <2>2
  <2>3. QED
    BY <1>2, <2>1, <2>2
<1>3. QED
  BY <1>1, <1>2 DEF PickerOk

\* The writer stands still.
LEMMA WriterStays ==
  ASSUME BytesOk, UNCHANGED writerVars
  PROVE  BytesOk'
<1>1. UNCHANGED <<writer, allowed, bytes, files>>
  BY DEF writerVars
<1>2. QED
  BY <1>1 DEF BytesOk, BytesAreFiles

\* An event more, or the same number.
LEMMA EventsBounded ==
  ASSUME TypeOK
  PROVE  Emitted \in 0 .. EventLimit
  BY Limits DEF TypeOK, Emitted

-------------------------------------------------------------------------------
(* Sessions *)

\* A session begins well.
LEMMA InitIInv == Init => IInv
<1> SUFFICES ASSUME Init PROVE IInv
  OBVIOUS
<1>1. <<>> \in Seq(Requests) /\ Len(<<>>) = 0
  OBVIOUS
<1>2. TypeOK
  <2>1. first \in Seq(Requests) /\ Len(first) <= FirstLimit
    BY <1>1, Limits DEF Init
  <2>2. continued \in Seq(Requests) /\ Len(continued) <= ContinuedLimit
    BY <1>1, Limits DEF Init
  <2>3. AtMostOne(work, Requests) /\ AtMostOne(immediate, Requests)
    BY <1>1 DEF Init, AtMostOne
  <2>4. /\ quantum \in 0 .. Quantum /\ firstBurst \in 0 .. Burst
        /\ pages \in 0 .. PageLimit /\ direct \in 0 .. MaxDirect
        /\ events \in 0 .. EventLimit
        /\ bytes \in 0 .. Budget /\ files \in 0 .. Budget
    BY Limits DEF Init
  <2>5. asking \subseteq keys /\ keys \subseteq Keys /\ bypassed \subseteq Keys
    BY DEF Init
  <2>6. QED
    BY <2>1, <2>2, <2>3, <2>4, <2>5 DEF Init, TypeOK
<1>3. WorkOk
  BY DEF Init, WorkOk
<1>4. PickerOk
  BY DEF Init, PickerOk
<1>5. BytesOk
  BY Limits DEF Init, BytesOk, BytesAreFiles
<1>6. KeysOk
  <2>1. /\ Held(first) = {} /\ Held(continued) = {}
        /\ Held(work) = {} /\ Held(immediate) = {}
    BY HeldFew DEF Init
  <2>2. 1 .. 0 = {}
    OBVIOUS
  <2>3. Distinct(first) /\ Distinct(continued)
    BY <1>1, <2>2 DEF Init, Distinct
  <2>4. QED
    BY <2>1, <2>3 DEF Init, KeysOk
<1>7. QED
  BY <1>2, <1>3, <1>4, <1>5, <1>6 DEF IInv

\* The next one does too.
LEMMA StartIInv == Start => IInv'
<1>1. Start => Init'
  BY DEF Start, Init
<1>2. QED
  BY <1>1, InitIInv, PTL

\* Steps beside the queues, the loop and the writer.
LEMMA BesideIInv ==
  ASSUME IInv,
         QueueCapturedBytes \/ Drain \/ RequestStop \/ LoopsEnd \/ JoinProducers
           \/ StopCaptures \/ Expire \/ StopWriter \/ EndStop
  PROVE  IInv'
<1>1. /\ UNCHANGED <<queueVars, workerVars, writerVars>>
      /\ UNCHANGED <<keys, asking, first, continued>>
      /\ UNCHANGED <<pc, work, immediate, quantum, late, seen, firstBurst, last, bypassed>>
      /\ UNCHANGED <<writer, allowed, bytes, files>>
  BY DEF QueueCapturedBytes, Drain, RequestStop, LoopsEnd, JoinProducers,
     StopCaptures, Expire, StopWriter, EndStop, Advance, queueVars, workerVars,
     writerVars
<1>2. /\ stop' \in {"running", "asked", "ending", "joined", "captures", "writer", "stopped"}
      /\ expired' \in BOOLEAN
      /\ pages' \in 0 .. PageLimit /\ direct' \in 0 .. MaxDirect
      /\ events' \in 0 .. EventLimit
      /\ stop' \in {"writer", "stopped"} => pc = "done" \/ stop' = stop
  <2>1. CASE QueueCapturedBytes \/ Drain
    <3>1. UNCHANGED <<stop, expired>>
      BY <2>1 DEF QueueCapturedBytes, Drain, stopVars
    <3>2. pages' \in 0 .. PageLimit /\ direct' \in 0 .. MaxDirect
          /\ events' \in 0 .. EventLimit
      BY <2>1, Limits DEF IInv, TypeOK, QueueCapturedBytes, Drain
    <3>3. QED
      BY <3>1, <3>2 DEF IInv, TypeOK
  <2>2. CASE Expire
    BY <2>2 DEF IInv, TypeOK, Expire
  <2>3. CASE RequestStop \/ LoopsEnd \/ JoinProducers \/ StopCaptures
               \/ StopWriter \/ EndStop
    <3>1. UNCHANGED <<expired, pages, direct, events>>
      BY <2>3 DEF RequestStop, LoopsEnd, JoinProducers, StopCaptures, StopWriter,
         EndStop, Advance
    <3>2. \/ stop' \in {"asked", "ending", "joined", "captures"}
          \/ stop' \in {"writer", "stopped"} /\ pc = "done"
      BY <2>3 DEF RequestStop, LoopsEnd, JoinProducers, StopCaptures, StopWriter,
         EndStop, Advance
    <3>3. QED
      BY <3>1, <3>2 DEF IInv, TypeOK
  <2>4. QED
    BY <2>1, <2>2, <2>3
<1>3. TypeOK'
  BY <1>1, <1>2 DEF IInv, TypeOK, AtMostOne
<1>4. WorkOk'
  BY <1>1, <1>2, LoopStays DEF IInv
<1>5. PickerOk'
  BY <1>1, PickerStays DEF IInv
<1>6. BytesOk' /\ KeysOk'
  BY <1>1, WriterStays, KeysStay DEF IInv
<1>7. QED
  BY <1>3, <1>4, <1>5, <1>6 DEF IInv

-------------------------------------------------------------------------------
(* The producers *)

\* A key is taken that nobody held.
LEMMA AskIInv ==
  ASSUME IInv, NEW k \in Keys, Ask(k)
  PROVE  IInv'
<1>1. /\ k \notin keys /\ keys' = keys \cup {k} /\ asking' = asking \cup {k}
      /\ UNCHANGED <<stop, expired, first, continued, pages, direct, events>>
      /\ UNCHANGED <<pc, work, immediate, quantum, late, seen, firstBurst, last, bypassed>>
      /\ UNCHANGED <<writer, allowed, bytes, files>>
  BY DEF Ask, stopVars, workerVars, writerVars
<1>2. TypeOK'
  BY <1>1 DEF IInv, TypeOK, AtMostOne
<1>3. WorkOk'
  BY <1>1, LoopStays DEF IInv
<1>4. PickerOk'
  BY <1>1, PickerStays DEF IInv
<1>5. BytesOk'
  BY <1>1, WriterStays DEF IInv, writerVars
<1>6. KeysOk'
  <2>1. /\ Held(first') = Held(first) /\ Held(continued') = Held(continued)
        /\ Held(work') = Held(work) /\ Held(immediate') = Held(immediate)
        /\ Distinct(first') /\ Distinct(continued')
    BY <1>1 DEF IInv, KeysOk
  <2>2. QED
    BY <1>1, <2>1 DEF IInv, KeysOk
<1>7. QED
  BY <1>2, <1>3, <1>4, <1>5, <1>6 DEF IInv

\* A request goes from its producer's hands into the queue, or gives its key back.
LEMMA EnqueueIInv ==
  ASSUME IInv, NEW k \in Keys, Enqueue(k)
  PROVE  IInv'
<1> DEFINE r == [key |-> k, offset |-> 0]
<1>1. /\ k \in asking /\ asking' = asking \ {k}
      /\ UNCHANGED <<stop, expired, continued, pages, direct, events>>
      /\ UNCHANGED <<pc, work, immediate, quantum, late, seen, firstBurst, last, bypassed>>
      /\ UNCHANGED <<writer, allowed, bytes, files>>
  BY DEF Enqueue, stopVars, workerVars, writerVars
<1>2. \/ Len(first) < FirstLimit /\ first' = Append(first, r) /\ keys' = keys
      \/ keys' = keys \ {k} /\ first' = first
  BY DEF Enqueue
<1>3. /\ r \in Requests /\ r.key = k
      /\ first \in Seq(Requests) /\ Len(first) \in Nat
      /\ k \notin Held(first)
  BY <1>1 DEF IInv, TypeOK, KeysOk, Requests
<1>4. /\ first' \in Seq(Requests) /\ Len(first') <= FirstLimit
      /\ first' = first \/ first' # <<>>
      /\ Distinct(first')
      /\ \/ Held(first') = Held(first) \cup {k} /\ keys' = keys
         \/ Held(first') = Held(first) /\ keys' = keys \ {k}
  <2>1. CASE Len(first) < FirstLimit /\ first' = Append(first, r) /\ keys' = keys
    <3>1. first' \in Seq(Requests) /\ Len(first') = Len(first) + 1
          /\ Held(first') = Held(first) \cup {k} /\ Distinct(first')
      BY <1>3, <2>1, HeldAppend DEF IInv, KeysOk
    <3>2. first' # <<>>
      BY <1>3, <3>1
    <3>3. Len(first') <= FirstLimit
      BY <1>3, <2>1, <3>1, Limits
    <3>4. QED
      BY <2>1, <3>1, <3>2, <3>3
  <2>2. CASE keys' = keys \ {k} /\ first' = first
    BY <2>2 DEF IInv, TypeOK, KeysOk
  <2>3. QED
    BY <1>2, <2>1, <2>2
<1>5. TypeOK'
  <2>1. asking' \subseteq keys' /\ keys' \subseteq Keys
    BY <1>1, <1>2 DEF IInv, TypeOK
  <2>2. QED
    BY <1>1, <1>4, <2>1 DEF IInv, TypeOK, AtMostOne
<1>6. WorkOk'
  BY <1>1, LoopStays DEF IInv
<1>7. PickerOk'
  BY <1>1, <1>4, PickerStays DEF IInv
<1>8. BytesOk'
  BY <1>1, WriterStays DEF IInv, writerVars
<1>9. KeysOk'
  <2>1. Held(continued') = Held(continued) /\ Distinct(continued')
    BY <1>1 DEF IInv, KeysOk
  <2>2. Held(work') = Held(work) /\ Held(immediate') = Held(immediate)
    BY <1>1
  <2>3. QED
    BY <1>1, <1>4, <2>1, <2>2 DEF IInv, KeysOk
<1>10. QED
  BY <1>5, <1>6, <1>7, <1>8, <1>9 DEF IInv

-------------------------------------------------------------------------------
(* CaptureLoop *)

\* The loop ends, or goes from one page to the next, or looks at the queues:
\* no request changes its queue but from one hand to the other.
LEMMA TopIInv ==
  ASSUME IInv, LeaveLoop \/ Resume \/ Sample \/ CheckBudget
  PROVE  IInv'
<1>1. /\ UNCHANGED <<stop, expired, keys, asking, first, continued, pages, direct, events>>
      /\ UNCHANGED <<firstBurst, last, bypassed>>
      /\ UNCHANGED <<writer, allowed, bytes, files>>
  BY DEF LeaveLoop, Resume, Sample, CheckBudget, stopVars, queueVars, writerVars
<1>2. \/ UNCHANGED <<work, immediate>>
      \/ /\ work = <<>> /\ work' = immediate /\ immediate' = <<>>
         /\ immediate # <<>>
  BY DEF LeaveLoop, Resume, Sample, CheckBudget, IInv, WorkOk
<1>3. TypeOK'
  <2>1. AtMostOne(work', Requests) /\ AtMostOne(immediate', Requests)
    <3>1. AtMostOne(<<>>, Requests)
      BY DEF AtMostOne
    <3>2. QED
      BY <1>2, <3>1 DEF IInv, TypeOK
  <2>2. pc' \in {"top", "pick", "check", "read", "finish", "done"}
        /\ late' \in BOOLEAN /\ seen' \in BOOLEAN
    BY DEF LeaveLoop, Resume, Sample, CheckBudget, IInv, TypeOK
  <2>3. quantum' \in 0 .. Quantum
    BY Limits DEF LeaveLoop, Resume, Sample, CheckBudget, IInv, TypeOK, WorkOk
  <2>4. QED
    BY <1>1, <2>1, <2>2, <2>3 DEF IInv, TypeOK
<1>4. WorkOk'
  BY <1>1 DEF LeaveLoop, Resume, Sample, CheckBudget, IInv, WorkOk
<1>5. PickerOk'
  <2>1. pc' = "pick" => seen' = (first' # <<>>)
    BY <1>1 DEF LeaveLoop, Resume, Sample, CheckBudget
  <2>2. pc' = "pick" => (seen' <=> first' # <<>>)
    BY <2>1
  <2>3. QED
    BY <1>1, <2>2, PickerStays DEF IInv
<1>6. BytesOk'
  BY <1>1, WriterStays DEF IInv, writerVars
<1>7. KeysOk'
  <2>1. CASE UNCHANGED <<work, immediate>>
    BY <1>1, <2>1, KeysStay DEF IInv, queueVars
  <2>2. CASE work = <<>> /\ work' = immediate /\ immediate' = <<>>
    <3>1. Held(work') = Held(immediate) /\ Held(work) = {} /\ Held(immediate') = {}
      BY <2>2, HeldFew
    <3>2. Held(first') = Held(first) /\ Held(continued') = Held(continued)
          /\ Distinct(first') /\ Distinct(continued')
      BY <1>1 DEF IInv, KeysOk
    <3>3. QED
      BY <1>1, <3>1, <3>2 DEF IInv, KeysOk
  <2>3. QED
    BY <1>2, <2>1, <2>2
<1>8. QED
  BY <1>3, <1>4, <1>5, <1>6, <1>7 DEF IInv

\* Where seen is true there is a first request to take.
LEMMA SeenIsThere ==
  ASSUME IInv, pc = "pick", seen
  PROVE  first # <<>>
  BY DEF IInv, PickerOk

\* A first request is taken.
LEMMA DispatchFirstIInv ==
  ASSUME IInv, DispatchFirst
  PROVE  IInv'
<1>1. /\ pc = "pick" /\ seen
      /\ work' = <<Head(first)>> /\ first' = Tail(first)
      /\ firstBurst' = IF firstBurst < Burst THEN firstBurst + 1 ELSE Burst
      /\ last' = "first" /\ bypassed' = {} /\ seen' = FALSE /\ pc' = "check"
      /\ UNCHANGED <<stop, expired, keys, asking, continued, immediate, quantum, late>>
      /\ UNCHANGED <<pages, direct, events, writer, allowed, bytes, files>>
  BY DEF DispatchFirst, TurnOfFirst, stopVars, writerVars
<1>2. first # <<>> /\ work = <<>>
  BY <1>1, SeenIsThere DEF IInv, WorkOk
<1>3. /\ Head(first) \in Requests
      /\ Tail(first) \in Seq(Requests) /\ Len(Tail(first)) = Len(first) - 1
      /\ Held(first) = Held(Tail(first)) \cup {Head(first).key}
      /\ Head(first).key \notin Held(Tail(first))
      /\ Distinct(Tail(first))
  BY <1>2, HeldTail DEF IInv, TypeOK, KeysOk
<1>4. TypeOK'
  <2>1. AtMostOne(work', Requests)
    BY <1>1, <1>3 DEF AtMostOne
  <2>2. first' \in Seq(Requests) /\ Len(first') <= FirstLimit
    BY <1>1, <1>3, Limits DEF IInv, TypeOK
  <2>3. firstBurst' \in 0 .. Burst
    BY <1>1, Limits DEF IInv, TypeOK
  <2>4. QED
    BY <1>1, <2>1, <2>2, <2>3 DEF IInv, TypeOK
<1>5. WorkOk'
  BY <1>1 DEF IInv, WorkOk
<1>6. PickerOk'
  BY <1>1 DEF PickerOk
<1>7. BytesOk'
  BY <1>1, WriterStays DEF IInv, writerVars
<1>8. KeysOk'
  <2>1. Held(work') = {Head(first).key} /\ Held(work) = {}
    BY <1>1, <1>2, HeldFew
  <2>2. Held(continued') = Held(continued) /\ Held(immediate') = Held(immediate)
        /\ Distinct(continued')
    BY <1>1 DEF IInv, KeysOk
  <2>3. QED
    BY <1>1, <1>3, <2>1, <2>2 DEF IInv, KeysOk
<1>9. QED
  BY <1>4, <1>5, <1>6, <1>7, <1>8 DEF IInv

\* A continuation is taken.
LEMMA DispatchContinuedIInv ==
  ASSUME IInv, DispatchContinued
  PROVE  IInv'
<1>1. /\ pc = "pick" /\ continued # <<>>
      /\ work' = <<Head(continued)>> /\ continued' = Tail(continued)
      /\ firstBurst' = 0 /\ last' = "continued" /\ bypassed' = Held(first)
      /\ seen' = FALSE /\ pc' = "check"
      /\ UNCHANGED <<stop, expired, keys, asking, first, immediate, quantum, late>>
      /\ UNCHANGED <<pages, direct, events, writer, allowed, bytes, files>>
  BY DEF DispatchContinued, TurnOfContinued, Held, stopVars, writerVars
<1>2. work = <<>>
  BY <1>1 DEF IInv, WorkOk
<1>3. /\ Head(continued) \in Requests
      /\ Tail(continued) \in Seq(Requests) /\ Len(Tail(continued)) = Len(continued) - 1
      /\ Held(continued) = Held(Tail(continued)) \cup {Head(continued).key}
      /\ Head(continued).key \notin Held(Tail(continued))
      /\ Distinct(Tail(continued))
  BY <1>1, HeldTail DEF IInv, TypeOK, KeysOk
<1>4. TypeOK'
  <2>1. AtMostOne(work', Requests)
    BY <1>1, <1>3 DEF AtMostOne
  <2>2. continued' \in Seq(Requests) /\ Len(continued') <= ContinuedLimit
    BY <1>1, <1>3, Limits DEF IInv, TypeOK
  <2>3. bypassed' \subseteq Keys
    BY <1>1 DEF IInv, TypeOK, KeysOk
  <2>4. firstBurst' \in 0 .. Burst
    BY <1>1, Limits
  <2>5. QED
    BY <1>1, <2>1, <2>2, <2>3, <2>4 DEF IInv, TypeOK
<1>5. WorkOk'
  BY <1>1 DEF IInv, WorkOk
<1>6. PickerOk'
  <2>1. bypassed' # {} => first # <<>>
    BY <1>1, HeldFew
  <2>2. QED
    BY <1>1, <2>1 DEF PickerOk
<1>7. BytesOk'
  BY <1>1, WriterStays DEF IInv, writerVars
<1>8. KeysOk'
  <2>1. Held(work') = {Head(continued).key} /\ Held(work) = {}
    BY <1>1, <1>2, HeldFew
  <2>2. Held(first') = Held(first) /\ Held(immediate') = Held(immediate)
        /\ Distinct(first')
    BY <1>1 DEF IInv, KeysOk
  <2>3. QED
    BY <1>1, <1>3, <2>1, <2>2 DEF IInv, KeysOk
<1>9. QED
  BY <1>4, <1>5, <1>6, <1>7, <1>8 DEF IInv

\* After a page the request stays in hand, goes to the back of the continued
\* ones or ends.
LEMMA RotateKeeps ==
  ASSUME IInv, pc = "read", NEW fatal \in BOOLEAN, Rotate(NextPage, fatal),
         UNCHANGED <<stop, keys, asking, first, seen, firstBurst, last, bypassed>>
  PROVE  /\ pc' \in {"top", "finish"} /\ late' \in BOOLEAN
         /\ AtMostOne(work', Requests) /\ AtMostOne(immediate', Requests)
         /\ quantum' \in 0 .. Quantum
         /\ continued' \in Seq(Requests) /\ Len(continued') <= ContinuedLimit
         /\ WorkOk' /\ PickerOk' /\ KeysOk'
<1> DEFINE r == NextPage
           k == work[1].key
<1>1. /\ work # <<>> /\ immediate = <<>>
      /\ work[1] \in Requests /\ Held(work) = {k}
      /\ continued \in Seq(Requests) /\ Len(continued) \in Nat
      /\ quantum \in 0 .. Quantum
      /\ Held(immediate) = {} /\ k \notin Held(continued)
  <2>1. work # <<>> /\ immediate = <<>>
    BY DEF IInv, WorkOk
  <2>2. work[1] \in Requests /\ Held(work) = {k}
    BY <2>1, HeldInHand DEF IInv, TypeOK
  <2>3. Held(immediate) = {}
    BY <2>1, HeldFew
  <2>4. QED
    BY <2>1, <2>2, <2>3 DEF IInv, TypeOK, KeysOk
<1>2. r \in Requests /\ r.key = k
  BY <1>1 DEF NextPage, Requests
<1>3. \/ /\ pc' = "top" /\ work' = <<>> /\ immediate' = <<r>> /\ quantum' = quantum
         /\ quantum < Quantum /\ continued' = continued
      \/ /\ pc' = "top" /\ work' = <<>> /\ immediate' = <<>> /\ quantum' = 0
         /\ Len(continued) < ContinuedLimit /\ continued' = Append(continued, r)
      \/ /\ pc' = "finish" /\ work' = <<r>> /\ immediate' = <<>> /\ quantum' = 0
         /\ continued' = continued
  BY DEF Rotate
<1>4. late' = FALSE
  BY DEF Rotate
<1> HIDE DEF r, k
<1>5. /\ Held(<<>>) = {} /\ Held(<<r>>) = {k}
      /\ AtMostOne(<<>>, Requests) /\ AtMostOne(<<r>>, Requests)
  BY <1>2, HeldFew DEF AtMostOne
<1>6. /\ Append(continued, r) \in Seq(Requests)
      /\ Len(Append(continued, r)) = Len(continued) + 1
      /\ Held(Append(continued, r)) = Held(continued) \cup {k}
      /\ Distinct(Append(continued, r))
  BY <1>1, <1>2, HeldAppend DEF IInv, KeysOk
<1>7. continued' \in Seq(Requests) /\ Len(continued') <= ContinuedLimit
      /\ Distinct(continued')
  <2>1. CASE continued' = continued
    BY <2>1 DEF IInv, TypeOK, KeysOk
  <2>2. CASE Len(continued) < ContinuedLimit /\ continued' = Append(continued, r)
    <3>1. Len(continued) + 1 <= ContinuedLimit
      BY <1>1, <2>2, Limits
    <3>2. QED
      BY <1>6, <2>2, <3>1
  <2>3. QED
    BY <1>3, <2>1, <2>2
<1>8. AtMostOne(work', Requests) /\ AtMostOne(immediate', Requests)
      /\ quantum' \in 0 .. Quantum
  BY <1>1, <1>3, <1>5, Limits
<1>9. WorkOk'
  <2>1. <<r>> # <<>>
    OBVIOUS
  <2>2. stop' \notin {"writer", "stopped"}
    BY DEF IInv, WorkOk
  <2>3. immediate' # <<>> => quantum' < Quantum
    BY <1>3
  <2>4. (work' # <<>>) = (pc' \in {"check", "read", "finish"})
    BY <1>3, <2>1
  <2>5. pc' # "top" => immediate' = <<>>
    BY <1>3
  <2>6. QED
    BY <2>2, <2>3, <2>4, <2>5 DEF WorkOk
<1>10. PickerOk'
  BY <1>3, PickerStays DEF IInv
<1>11. KeysOk'
  <2>1. Held(first') = Held(first) /\ Distinct(first')
    BY DEF IInv, KeysOk
  <2>2. \/ /\ Held(work') = {} /\ Held(immediate') = {k}
           /\ Held(continued') = Held(continued)
        \/ /\ Held(work') = {} /\ Held(immediate') = {}
           /\ Held(continued') = Held(continued) \cup {k}
        \/ /\ Held(work') = {k} /\ Held(immediate') = {}
           /\ Held(continued') = Held(continued)
    BY <1>3, <1>5, <1>6
  <2>3. QED
    BY <1>1, <1>7, <2>1, <2>2 DEF IInv, KeysOk
<1>12. QED
  BY <1>3, <1>4, <1>7, <1>8, <1>9, <1>10, <1>11

\* A page is read or missed.
LEMMA PageIInv ==
  ASSUME IInv, ReadPage \/ MissPage
  PROVE  IInv'
<1>1. /\ pc = "read"
      /\ \E fatal \in BOOLEAN : Rotate(NextPage, fatal)
      /\ UNCHANGED <<stop, expired, keys, asking, first, seen, firstBurst, last, bypassed>>
      /\ UNCHANGED <<direct, writer, allowed, bytes, files>>
  BY DEF ReadPage, MissPage, stopVars, writerVars
<1>2. pages' \in 0 .. PageLimit /\ events' \in 0 .. EventLimit
  <2>1. CASE ReadPage
    BY <2>1, Limits DEF ReadPage, IInv, TypeOK
  <2>2. CASE MissPage
    BY <2>2, EventsBounded DEF MissPage, IInv, TypeOK
  <2>3. QED
    BY <2>1, <2>2
<1>3. /\ pc' \in {"top", "finish"} /\ late' \in BOOLEAN
      /\ AtMostOne(work', Requests) /\ AtMostOne(immediate', Requests)
      /\ quantum' \in 0 .. Quantum
      /\ continued' \in Seq(Requests) /\ Len(continued') <= ContinuedLimit
      /\ WorkOk' /\ PickerOk' /\ KeysOk'
  BY <1>1, RotateKeeps
<1>4. TypeOK'
  BY <1>1, <1>2, <1>3 DEF IInv, TypeOK
<1>5. BytesOk'
  BY <1>1, WriterStays DEF IInv, writerVars
<1>6. QED
  BY <1>3, <1>4, <1>5 DEF IInv

\* A request ends and frees its key.
LEMMA FinishIInv ==
  ASSUME IInv, FinishRequest
  PROVE  IInv'
<1>1. /\ pc = "finish" /\ events' = Emitted
      /\ keys' = keys \ {work[1].key} /\ work' = <<>> /\ pc' = "top"
      /\ UNCHANGED <<stop, expired, asking, first, continued, immediate, quantum, late>>
      /\ UNCHANGED <<seen, firstBurst, last, bypassed, pages, direct>>
      /\ UNCHANGED <<writer, allowed, bytes, files>>
  BY DEF FinishRequest, stopVars, writerVars
<1>2. work # <<>> /\ Held(work) = {work[1].key} /\ Held(work') = {}
  BY <1>1, HeldInHand, HeldFew DEF IInv, TypeOK, WorkOk
<1>3. TypeOK'
  <2>1. AtMostOne(work', Requests)
    BY <1>1 DEF AtMostOne
  <2>2. asking' \subseteq keys' /\ keys' \subseteq Keys
    BY <1>1, <1>2 DEF IInv, TypeOK, KeysOk
  <2>3. events' \in 0 .. EventLimit
    BY <1>1, EventsBounded DEF IInv
  <2>4. QED
    BY <1>1, <2>1, <2>2, <2>3 DEF IInv, TypeOK
<1>4. WorkOk'
  BY <1>1 DEF IInv, WorkOk
<1>5. PickerOk'
  BY <1>1, PickerStays DEF IInv
<1>6. BytesOk'
  BY <1>1, WriterStays DEF IInv, writerVars
<1>7. KeysOk'
  <2>1. Held(first') = Held(first) /\ Held(continued') = Held(continued)
        /\ Held(immediate') = Held(immediate)
        /\ Distinct(first') /\ Distinct(continued')
    BY <1>1 DEF IInv, KeysOk
  <2>2. QED
    BY <1>1, <1>2, <2>1 DEF IInv, KeysOk
<1>8. QED
  BY <1>3, <1>4, <1>5, <1>6, <1>7 DEF IInv

-------------------------------------------------------------------------------
(* CaptureWriterLoop *)

\* The writer's steps keep the account.
LEMMA WriterIInv ==
  ASSUME IInv, Writer
  PROVE  IInv'
<1>1. /\ UNCHANGED <<stopVars, queueVars, workerVars, direct>>
      /\ UNCHANGED <<stop, expired, keys, asking, first, continued>>
      /\ UNCHANGED <<pc, work, immediate, quantum, late, seen, firstBurst, last, bypassed>>
  BY DEF Writer, LeaveWriter, TakePage, Reserve, Write, Report, stopVars,
     queueVars, workerVars
<1>2. pages' \in 0 .. PageLimit /\ events' \in 0 .. EventLimit
  BY EventsBounded, Limits DEF Writer, LeaveWriter, TakePage, Reserve,
     Write, Report, IInv, TypeOK
<1>3. /\ writer' \in {"top", "reserve", "write", "report", "done"}
      /\ allowed' \in BOOLEAN
      /\ bytes' \in 0 .. Budget /\ files' \in 0 .. Budget
      /\ BytesOk'
  <2> USE Limits DEF IInv, TypeOK, BytesOk, BytesAreFiles
  <2>1. CASE LeaveWriter
    BY <2>1 DEF LeaveWriter
  <2>2. CASE TakePage
    BY <2>2 DEF TakePage
  <2>3. CASE Reserve
    <3>1. ~ allowed /\ bytes = files /\ bytes \in 0 .. Budget /\ writer' = "write"
          /\ files' = files
      BY <2>3 DEF Reserve
    <3>2. CASE bytes < Budget
      <4>1. bytes' = bytes + 1 /\ allowed' = TRUE
        BY <2>3, <3>2 DEF Reserve
      <4>2. bytes + 1 \in 0 .. Budget /\ bytes + 1 <= Budget
        BY <3>1, <3>2
      <4>3. QED
        BY <3>1, <4>1, <4>2
    <3>3. CASE ~ (bytes < Budget)
      <4>1. bytes' = bytes /\ allowed' = FALSE
        BY <2>3, <3>3 DEF Reserve
      <4>2. QED
        BY <3>1, <4>1
    <3>4. QED
      BY <3>2, <3>3
  <2>4. CASE Report
    BY <2>4 DEF Report
  <2>5. ASSUME NEW written \in BOOLEAN, Write(written)
        PROVE  /\ writer' = "report" /\ allowed' = FALSE
               /\ bytes' \in 0 .. Budget /\ files' \in 0 .. Budget
               /\ bytes' = files'
    BY <2>5 DEF Write
  <2>6. CASE \E written \in BOOLEAN : Write(written)
    <3>1. /\ writer' = "report" /\ allowed' = FALSE
          /\ bytes' \in 0 .. Budget /\ files' \in 0 .. Budget
          /\ bytes' = files'
      BY <2>5, <2>6
    <3>2. bytes' = files' + 0 /\ bytes' <= Budget
      <4>1. \A n \in 0 .. Budget : n = n + 0 /\ n <= Budget
        OBVIOUS
      <4>2. QED
        BY <3>1, <4>1
    <3>3. QED
      BY <3>1, <3>2
  <2>7. QED
    BY <2>1, <2>2, <2>3, <2>4, <2>6 DEF Writer
<1>4. TypeOK'
  BY <1>1, <1>2, <1>3 DEF IInv, TypeOK, AtMostOne
<1>5. WorkOk'
  BY <1>1, LoopStays DEF IInv
<1>6. PickerOk'
  BY <1>1, PickerStays DEF IInv
<1>7. KeysOk'
  BY <1>1, KeysStay DEF IInv
<1>8. QED
  BY <1>3, <1>4, <1>5, <1>6, <1>7 DEF IInv

-------------------------------------------------------------------------------
(* The theorems *)

\* Queues, hands, keys, picker and byte account agree in every reachable state,
\* for any requests, capacities, gates, burst, quantum and budget.
THEOREM Invariance == Spec => []IInv
<1>1. IInv /\ [Next]_vars => IInv'
  <2> SUFFICES ASSUME IInv, [Next]_vars PROVE IInv'
    OBVIOUS
  <2>1. CASE \E k \in Keys : Ask(k) \/ Enqueue(k)
    BY <2>1, AskIInv, EnqueueIInv
  <2>2. CASE \/ QueueCapturedBytes \/ Drain \/ RequestStop \/ LoopsEnd
             \/ JoinProducers \/ StopCaptures \/ Expire \/ StopWriter \/ EndStop
    BY <2>2, BesideIInv
  <2>3. CASE LeaveLoop \/ Resume \/ Sample \/ CheckBudget
    BY <2>3, TopIInv
  <2>4. CASE DispatchFirst \/ DispatchContinued
    BY <2>4, DispatchFirstIInv, DispatchContinuedIInv
  <2>5. CASE ReadPage \/ MissPage \/ FinishRequest
    BY <2>5, PageIInv, FinishIInv
  <2>6. CASE Writer
    BY <2>6, WriterIInv
  <2>7. CASE Start
    BY <2>7, StartIInv
  <2>8. CASE UNCHANGED vars
    <3>1. /\ UNCHANGED <<queueVars, workerVars, writerVars>>
          /\ UNCHANGED <<keys, asking, first, continued>>
          /\ UNCHANGED <<pc, work, immediate, quantum, late, seen, firstBurst, last, bypassed>>
          /\ UNCHANGED <<stop, expired, pages, direct, events>>
          /\ UNCHANGED <<writer, allowed, bytes, files>>
      BY <2>8 DEF vars, stopVars, queueVars, workerVars, writerVars
    <3>2. TypeOK'
      BY <3>1 DEF IInv, TypeOK, AtMostOne
    <3>3. WorkOk' /\ PickerOk' /\ BytesOk' /\ KeysOk'
      BY <3>1, LoopStays, PickerStays, WriterStays, KeysStay DEF IInv
    <3>4. QED
      BY <3>2, <3>3 DEF IInv
  <2>9. QED
    BY <2>1, <2>2, <2>3, <2>4, <2>5, <2>6, <2>7, <2>8 DEF Next, Writer
<1>2. QED
  BY <1>1, InitIInv, PTL DEF Spec

\* The variables keep their types; no queue outgrows its capacity.
THEOREM TypeCorrect == Spec => []TypeOK
<1>1. IInv => TypeOK
  BY DEF IInv
<1>2. QED
  BY <1>1, Invariance, PTL

\* A key is taken exactly while one request holds it.
THEOREM KeysAreRequests == Spec => []InFlightOnce
  BY PlacesOk, Invariance, PTL

\* The bytes charged are those of the files, within the budget.
THEOREM BytesAreAccounted == Spec => []BytesAreFiles
<1>1. IInv => BytesAreFiles
  BY DEF IInv, BytesOk
<1>2. QED
  BY <1>1, Invariance, PTL

\* No continuation goes twice in a row before the same waiting first request,
\* although the two queues are sampled one after the other.
THEOREM TurnsDoAlternate == Spec => TurnsAlternate
<1> DEFINE Fair == pc = "pick" /\ Len(continued') < Len(continued) => bypassed = {}
<1>1. IInv /\ [Next]_vars => [Fair]_vars
  <2> SUFFICES ASSUME IInv, Next, pc = "pick", Len(continued') < Len(continued)
               PROVE  bypassed = {}
    OBVIOUS
  <2>1. continued' # continued
    BY DEF IInv, TypeOK
  <2>2. ~ Start
    BY DEF Start, IInv, WorkOk
  <2>3. DispatchContinued
    BY <2>1, <2>2 DEF Next, Ask, Enqueue, QueueCapturedBytes, Drain, LeaveLoop,
       Resume, Sample, DispatchFirst, CheckBudget, ReadPage, MissPage,
       FinishRequest, LeaveWriter, TakePage, Reserve, Report, Write, RequestStop,
       LoopsEnd, JoinProducers, StopCaptures, Expire, StopWriter, EndStop,
       Advance, queueVars
  <2>4. QED
    BY <2>3, Limits DEF DispatchContinued, TurnOfContinued, IInv, TypeOK,
       PickerOk
<1>2. QED
  BY <1>1, Invariance, PTL DEF Spec, TurnsAlternate

-------------------------------------------------------------------------------
(* The end of a session *)

\* An asking key stands for a session whose captures are not yet stopping.
LEMMA AskingIsEarly ==
  ASSUME EndingOk, Producing \/ asking # {}
  PROVE  ~ CaptureStopping /\ ~ WriterStopping /\ pc # "done" /\ writer # "done"
  BY DEF EndingOk, Producing, CaptureStopping, WriterStopping

\* Requests and pages that arrive.
LEMMA ArrivalsEnding ==
  ASSUME IInv, EndingOk,
         QueueCapturedBytes \/ \E k \in Keys : Ask(k) \/ Enqueue(k)
  PROVE  EndingOk'
<1>1. /\ UNCHANGED <<stop, pc, seen, continued, immediate, writer>>
      /\ Producing \/ asking # {}
  BY DEF QueueCapturedBytes, Ask, Enqueue, stopVars, queueVars, workerVars, writerVars
<1>2. QED
  BY <1>1, AskingIsEarly DEF EndingOk, CaptureStopping, WriterStopping

\* The capture thread: it leaves only with nothing in its queues or hands.
LEMMA WorkerEnding ==
  ASSUME IInv, EndingOk, Worker
  PROVE  EndingOk'
<1> USE DEF EndingOk, CaptureStopping, WriterStopping, stopVars, queueVars,
            workerVars, writerVars
<1>1. pc # "done" /\ UNCHANGED <<stop, asking, writer>>
  BY DEF Worker, LeaveLoop, Resume, Sample, DispatchFirst, DispatchContinued,
         CheckBudget, ReadPage, MissPage, FinishRequest
<1>2. CASE LeaveLoop
  BY <1>1, <1>2 DEF LeaveLoop
<1>3. CASE Resume \/ Sample \/ CheckBudget \/ FinishRequest
  <2>1. /\ UNCHANGED pages /\ pc' # "done"
        /\ pc' = "pick" => seen' \/ continued' # <<>>
    BY <1>3 DEF Resume, Sample, CheckBudget, FinishRequest
  <2>2. QED
    BY <1>1, <2>1
<1>4. CASE DispatchFirst \/ DispatchContinued
  BY <1>1, <1>4 DEF DispatchFirst, DispatchContinued
<1>5. CASE ReadPage \/ MissPage
  <2>1. pc' \in {"top", "finish"}
    BY <1>5 DEF ReadPage, MissPage, Rotate
  <2>2. writer # "done"
    BY <1>5 DEF ReadPage, MissPage, IInv, WorkOk
  <2>3. QED
    BY <1>1, <2>1, <2>2
<1>6. QED
  BY <1>2, <1>3, <1>4, <1>5 DEF Worker

\* The writer: it leaves only when no page is left.
LEMMA WriterEnding ==
  ASSUME IInv, EndingOk, Writer
  PROVE  EndingOk'
<1> USE DEF EndingOk, CaptureStopping, WriterStopping, stopVars, queueVars,
            workerVars, writerVars
<1>1. /\ UNCHANGED <<stop, asking, pc, first, continued, immediate, seen>>
      /\ writer # "done"
  BY DEF Writer, LeaveWriter, TakePage, Reserve, Report, Write
<1>2. writer' = "done" => LeaveWriter
  BY DEF Writer, TakePage, Reserve, Report, Write
<1>3. LeaveWriter => WriterStopping' /\ pages' = 0
  BY DEF LeaveWriter
<1>4. QED
  BY <1>1, <1>2, <1>3

\* Stop, and the drain of the events.
LEMMA StopEnding ==
  ASSUME IInv, EndingOk,
         Drain \/ RequestStop \/ LoopsEnd \/ JoinProducers \/ StopCaptures
           \/ Expire \/ StopWriter \/ EndStop
  PROVE  EndingOk'
<1> USE DEF EndingOk, CaptureStopping, WriterStopping, stopVars, queueVars,
            workerVars, writerVars
<1>1. UNCHANGED <<asking, pc, first, continued, immediate, seen, writer, pages>>
  BY DEF Drain, RequestStop, LoopsEnd, JoinProducers, StopCaptures, Expire,
         StopWriter, EndStop, Advance
<1>2. /\ CaptureStopping' => asking = {}
      /\ CaptureStopping => CaptureStopping'
      /\ WriterStopping => WriterStopping'
      /\ stop' = "stopped" => writer = "done"
  BY DEF Drain, RequestStop, LoopsEnd, JoinProducers, StopCaptures, Expire,
         StopWriter, EndStop, Advance
<1>3. QED
  BY <1>1, <1>2

\* How far the threads are, beside the inductive invariant.
LEMMA Ending == Spec => []EndingOk
<1>1. Init => EndingOk
  BY DEF Init, EndingOk, CaptureStopping, WriterStopping
<1>2. IInv /\ EndingOk /\ [Next]_vars => EndingOk'
  <2> SUFFICES ASSUME IInv, EndingOk, [Next]_vars PROVE EndingOk'
    OBVIOUS
  <2>1. CASE QueueCapturedBytes \/ \E k \in Keys : Ask(k) \/ Enqueue(k)
    BY <2>1, ArrivalsEnding
  <2>2. CASE Worker
    BY <2>2, WorkerEnding
  <2>3. CASE Writer
    BY <2>3, WriterEnding
  <2>4. CASE Drain \/ RequestStop \/ LoopsEnd \/ JoinProducers \/ StopCaptures
               \/ Expire \/ StopWriter \/ EndStop
    BY <2>4, StopEnding
  <2>5. CASE Start
    BY <2>5 DEF Start, EndingOk, CaptureStopping, WriterStopping
  <2>6. CASE UNCHANGED vars
    BY <2>6 DEF vars, stopVars, queueVars, workerVars, writerVars, EndingOk,
                CaptureStopping, WriterStopping
  <2>7. QED
    BY <2>1, <2>2, <2>3, <2>4, <2>5, <2>6 DEF Next, Worker, Writer
<1>3. QED
  BY <1>1, <1>2, Invariance, PTL DEF Spec

\* Without a request in a queue, in hand or between the two, no key is taken.
LEMMA NoRequestNoKey ==
  ASSUME KeysOk, asking = {}, first = <<>>, continued = <<>>, work = <<>>,
         immediate = <<>>
  PROVE  keys = {}
<1>1. Held(<<>>) = {}
  BY HeldFew
<1>2. QED
  BY <1>1 DEF KeysOk

\* When Stop has returned, no request holds a key and no page waits: whatever
\* the deadline, the two joins come after the last request and the last page.
THEOREM StopLeavesNothing == Spec => []NothingIsLeft
<1>1. IInv /\ EndingOk => NothingIsLeft
  <2> SUFFICES ASSUME IInv, EndingOk, stop = "stopped"
               PROVE  keys = {} /\ pages = 0
    BY DEF NothingIsLeft
  <2>1. pages = 0 /\ pc = "done" /\ asking = {}
    BY DEF EndingOk, IInv, WorkOk, CaptureStopping
  <2>2. first = <<>> /\ continued = <<>> /\ work = <<>> /\ immediate = <<>>
    BY <2>1 DEF EndingOk, IInv, WorkOk
  <2>3. QED
    BY <2>1, <2>2, NoRequestNoKey DEF IInv
<1>2. QED
  BY <1>1, Invariance, Ending, PTL

\* A page that waits to be written gets somebody moving.
LEMMA PagesMove ==
  ASSUME IInv, EndingOk, pages > 0
  PROVE  CanWrite \/ CanDrain
<1>1. writer # "done"
  BY DEF EndingOk
<1>2. CASE writer = "report" /\ stop = "running" /\ ~ (events < EventGate)
  <2>1. EventGate \in Nat /\ EventGate >= 1 /\ events \in Nat
    <3>1. EventGate \in Nat \ {0} /\ events \in 0 .. EventLimit /\ EventLimit \in Nat
      BY LimitsAssumption, Limits DEF IInv, TypeOK
    <3>2. QED
      BY <3>1
  <2>2. events > 0
    BY <1>2, <2>1
  <2>3. QED
    BY <1>2, <2>2 DEF CanDrain
<1>3. CASE ~ (writer = "report" /\ stop = "running" /\ ~ (events < EventGate))
  BY <1>1, <1>3 DEF CanWrite, IInv, TypeOK
<1>4. QED
  BY <1>2, <1>3

\* A capture thread that is not done can go on, waits for a page to be written,
\* or has nothing to do while it is not to stop.
LEMMA LoopMoves ==
  ASSUME IInv, EndingOk, pc # "done", pages = 0,
         \/ CaptureStopping
         \/ first # <<>> \/ continued # <<>> \/ work # <<>> \/ immediate # <<>>
  PROVE  CanWork
<1>1. Open(Gate) /\ Open(ImmediateGate)
  <2>1. Gate \in Nat \ {0} /\ ImmediateGate \in Nat \ {0}
    BY LimitsAssumption
  <2>2. QED
    BY <2>1 DEF Open
<1>2. CASE pc = "top"
  <2>1. work = <<>>
    BY <1>2 DEF IInv, WorkOk
  <2>2. QED
    BY <1>1, <1>2, <2>1 DEF CanWork
<1>3. CASE pc = "pick"
  <2>1. seen \/ continued # <<>>
    BY <1>3 DEF EndingOk
  <2>2. Burst \in Nat /\ firstBurst \in 0 .. Burst
    BY Limits DEF IInv, TypeOK
  <2>3. TurnOfFirst \/ TurnOfContinued
    BY <2>1, <2>2 DEF TurnOfFirst, TurnOfContinued
  <2>4. QED
    BY <1>3, <2>3 DEF CanWork
<1>4. QED
  BY <1>2, <1>3 DEF CanWork, IInv, TypeOK

\* The pipeline never comes to a standstill before its work and its Stop are
\* done, for any gates, limits and burst: the two gates never close on each
\* other, and each join waits for a thread that can still end.
THEOREM PipelineNeverStalls == Spec => []PipelineCanMove
<1>1. IInv /\ EndingOk => PipelineCanMove
  <2> SUFFICES ASSUME IInv, EndingOk, asking = {},
                      keys # {} \/ pages > 0 \/ stop \notin {"running", "stopped"}
               PROVE  CanWork \/ CanWrite \/ CanStop \/ CanDrain
    BY DEF PipelineCanMove
  <2>1. pages \in Nat
    BY Limits DEF IInv, TypeOK
  <2>2. CASE pages > 0
    BY <2>2, PagesMove
  <2>3. CASE pages = 0 /\ stop \in {"asked", "ending", "joined"}
    BY <2>3 DEF CanStop
  <2>4. CASE pages = 0 /\ stop = "captures"
    BY <2>4, LoopMoves DEF CanStop, CaptureStopping
  <2>5. CASE pages = 0 /\ stop = "writer"
    <3>1. pc = "done"
      BY <2>5 DEF IInv, WorkOk
    <3>2. CASE writer = "done"
      BY <2>5, <3>1, <3>2 DEF CanStop
    <3>3. CASE writer # "done"
      BY <2>5, <3>3 DEF CanWrite, WriterStopping, IInv, TypeOK
    <3>4. QED
      BY <3>2, <3>3
  <2>6. CASE pages = 0 /\ stop \in {"running", "stopped"}
    <3>1. keys # {}
      BY <2>6
    <3>2. first # <<>> \/ continued # <<>> \/ work # <<>> \/ immediate # <<>>
      BY <3>1, NoRequestNoKey DEF IInv
    <3>3. pc # "done"
      BY <3>2 DEF EndingOk, IInv, WorkOk
    <3>4. QED
      BY <2>6, <3>2, <3>3, LoopMoves
  <2>7. QED
    BY <2>1, <2>2, <2>3, <2>4, <2>5, <2>6 DEF IInv, TypeOK
<1>2. QED
  BY <1>1, Invariance, Ending, PTL

-------------------------------------------------------------------------------
(* Event collection *)

\* The collector's limits are positive.
LEMMA IngestLimits ==
  /\ RingCapacity \in Nat /\ RingCapacity >= 1
  /\ QueueCapacity \in Nat /\ QueueCapacity >= 1
  /\ CollectLimit \in Nat /\ CollectLimit >= 1
  /\ DrainLimit \in Nat /\ DrainLimit >= 1
  /\ Attempts \in Nat /\ Attempts >= 1
<1>1. \A n \in Nat \ {0} : n \in Nat /\ n >= 1
  OBVIOUS
<1>2. {RingCapacity, QueueCapacity, CollectLimit, DrainLimit, Attempts} \subseteq Nat \ {0}
  BY IngestAssumption
<1>3. QED
  BY <1>1, <1>2

\* The sequences from a to b, none of them when b is before a.
LEMMA RangeIsSeq ==
  ASSUME NEW a \in Nat, NEW b \in Int
  PROVE  /\ FromTo(a, b) \in Seq(Nat)
         /\ Len(FromTo(a, b)) = IF a <= b THEN b - a + 1 ELSE 0
         /\ \A k \in 1 .. Len(FromTo(a, b)) : FromTo(a, b)[k] = a + k - 1
         /\ FromTo(a, b) # << >> <=> a <= b
<1> DEFINE n == IF a <= b THEN b - a + 1 ELSE 0
<1>1. n \in Nat /\ 1 .. b - a + 1 = 1 .. n
  OBVIOUS
<1>2. FromTo(a, b) = [k \in 1 .. n |-> a + k - 1]
  BY <1>1 DEF FromTo
<1>3. \A k \in 1 .. n : a + k - 1 \in Nat
  BY <1>1
<1> HIDE DEF n
<1>4. FromTo(a, b) \in Seq(Nat) /\ Len(FromTo(a, b)) = n
  BY <1>1, <1>2, <1>3
<1>5. \A k \in 1 .. n : FromTo(a, b)[k] = a + k - 1
  BY <1>2
<1>6. FromTo(a, b) # << >> <=> n # 0
  BY <1>4
<1>7. n # 0 <=> a <= b
  BY DEF n
<1>8. n = IF a <= b THEN b - a + 1 ELSE 0
  BY DEF n
<1>9. QED
  BY <1>4, <1>5, <1>6, <1>7, <1>8

\* Removing from the front.
LEMMA RemovedIsSeq ==
  ASSUME NEW S, NEW s \in Seq(S), NEW n \in Nat
  PROVE  /\ WithoutFirst(s, n) \in Seq(S)
         /\ Len(WithoutFirst(s, n)) = Len(s) - Least(n, Len(s))
<1>1. Least(n, Len(s)) \in 0 .. Len(s)
  BY DEF Least
<1>2. QED
  BY <1>1 DEF WithoutFirst

-------------------------------------------------------------------------------
(* A page and its taking *)

\* The types that the arithmetic below needs.
PageType == [gen : Nat, cursor : Nat, room : Nat, attempt : 0 .. Attempts,
             latest : Nat, missing : Nat, first : Nat, last : Nat]

\* The same request to the ring.
SameRequest(q, p) == q.gen = p.gen /\ q.cursor = p.cursor /\ q.room = p.room /\ q.attempt = p.attempt

\* What the ring still has after the cursor fits.
LEMMA SnapshotFits ==
  ASSUME IngestTypeOK, RingOk, NEW p \in PageType, p.cursor < nextSeq, 0 < p.room
  PROVE  /\ SnapshotTiSequenceRange(p) \in PageType
         /\ PageFits(SnapshotTiSequenceRange(p))
         /\ SameRequest(SnapshotTiSequenceRange(p), p)
<1> DEFINE q == SnapshotTiSequenceRange(p)
<1>1. PICK c \in Nat, r \in Nat, o \in Nat, s \in Nat :
         p.cursor = c /\ p.room = r /\ ringFirst = o /\ nextSeq = s
  BY DEF PageType, IngestTypeOK
<1>2. c < s /\ 0 < r /\ o <= s
  BY <1>1 DEF RingOk
<1>3. PICK f \in Nat : f = Greatest(c + 1, o)
  BY DEF Greatest
<1>4. c < f /\ f <= s
  BY <1>2, <1>3 DEF Greatest
<1>5. PICK e \in Nat : e = Least(f + r - 1, s - 1)
  BY <1>2, <1>4 DEF Least
<1>6. e <= s - 1 /\ e - f < r /\ (f <= s - 1 => f <= e)
  BY <1>2, <1>4, <1>5 DEF Least
<1>7. PICK m \in Nat : m = IF c = 0 THEN 0 ELSE f - 1 - c
  <2>1. (IF c = 0 THEN 0 ELSE f - 1 - c) \in Nat
    BY <1>4
  <2>2. QED
    BY <2>1, Zenon
<1>8. m = IF c = 0 THEN 0 ELSE Least(f - 1, s - 1) - c
  BY <1>4, <1>7 DEF Least
<1>9. PICK l \in Nat : l = s - 1
  BY <1>2
<1>10. q = [p EXCEPT !.latest = l, !.missing = m, !.first = f, !.last = e]
  BY <1>1, <1>3, <1>5, <1>7, <1>9 DEF SnapshotTiSequenceRange
<1> HIDE DEF q
<1>11. /\ q \in PageType /\ SameRequest(q, p)
       /\ q.latest = l /\ q.missing = m /\ q.first = f /\ q.last = e /\ q.cursor = c /\ q.room = r
  BY <1>1, <1>10 DEF PageType, SameRequest
<1>12. c <= l /\ l < s /\ c < f /\ e <= l /\ e - f < r /\ (f <= l => f <= e)
  BY <1>2, <1>4, <1>6, <1>9
<1>13. PageFits(q)
  BY <1>1, <1>8, <1>9, <1>11, <1>12 DEF PageFits
<1>14. QED
  BY <1>11, <1>13 DEF q

\* Cut off at the end that Stop froze, it still does.
LEMMA FencedFits ==
  ASSUME IngestTypeOK, NEW p \in PageType, PageFits(p), p.cursor <= fence.last
  PROVE  /\ Fenced(p) \in PageType /\ PageFits(Fenced(p)) /\ SameRequest(Fenced(p), p)
         /\ Fenced(p).latest <= fence.last
<1> DEFINE q == Fenced(p)
<1>1. PICK c \in Nat, r \in Nat, l \in Nat, m \in Nat, f \in Nat, e \in Nat, z \in Nat, s \in Nat :
         /\ p.cursor = c /\ p.room = r /\ p.latest = l /\ p.missing = m /\ p.first = f /\ p.last = e
         /\ fence.last = z /\ nextSeq = s
  BY DEF PageType, IngestTypeOK
<1>2. /\ c <= l /\ l < s /\ c < f /\ e <= l /\ e - f < r /\ c <= z
      /\ f <= l => f <= e
      /\ m = IF c = 0 THEN 0 ELSE Least(f - 1, l) - c
  BY <1>1 DEF PageFits
<1>3. PICK l2 \in Nat, m2 \in Nat, e2 \in Nat :
         l2 = Least(l, z) /\ e2 = Least(e, z) /\ m2 = Least(m, z - c)
  <2>1. Least(l, z) \in Nat /\ Least(e, z) \in Nat /\ Least(m, z - c) \in Nat
    BY <1>2 DEF Least
  <2>2. QED
    BY <2>1, Zenon
<1>4. q = [p EXCEPT !.latest = l2, !.last = e2, !.missing = m2]
  BY <1>1, <1>3 DEF Fenced
<1> HIDE DEF q
<1>5. /\ q \in PageType /\ SameRequest(q, p)
      /\ q.latest = l2 /\ q.missing = m2 /\ q.first = f /\ q.last = e2 /\ q.cursor = c /\ q.room = r
  BY <1>1, <1>4 DEF PageType, SameRequest
<1>6. /\ c <= l2 /\ l2 < s /\ c < f /\ e2 <= l2 /\ e2 - f < r /\ l2 <= z
      /\ f <= l2 => f <= e2
      /\ m2 = IF c = 0 THEN 0 ELSE Least(f - 1, l2) - c
  BY <1>2, <1>3 DEF Least
<1>7. PageFits(q) /\ q.latest <= fence.last
  BY <1>1, <1>5, <1>6 DEF PageFits
<1>8. QED
  BY <1>5, <1>7 DEF q

\* A sequence after another.
LEMMA AppendedSeq ==
  ASSUME NEW s \in Seq(Nat), NEW t \in Seq(Nat)
  PROVE  /\ s \o t \in Seq(Nat) /\ Len(s \o t) = Len(s) + Len(t)
         /\ \A i \in 1 .. Len(s) : (s \o t)[i] = s[i]
         /\ \A i \in Len(s) + 1 .. Len(s) + Len(t) : (s \o t)[i] = t[i - Len(s)]
OBVIOUS

\* Increasing sequences within bounds, one after the other.
LEMMA IncreasingSeq ==
  ASSUME NEW s \in Seq(Nat), NEW t \in Seq(Nat), NEW low \in Nat, NEW mid \in Nat, NEW high \in Nat,
         low <= mid, mid <= high,
         \A i \in 1 .. Len(s) : low < s[i] /\ s[i] <= mid,
         \A i \in 1 .. Len(t) : mid < t[i] /\ t[i] <= high,
         \A i, j \in 1 .. Len(s) : i < j => s[i] < s[j],
         \A i, j \in 1 .. Len(t) : i < j => t[i] < t[j]
  PROVE  /\ \A i \in 1 .. Len(s \o t) : low < (s \o t)[i] /\ (s \o t)[i] <= high
         /\ \A i, j \in 1 .. Len(s \o t) : i < j => (s \o t)[i] < (s \o t)[j]
<1> DEFINE u == s \o t
           m == Len(s)
           n == Len(t)
<1>1. /\ m \in Nat /\ n \in Nat /\ Len(u) = m + n
      /\ \A i \in 1 .. m : u[i] = s[i]
      /\ \A i \in m + 1 .. m + n : u[i] = t[i - m]
  BY AppendedSeq
<1>2. \A i \in 1 .. m : s[i] \in Nat
  OBVIOUS
<1>3. \A i \in 1 .. n : t[i] \in Nat
  OBVIOUS
<1>4. \A i \in m + 1 .. m + n : i - m \in 1 .. n
  BY <1>1
<1> HIDE DEF u, m, n
<1>5. \A i \in 1 .. m + n : i \in 1 .. m \/ i \in m + 1 .. m + n
  BY <1>1
<1>6. \A i \in 1 .. m : u[i] \in Nat /\ low < u[i] /\ u[i] <= mid
  BY <1>1, <1>2 DEF m
<1>7. \A i \in m + 1 .. m + n : u[i] \in Nat /\ mid < u[i] /\ u[i] <= high
  BY <1>1, <1>3, <1>4 DEF n
<1>8. \A i \in 1 .. m + n : low < u[i] /\ u[i] <= high
  BY <1>5, <1>6, <1>7
<1>9. \A i, j \in 1 .. m + n : i < j => u[i] < u[j]
  <2> SUFFICES ASSUME NEW i \in 1 .. m + n, NEW j \in 1 .. m + n, i < j
               PROVE  u[i] < u[j]
    OBVIOUS
  <2>1. CASE i \in 1 .. m /\ j \in 1 .. m
    BY <1>1, <2>1 DEF m
  <2>2. CASE i \in 1 .. m /\ j \in m + 1 .. m + n
    BY <1>6, <1>7, <2>2
  <2>3. CASE i \in m + 1 .. m + n /\ j \in m + 1 .. m + n
    <3>1. i - m \in 1 .. n /\ j - m \in 1 .. n /\ i - m < j - m
      BY <1>1, <1>4, <2>3
    <3>2. t[i - m] < t[j - m]
      BY <3>1 DEF n
    <3>3. QED
      BY <1>1, <2>3, <3>2
  <2>4. ~ (i \in m + 1 .. m + n /\ j \in 1 .. m)
    BY <1>1
  <2>5. QED
    BY <1>5, <2>1, <2>2, <2>3, <2>4
<1>10. QED
  BY <1>1, <1>8, <1>9 DEF u

\* The page goes on from the cursor, or from where a later session began, and
\* fits the queue.
GoesOn(p) ==
  /\ tiGen <= p.gen /\ tiCursor <= p.cursor
  /\ p.gen = tiGen => p.cursor = tiCursor
  /\ p.gen # tiGen => tiCursor < firstSeq /\ p.cursor = firstSeq - 1
  /\ p.room + Len(tiQueue) <= QueueCapacity

\* A page that fits is put in the queue whole.
LEMMA AllAdmitted ==
  ASSUME IngestTypeOK, NEW p \in PageType, PageFits(p), GoesOn(p)
  PROVE  SubSeq(FromTo(p.first, p.last), 1,
                Least(QueueCapacity - Len(tiQueue), Len(FromTo(p.first, p.last)))) = FromTo(p.first, p.last)
<1>1. PICK r \in Nat, f \in Nat, e \in Nat : p.room = r /\ p.first = f /\ p.last = e
  BY DEF PageType
<1>2. PICK h \in Nat : Len(tiQueue) = h
  <2>1. tiQueue \in Seq(Nat)
    BY DEF IngestTypeOK
  <2>2. Len(tiQueue) \in Nat
    BY <2>1
  <2>3. QED
    BY <2>2, Zenon
<1>3. e - f < r /\ r + h <= QueueCapacity
  BY <1>1, <1>2 DEF PageFits, GoesOn
<1> DEFINE records == FromTo(f, e)
<1>4. e \in Int
  OBVIOUS
<1>5. records \in Seq(Nat) /\ Len(records) = IF f <= e THEN e - f + 1 ELSE 0
  BY <1>4, RangeIsSeq, Zenon
<1> HIDE DEF records
<1>6. PICK n \in Nat : n = Len(records)
  <2>1. Len(records) \in Nat
    BY <1>5
  <2>2. QED
    BY <2>1, Zenon
<1>7. n <= QueueCapacity - h
  BY <1>3, <1>5, <1>6, IngestLimits
<1>8. Least(QueueCapacity - h, n) = n
  BY <1>7, IngestLimits DEF Least
<1>9. SubSeq(records, 1, n) = records
  BY <1>5, <1>6
<1>10. QED
  BY <1>1, <1>2, <1>6, <1>8, <1>9 DEF records

\* Taking a page that fits the cursor and the queue: what is passed is taken or
\* counted, in order and once.
LEMMA TakingAPage ==
  ASSUME IngestTypeOK, RingOk, QueueOk, OnceInOrder, GapsAreCounted,
         NEW p \in PageType, PageFits(p), GoesOn(p), Commit(p), UNCHANGED armed
  PROVE  /\ tiGen' = p.gen /\ tiCursor' \in Nat /\ lost' \in Nat /\ waived' \in Nat
         /\ tiQueue' \in Seq(Nat) /\ taken' \in Seq(Nat)
         /\ p.cursor <= tiCursor' /\ tiCursor' <= p.latest
         /\ Len(tiQueue') <= QueueCapacity
         /\ Len(taken') - Len(taken) = Len(tiQueue') - Len(tiQueue)
         /\ \A i \in DOMAIN taken' : taken'[i] <= tiCursor'
         /\ OnceInOrder' /\ GapsAreCounted'
<1>1. PICK g0 \in Nat, c0 \in Nat, o \in Nat, w \in Nat, x \in Nat, a \in Nat :
         /\ tiGen = g0 /\ tiCursor = c0 /\ firstSeq = o /\ waived = w /\ lost = x /\ armed = a
         /\ a <= c0
  BY DEF IngestTypeOK, RingOk
<1>2. PICK g \in Nat, c \in Nat, r \in Nat, l \in Nat, m \in Nat, f \in Nat, e \in Nat :
         /\ p.gen = g /\ p.cursor = c /\ p.room = r /\ p.latest = l /\ p.missing = m
         /\ p.first = f /\ p.last = e
  BY DEF PageType
<1>3. /\ c <= l /\ c < f /\ e <= l /\ e - f < r
      /\ f <= l => f <= e
      /\ m = IF c = 0 THEN 0 ELSE Least(f - 1, l) - c
  BY <1>2 DEF PageFits
<1>4. PICK h \in Nat, u \in Nat : Len(tiQueue) = h /\ Len(taken) = u
  <2>1. tiQueue \in Seq(Nat) /\ taken \in Seq(Nat)
    BY DEF IngestTypeOK
  <2>2. Len(tiQueue) \in Nat /\ Len(taken) \in Nat
    BY <2>1
  <2>3. QED
    BY <2>2, Zenon
<1>5. c0 <= c /\ (g = g0 => c = c0) /\ (g # g0 => c0 < o /\ c = o - 1) /\ r + h <= QueueCapacity
  BY <1>1, <1>2, <1>4 DEF GoesOn
<1> DEFINE records == FromTo(f, e)
<1>6. PICK n \in Nat : n = IF f <= e THEN e - f + 1 ELSE 0
  <2>1. (IF f <= e THEN e - f + 1 ELSE 0) \in Nat
    OBVIOUS
  <2>2. QED
    BY <2>1, Zenon
<1>7. /\ records \in Seq(Nat) /\ Len(records) = n
      /\ \A i \in 1 .. n : records[i] = f + i - 1
      /\ records # << >> <=> n > 0
  <2>1. /\ records \in Seq(Nat) /\ Len(records) = n
        /\ \A i \in 1 .. Len(records) : records[i] = f + i - 1
        /\ records # << >> <=> f <= e
    <3>1. e \in Int
      OBVIOUS
    <3>2. /\ FromTo(f, e) \in Seq(Nat)
          /\ Len(FromTo(f, e)) = IF f <= e THEN e - f + 1 ELSE 0
          /\ \A i \in 1 .. Len(FromTo(f, e)) : FromTo(f, e)[i] = f + i - 1
          /\ FromTo(f, e) # << >> <=> f <= e
      BY <3>1, RangeIsSeq, Zenon
    <3>3. QED
      BY <1>6, <3>2, Zenon
  <2>2. f <= e <=> n > 0
    BY <1>6
  <2>3. QED
    BY <2>1, <2>2
<1>9. SubSeq(FromTo(p.first, p.last), 1,
             Least(QueueCapacity - Len(tiQueue), Len(FromTo(p.first, p.last)))) = records
  BY <1>2, AllAdmitted
<1>10. /\ tiGen' = p.gen
       /\ tiCursor' = IF FromTo(p.first, p.last) # << >> THEN p.last
                      ELSE IF p.cursor > p.latest \/ p.missing # 0 THEN p.latest ELSE p.cursor
       /\ lost' = lost + p.missing + IF p.cursor > p.latest THEN 1 ELSE 0
       /\ tiQueue' = tiQueue \o records /\ taken' = taken \o records
       /\ waived' = waived + Uncounted(p)
  BY <1>9 DEF Commit
<1> HIDE DEF records
<1>11. PICK d \in Nat, v \in Nat :
         /\ d = IF n > 0 THEN e ELSE IF m # 0 THEN l ELSE c
         /\ v = (IF g = g0 THEN 0 ELSE o - 1 - c0) + (IF c = 0 /\ f <= e THEN f - 1 ELSE 0)
         /\ c <= d /\ d <= l
         /\ n + m + v = d - c0
  BY <1>1, <1>3, <1>5, <1>6 DEF Least
<1>12. ~ (c > l)
  BY <1>3
<1>13. tiCursor' = d /\ waived' = w + v /\ lost' = x + m /\ tiGen' = g
  <2>1. FromTo(p.first, p.last) # << >> <=> n > 0
    BY <1>2, <1>7 DEF records
  <2>2. lost' = x + m
    BY <1>1, <1>2, <1>10, <1>12
  <2>3. tiCursor' = d
    BY <1>2, <1>10, <1>11, <1>12, <2>1
  <2>4. waived' = w + v /\ tiGen' = g
    BY <1>1, <1>2, <1>10, <1>11 DEF Uncounted
  <2>5. QED
    BY <2>2, <2>3, <2>4
<1>14. tiQueue \in Seq(Nat) /\ taken \in Seq(Nat)
  BY DEF IngestTypeOK
<1>15. /\ tiQueue' \in Seq(Nat) /\ Len(tiQueue') = h + n
       /\ taken' \in Seq(Nat) /\ Len(taken') = u + n
  BY <1>4, <1>7, <1>10, <1>14, AppendedSeq
<1>16. GapsAreCounted'
  <2>1. u + x + w = c0 - a
    BY <1>1, <1>4 DEF GapsAreCounted
  <2>2. u + n + (x + m) + (w + v) = d - a
    BY <1>11, <2>1
  <2>3. QED
    BY <1>1, <1>13, <1>15, <2>2 DEF GapsAreCounted
<1>17. /\ \A i \in 1 .. Len(taken) : a < taken[i] /\ taken[i] <= c
       /\ \A i, j \in 1 .. Len(taken) : i < j => taken[i] < taken[j]
  <2>1. \A i \in 1 .. Len(taken) : taken[i] \in Nat /\ taken[i] <= c0 /\ a < taken[i]
    BY <1>1, <1>14 DEF QueueOk, OnceInOrder
  <2>2. \A i, j \in 1 .. Len(taken) : i < j => taken[i] < taken[j]
    BY <1>14 DEF OnceInOrder
  <2>3. QED
    BY <1>5, <2>1, <2>2
<1>18. /\ \A i \in 1 .. Len(records) : c < records[i] /\ records[i] <= d
       /\ \A i, j \in 1 .. Len(records) : i < j => records[i] < records[j]
  <2>1. n > 0 => d = e /\ n = e - f + 1
    BY <1>6, <1>11
  <2>2. \A i \in 1 .. n : c < f + i - 1 /\ f + i - 1 <= d
    BY <1>3, <2>1
  <2>3. \A i, j \in 1 .. n : i < j => f + i - 1 < f + j - 1
    OBVIOUS
  <2>4. QED
    BY <1>7, <2>2, <2>3
<1>19. /\ \A i \in 1 .. Len(taken \o records) : a < (taken \o records)[i] /\ (taken \o records)[i] <= d
       /\ \A i, j \in 1 .. Len(taken \o records) : i < j => (taken \o records)[i] < (taken \o records)[j]
  <2>1. a <= c
    BY <1>1, <1>5
  <2>2. c <= d
    BY <1>11
  <2>3. QED
    BY <1>7, <1>14, <1>17, <1>18, <2>1, <2>2, IncreasingSeq
<1>20. DOMAIN taken' = 1 .. Len(taken \o records)
  BY <1>10, <1>15
<1>21. armed' = a
  BY <1>1
<1>22. OnceInOrder' /\ \A i \in DOMAIN taken' : taken'[i] <= tiCursor'
  BY <1>10, <1>13, <1>15, <1>19, <1>20, <1>21 DEF OnceInOrder
<1>23. Len(tiQueue') <= QueueCapacity /\ Len(taken') - Len(taken) = Len(tiQueue') - Len(tiQueue)
  <2>1. n <= QueueCapacity - h
    BY <1>3, <1>5, <1>6, IngestLimits
  <2>2. QED
    BY <1>4, <1>15, <2>1, IngestLimits
<1>24. QED
  BY <1>2, <1>11, <1>13, <1>15, <1>16, <1>22, <1>23

-------------------------------------------------------------------------------
(* The inductive invariant *)

\* The invariant in the type's parts that the steps use.
LEMMA IngestTypes ==
  ASSUME IngestTypeOK
  PROVE  /\ ringFirst \in Nat /\ ringFirst >= 1 /\ nextSeq \in Nat /\ nextSeq >= 1
         /\ gen \in Nat /\ firstSeq \in Nat /\ tiGen \in Nat /\ tiCursor \in Nat
         /\ lost \in Nat /\ ingested \in Nat /\ unanalyzed \in Nat /\ armed \in Nat
         /\ waived \in Nat
         /\ tiQueue \in Seq(Nat) /\ Len(tiQueue) \in Nat
         /\ taken \in Seq(Nat) /\ Len(taken) \in Nat
         /\ fence.gen \in Nat /\ fence.last \in Nat
         /\ page \in PageType
<1>1. \A n \in Nat \ {0} : n \in Nat /\ n >= 1
  OBVIOUS
<1>2. {ringFirst, nextSeq} \subseteq Nat \ {0}
  BY DEF IngestTypeOK
<1>3. {gen, firstSeq, tiGen, tiCursor, lost, ingested, unanalyzed, armed, waived} \subseteq Nat
  BY DEF IngestTypeOK
<1>4. tiQueue \in Seq(Nat) /\ taken \in Seq(Nat)
  BY DEF IngestTypeOK
<1>5. Len(tiQueue) \in Nat /\ Len(taken) \in Nat
  BY <1>4
<1>6. fence \in [gen : Nat, last : Nat]
  BY DEF IngestTypeOK
<1>7. fence.gen \in Nat /\ fence.last \in Nat
  BY <1>6
<1>8. page \in PageType
  BY DEF IngestTypeOK, PageType
<1>9. QED
  BY <1>1, <1>2, <1>3, <1>4, <1>5, <1>7, <1>8

\* What the books say is not touched by a step that leaves the cursor alone.
LEMMA BooksKept ==
  ASSUME OnceInOrder, GapsAreCounted, UNCHANGED <<cursorVars, armed>>
  PROVE  OnceInOrder' /\ GapsAreCounted'
BY DEF OnceInOrder, GapsAreCounted, cursorVars

\* The subscriber's steps: time goes on, and a new session begins at its end.
LEMMA SubscriberKeeps ==
  ASSUME IngestInv, UNCHANGED <<lifeVars, cursorVars, workVars, at, page>>,
         ringFirst' \in Nat \ {0}, nextSeq' \in Nat, gen' \in Nat, firstSeq' \in Nat,
         trace' \in {"off", "on", "exited", "closing", "closed"},
         nextSeq <= nextSeq', ringFirst' <= nextSeq', gen <= gen', firstSeq' <= nextSeq',
         gen' = gen => firstSeq' = firstSeq,
         gen' # gen => firstSeq' = nextSeq
  PROVE  CollectionOk'
<1> USE DEF IngestInv, CollectionOk
<1>1. IngestTypeOK'
  BY IngestTypes DEF IngestTypeOK, lifeVars, cursorVars, workVars
<1>2. RingOk'
  <2>1. /\ tiGen' = tiGen /\ tiCursor' = tiCursor /\ armed' = armed
    BY DEF lifeVars, cursorVars
  <2>2. tiGen <= gen /\ tiCursor < nextSeq /\ (tiGen < gen => tiCursor < firstSeq)
        /\ armed <= tiCursor
    BY DEF RingOk
  <2>3. /\ nextSeq \in Nat /\ gen \in Nat /\ firstSeq \in Nat /\ tiGen \in Nat /\ tiCursor \in Nat
    BY IngestTypes
  <2>4. /\ tiGen <= gen' /\ tiCursor < nextSeq'
        /\ tiGen < gen' => tiCursor < firstSeq'
    BY <2>2, <2>3
  <2>5. QED
    BY <2>1, <2>2, <2>4 DEF RingOk
<1>3. ThreadsOk' /\ QueueOk' /\ FenceOk' /\ StopAccountsForTail'
  BY DEF ThreadsOk, QueueOk, FenceOk, StopAccountsForTail, lifeVars, cursorVars, workVars
<1>4. PageOk'
  <2>1. /\ tiGen' = tiGen /\ tiCursor' = tiCursor /\ tiQueue' = tiQueue /\ at' = at /\ page' = page
    BY DEF cursorVars, workVars
  <2>2. PICK g \in Nat, c \in Nat, l \in Nat : page.gen = g /\ page.cursor = c /\ page.latest = l
    BY IngestTypes DEF PageType
  <2>3. PICK s \in Nat, s2 \in Nat, h \in Nat, h2 \in Nat :
           nextSeq = s /\ nextSeq' = s2 /\ gen = h /\ gen' = h2
    BY IngestTypes
  <2>4. s <= s2 /\ h <= h2
    BY <2>3
  <2>5. (l < s => l < s2) /\ (c < s => c < s2) /\ (g <= h => g <= h2)
    BY <2>4
  <2>6. PageFits(page) => PageFits(page)'
    BY <2>1, <2>2, <2>3, <2>5 DEF PageFits
  <2>7. QED
    BY <2>1, <2>2, <2>3, <2>5, <2>6 DEF PageOk
<1>5. OnceInOrder' /\ GapsAreCounted'
  BY BooksKept DEF lifeVars
<1>6. QED
  BY <1>1, <1>2, <1>3, <1>4, <1>5

\* Every step of the subscriber keeps the invariant.
LEMMA SubscriberSteps ==
  ASSUME IngestInv, Subscriber
  PROVE  CollectionOk'
<1> USE DEF IngestInv, CollectionOk
<1>1. /\ ringFirst <= nextSeq /\ firstSeq <= nextSeq
      /\ trace \in {"off", "on", "exited", "closing", "closed"}
  BY DEF RingOk, IngestTypeOK
<1>2. CASE NewGeneration /\ trace' \in {"on", "off"}
  <2>1. /\ gen' = gen + 1 /\ firstSeq' = nextSeq /\ ringFirst' = ringFirst /\ nextSeq' = nextSeq
        /\ UNCHANGED <<lifeVars, cursorVars, workVars, at, page>>
    BY <1>2 DEF NewGeneration
  <2>2. /\ gen \in Nat /\ nextSeq \in Nat /\ ringFirst \in Nat \ {0}
    BY IngestTypes
  <2>3. /\ gen' \in Nat /\ gen <= gen' /\ gen' # gen /\ nextSeq <= nextSeq' /\ firstSeq' <= nextSeq'
    BY <2>1, <2>2
  <2>4. trace' \in {"off", "on", "exited", "closing", "closed"}
    BY <1>2
  <2>5. QED
    BY <1>1, <2>1, <2>2, <2>3, <2>4, SubscriberKeeps
<1>3. CASE RecordKeep
  <2>1. PICK o \in Nat, s \in Nat, r \in Nat :
           ringFirst = o /\ nextSeq = s /\ RingCapacity = r /\ 1 <= o /\ o <= s /\ 1 <= r
    BY <1>1, IngestTypes, IngestLimits
  <2>2. Greatest(o, s + 1 - r) \in Nat \ {0} /\ Greatest(o, s + 1 - r) <= s + 1 /\ s + 1 \in Nat /\ s <= s + 1
    BY <2>1 DEF Greatest
  <2>3. /\ ringFirst' \in Nat \ {0} /\ nextSeq' = nextSeq + 1 /\ ringFirst' <= nextSeq'
        /\ nextSeq' \in Nat /\ nextSeq <= nextSeq'
    BY <1>3, <2>1, <2>2 DEF RecordKeep
  <2>4. /\ UNCHANGED <<lifeVars, cursorVars, workVars, at, page>>
        /\ gen' = gen /\ firstSeq' = firstSeq /\ trace' = trace
    BY <1>3 DEF RecordKeep
  <2>5. firstSeq' <= nextSeq' /\ gen <= gen' /\ gen' \in Nat /\ firstSeq' \in Nat
    <3>1. gen \in Nat /\ firstSeq \in Nat /\ nextSeq \in Nat
      BY IngestTypes
    <3>2. firstSeq <= nextSeq + 1 /\ gen <= gen
      BY <1>1, <3>1
    <3>3. QED
      BY <2>3, <2>4, <3>1, <3>2
  <2>6. QED
    BY <1>1, <2>3, <2>4, <2>5, SubscriberKeeps
<1>4. CASE ProcessTraceReturns
  BY <1>1, <1>4, IngestTypes, SubscriberKeeps DEF ProcessTraceReturns
<1>5. CASE TiStop
  BY <1>1, <1>5, IngestTypes, SubscriberKeeps DEF TiStop
<1>6. CASE TiStopEnds
  BY <1>1, <1>6, IngestTypes, SubscriberKeeps DEF TiStopEnds
<1>7. CASE TiClear
  BY <1>1, <1>7, IngestTypes, SubscriberKeeps DEF TiClear
<1>8. QED
  BY <1>2, <1>3, <1>4, <1>5, <1>6, <1>7 DEF Subscriber, TiStart, TiStartFails

\* The monitor starts at the ring's end with empty books.
LEMMA KmonStartStep ==
  ASSUME IngestInv, KmonStart
  PROVE  CollectionOk'
<1> USE DEF IngestInv, CollectionOk
<1>1. /\ kmon' = "on" /\ collector' = TRUE /\ worker' = TRUE
      /\ tiGen' = gen /\ tiCursor' = nextSeq - 1 /\ tiQueue' = << >>
      /\ lost' = 0 /\ ingested' = 0 /\ unanalyzed' = 0
      /\ armed' = nextSeq - 1 /\ waived' = 0 /\ taken' = << >>
      /\ UNCHANGED <<ringFirst, nextSeq, gen, firstSeq, trace, fence, at, page>>
      /\ kmon \in {"off", "ended"}
  BY DEF KmonStart, KmonStartAfter, EngineFree, subscriberVars
<1>2. at = "page"
  BY <1>1 DEF ThreadsOk, IngestTypeOK
<1>3. nextSeq - 1 \in Nat
  BY IngestTypes
<1>4. IngestTypeOK'
  BY <1>1, <1>3, IngestTypes DEF IngestTypeOK
<1>5. RingOk'
  <2>1. /\ nextSeq \in Nat /\ nextSeq - 1 < nextSeq
        /\ ringFirst <= nextSeq /\ firstSeq <= nextSeq
    BY IngestTypes DEF RingOk
  <2>2. /\ gen \in Nat /\ gen <= gen /\ ~ (gen < gen)
        /\ nextSeq - 1 <= nextSeq - 1
    BY <1>3, IngestTypes
  <2>3. QED
    BY <1>1, <2>1, <2>2 DEF RingOk
<1>6. ThreadsOk' /\ PageOk' /\ FenceOk' /\ StopAccountsForTail'
  BY <1>1, <1>2 DEF ThreadsOk, PageOk, FenceOk, StopAccountsForTail
<1>7. QueueOk' /\ OnceInOrder' /\ GapsAreCounted'
  <2>1. DOMAIN taken' = {} /\ Len(taken') = 0 /\ Len(tiQueue') = 0
    BY <1>1
  <2>2. QED
    BY <1>1, <1>3, <2>1, IngestLimits DEF QueueOk, OnceInOrder, GapsAreCounted
<1>8. QED
  BY <1>4, <1>5, <1>6, <1>7

\* Emptying the queue, in the analysis thread or in Stop.
LEMMA Analyzing ==
  ASSUME IngestInv, kmon # "ended", UNCHANGED <<subscriberVars, lifeVars, cursorVars, page>>,
         tiQueue' = WithoutFirst(tiQueue, DrainLimit),
         ingested' = ingested + Least(DrainLimit, Len(tiQueue)),
         at' = at \/ (at = "ingest" /\ at' = "test")
  PROVE  CollectionOk'
<1> USE DEF IngestInv, CollectionOk
<1> DEFINE n == Least(DrainLimit, Len(tiQueue))
<1>0. tiQueue \in Seq(Nat) /\ Len(tiQueue) \in Nat /\ ingested \in Nat /\ DrainLimit \in Nat
  BY IngestTypes, IngestLimits
<1>1. /\ tiQueue' \in Seq(Nat) /\ Len(tiQueue') = Len(tiQueue) - n
      /\ n \in Nat /\ n <= Len(tiQueue) /\ ingested' = ingested + n
  <2>1. n \in Nat /\ n <= Len(tiQueue)
    BY <1>0 DEF Least
  <2>2. tiQueue' \in Seq(Nat) /\ Len(tiQueue') = Len(tiQueue) - n
    BY <1>0, RemovedIsSeq
  <2>3. QED
    BY <2>1, <2>2
<1> HIDE DEF n
<1>2. ingested' \in Nat /\ ingested' + Len(tiQueue') = ingested + Len(tiQueue) /\ Len(tiQueue') <= Len(tiQueue)
      /\ Len(tiQueue') \in Nat
  <2>1. PICK q \in Nat, q2 \in Nat, k \in Nat, x \in Nat :
           Len(tiQueue) = q /\ Len(tiQueue') = q2 /\ n = k /\ ingested = x
    <3>1. Len(tiQueue') \in Nat
      BY <1>1
    <3>2. QED
      BY <1>0, <1>1, <3>1, Zenon
  <2>2. q2 = q - k /\ k <= q /\ ingested' = x + k
    BY <1>1, <2>1
  <2>3. QED
    BY <2>1, <2>2
<1>3. IngestTypeOK'
  <2>1. at' \in {"page", "sequence", "stats", "ingest", "test"}
    BY DEF IngestTypeOK
  <2>2. QED
    BY <1>1, <1>2, <2>1 DEF IngestTypeOK, subscriberVars, lifeVars, cursorVars
<1>4. RingOk' /\ ThreadsOk' /\ FenceOk' /\ StopAccountsForTail'
  BY DEF RingOk, ThreadsOk, FenceOk, StopAccountsForTail, subscriberVars, lifeVars, cursorVars
<1>5. PageOk'
  <2>1. PICK r \in Nat : page.room = r
    BY IngestTypes DEF PageType
  <2>2. page.room + Len(tiQueue) <= QueueCapacity => page.room + Len(tiQueue') <= QueueCapacity
    BY <1>0, <1>2, <2>1, IngestLimits
  <2>3. PageFits(page) => PageFits(page)'
    BY DEF PageFits, subscriberVars
  <2>4. QED
    BY <2>2, <2>3 DEF PageOk, subscriberVars, cursorVars
<1>6. QueueOk'
  <2>1. taken' = taken /\ kmon' = kmon /\ tiCursor' = tiCursor
    BY DEF cursorVars, lifeVars
  <2>2. Len(tiQueue') <= QueueCapacity
    BY <1>0, <1>2, IngestLimits DEF QueueOk
  <2>3. QED
    BY <1>2, <2>1, <2>2 DEF QueueOk
<1>7. OnceInOrder' /\ GapsAreCounted'
  BY BooksKept DEF lifeVars
<1>8. QED
  BY <1>3, <1>4, <1>5, <1>6, <1>7

\* A step of the producer that takes nothing changes its place and its page.
LEMMA ProducerKeeps ==
  ASSUME IngestInv, UNCHANGED <<subscriberVars, lifeVars, cursorVars, workVars>>,
         at' \in {"page", "sequence", "stats", "ingest", "test"}, page' \in PageType,
         ThreadsOk', PageOk'
  PROVE  CollectionOk'
<1> USE DEF IngestInv, CollectionOk
<1>1. IngestTypeOK'
  BY DEF IngestTypeOK, PageType, subscriberVars, lifeVars, cursorVars, workVars
<1>2. RingOk' /\ QueueOk' /\ FenceOk' /\ StopAccountsForTail'
  BY DEF RingOk, QueueOk, FenceOk, StopAccountsForTail, subscriberVars, lifeVars, cursorVars, workVars
<1>3. OnceInOrder' /\ GapsAreCounted'
  BY BooksKept DEF lifeVars
<1>4. QED
  BY <1>1, <1>2, <1>3

\* The empty page and a fresh request.
LEMMA FreshPage ==
  ASSUME NEW g \in Nat, NEW c \in Nat, NEW r \in Nat, NEW n \in 0 .. Attempts
  PROVE  /\ Request(g, c, r, n) \in PageType
         /\ Request(g, c, r, n).gen = g /\ Request(g, c, r, n).cursor = c
         /\ Request(g, c, r, n).room = r /\ Request(g, c, r, n).attempt = n
BY DEF Request, PageType

\* So does the page that is none.
LEMMA NoPageIsPage == NoPage \in PageType
<1>1. 0 \in 0 .. Attempts
  BY IngestLimits
<1>2. QED
  BY <1>1, FreshPage DEF NoPage

\* What follows a page, and who is there.
LEMMA AfterPageOk ==
  ASSUME ThreadsOk, kmon' = kmon, collector' = collector, worker' = worker, at' = AfterPage
  PROVE  ThreadsOk' /\ PageOk' /\ at' \in {"page", "ingest"}
BY DEF ThreadsOk, PageOk, AfterPage, Draining

\* The producer asks for a page from its cursor, or goes on without one.
LEMMA CollectStep ==
  ASSUME IngestInv, CollectTiPage
  PROVE  CollectionOk'
<1> USE DEF IngestInv, CollectionOk
<1>1. /\ UNCHANGED <<subscriberVars, lifeVars, cursorVars, workVars>>
      /\ at = "page" /\ (Draining \/ (collector /\ kmon = "on"))
      /\ kmon' = kmon /\ collector' = collector /\ worker' = worker
  BY DEF CollectTiPage, lifeVars
<1>2. CASE at' = AfterPage /\ UNCHANGED page
  BY <1>1, <1>2, AfterPageOk, ProducerKeeps, IngestTypes
<1>3. CASE /\ TiRoom # 0 /\ at' = "sequence"
           /\ page' = Request(tiGen, tiCursor, TiRoom, 0)
  <2>1. PICK h \in Nat, r \in Nat, k \in Nat : Len(tiQueue) = h /\ CollectLimit = r /\ QueueCapacity = k
    BY IngestTypes, IngestLimits
  <2>2. h <= k
    BY <2>1 DEF QueueOk
  <2>3. Least(r, k - h) \in Nat /\ Least(r, k - h) + h <= k
    BY <2>2 DEF Least
  <2>4. TiRoom \in Nat /\ 0 < TiRoom /\ TiRoom + Len(tiQueue) <= QueueCapacity
    <3>1. TiRoom = Least(r, k - h)
      BY <2>1 DEF TiRoom
    <3>2. QED
      BY <1>3, <2>1, <2>3, <3>1
  <2>5. tiGen \in Nat /\ tiCursor \in Nat
    BY IngestTypes
  <2>6. /\ page' \in PageType /\ page'.gen = tiGen /\ page'.cursor = tiCursor /\ page'.room = TiRoom
        /\ page'.attempt = 0
    <3>1. 0 \in 0 .. Attempts
      BY IngestLimits
    <3>2. QED
      BY <1>3, <2>4, <2>5, <3>1, FreshPage
  <2>7. ThreadsOk'
    BY <1>1, <1>3 DEF ThreadsOk, Draining
  <2>8. tiGen <= gen /\ tiCursor < nextSeq
    BY DEF RingOk
  <2>9. /\ tiGen' = tiGen /\ tiCursor' = tiCursor /\ tiQueue' = tiQueue /\ gen' = gen /\ nextSeq' = nextSeq
    BY <1>1 DEF subscriberVars, cursorVars, workVars
  <2>10. PageOk'
    BY <1>3, <2>4, <2>5, <2>6, <2>8, <2>9, IngestLimits DEF PageOk
  <2>11. QED
    BY <1>1, <1>3, <2>6, <2>7, <2>10, ProducerKeeps
<1>4. QED
  BY <1>2, <1>3 DEF CollectTiPage

\* Another session has begun: the page begins where it began.
LEMMA RestartedStep ==
  ASSUME IngestInv, at \in {"sequence", "stats"}, Restarted,
         UNCHANGED <<subscriberVars, lifeVars, cursorVars, workVars>>
  PROVE  CollectionOk'
<1> USE DEF IngestInv, CollectionOk
<1>1. kmon' = kmon /\ collector' = collector /\ worker' = worker
  BY DEF lifeVars
<1>2. PICK g \in Nat, h \in Nat, t \in Nat, c \in Nat, f \in Nat, r \in Nat, n \in 0 .. Attempts, s \in Nat :
         /\ page.gen = g /\ gen = h /\ tiGen = t /\ tiCursor = c /\ firstSeq = f
         /\ page.room = r /\ page.attempt = n /\ nextSeq = s
  BY IngestTypes DEF PageType
<1>3. /\ t <= g /\ g <= h /\ g # h /\ (t < h => c < f) /\ f <= s /\ n < Attempts /\ 0 < r
      /\ r + Len(tiQueue) <= QueueCapacity
  BY <1>2 DEF PageOk, RingOk, Restarted
<1>4. /\ t < h /\ c <= f - 1 /\ f - 1 \in Nat /\ f - 1 < s /\ n + 1 \in 0 .. Attempts
  BY <1>2, <1>3, IngestLimits
<1>5. page' = Request(h, f - 1, r, n + 1)
  BY <1>2 DEF Restarted
<1>6. /\ page' \in PageType /\ page'.gen = h /\ page'.cursor = f - 1 /\ page'.room = r /\ page'.attempt = n + 1
  BY <1>4, <1>5, FreshPage
<1>7. /\ tiGen' = t /\ tiCursor' = c /\ tiQueue' = tiQueue /\ gen' = h /\ nextSeq' = s
  BY <1>2 DEF subscriberVars, cursorVars, workVars
<1>8. CASE n + 1 = Attempts
  <2>1. at' = AfterPage
    BY <1>2, <1>8 DEF Restarted
  <2>2. QED
    BY <1>1, <1>6, <2>1, AfterPageOk, ProducerKeeps
<1>9. CASE n + 1 # Attempts
  <2>1. at' = "sequence"
    BY <1>2, <1>9 DEF Restarted
  <2>2. ThreadsOk'
    BY <1>1, <2>1 DEF ThreadsOk
  <2>3. n + 1 < Attempts
    BY <1>2, <1>3, <1>9, IngestLimits
  <2>4. PageOk'
    BY <1>3, <1>4, <1>6, <1>7, <2>1, <2>3 DEF PageOk
  <2>5. QED
    BY <1>6, <2>1, <2>2, <2>4, ProducerKeeps
<1>10. QED
  BY <1>8, <1>9

\* The ring is read, or the page begins again.
LEMMA ReadSequenceStep ==
  ASSUME IngestInv, ReadSequence
  PROVE  CollectionOk'
<1> USE DEF IngestInv, CollectionOk
<1>1. at = "sequence" /\ UNCHANGED <<subscriberVars, lifeVars, cursorVars, workVars>>
  BY DEF ReadSequence
<1>2. CASE Restarted
  BY <1>1, <1>2, RestartedStep
<1>3. CASE gen = page.gen /\ at' = "stats" /\ page' = SnapshotTiSequenceRange(page)
  <2>1. page \in PageType /\ page.cursor < nextSeq /\ 0 < page.room
    BY <1>1, IngestTypes DEF PageOk
  <2>2. page' \in PageType /\ SameRequest(page', page) /\ PageFits(SnapshotTiSequenceRange(page))
    BY <1>3, <2>1, SnapshotFits
  <2>3. /\ tiGen' = tiGen /\ tiCursor' = tiCursor /\ tiQueue' = tiQueue /\ gen' = gen /\ nextSeq' = nextSeq
        /\ kmon' = kmon /\ collector' = collector /\ worker' = worker
    BY <1>1 DEF subscriberVars, cursorVars, workVars, lifeVars
  <2>4. PageFits(page)'
    BY <1>3, <2>2, <2>3 DEF PageFits
  <2>5. PageOk'
    BY <1>1, <1>3, <2>2, <2>3, <2>4 DEF PageOk, SameRequest
  <2>6. ThreadsOk'
    BY <1>1, <1>3, <2>3 DEF ThreadsOk
  <2>7. QED
    BY <1>1, <1>3, <2>2, <2>5, <2>6, ProducerKeeps
<1>4. QED
  BY <1>2, <1>3 DEF ReadSequence

\* A page that the statistics confirm goes on from the cursor.
LEMMA PageGoesOn ==
  ASSUME IngestInv, at = "stats", NEW p \in PageType, SameRequest(p, page), gen = page.gen
  PROVE  GoesOn(p)
<1> USE DEF IngestInv, CollectionOk
<1>1. tiGen \in Nat /\ gen \in Nat /\ tiGen <= gen
  BY IngestTypes DEF RingOk
<1>2. p.gen # tiGen => tiCursor < firstSeq /\ p.cursor = firstSeq - 1
  BY <1>1 DEF SameRequest, FreshOk, RingOk
<1>3. QED
  BY <1>2 DEF PageOk, SameRequest, GoesOn

\* A page is taken, whole or cut off at the end that Stop froze.
LEMMA CommitStep ==
  ASSUME IngestInv, at = "stats", NEW p \in PageType, PageFits(p), SameRequest(p, page),
         gen = page.gen, Draining => p.latest <= fence.last,
         Commit(p), page' = NoPage, at' = AfterPage, UNCHANGED <<subscriberVars, lifeVars, ingested>>
  PROVE  CollectionOk'
<1> USE DEF IngestInv, CollectionOk
<1>1. /\ kmon' = kmon /\ collector' = collector /\ worker' = worker /\ fence' = fence
      /\ unanalyzed' = unanalyzed /\ armed' = armed
  BY DEF lifeVars
<1>2. GoesOn(p)
  BY PageGoesOn
<1>3. /\ tiGen' = p.gen /\ tiCursor' \in Nat /\ lost' \in Nat /\ waived' \in Nat
      /\ tiQueue' \in Seq(Nat) /\ taken' \in Seq(Nat)
      /\ p.cursor <= tiCursor' /\ tiCursor' <= p.latest
      /\ Len(tiQueue') <= QueueCapacity
      /\ Len(taken') - Len(taken) = Len(tiQueue') - Len(tiQueue)
      /\ \A i \in DOMAIN taken' : taken'[i] <= tiCursor'
      /\ OnceInOrder' /\ GapsAreCounted'
  BY <1>1, <1>2, TakingAPage
<1>4. ThreadsOk' /\ PageOk' /\ at' \in {"page", "ingest"}
  BY <1>1, AfterPageOk
<1>5. page' \in PageType
  BY NoPageIsPage
<1>6. PICK g \in Nat, c \in Nat, l \in Nat, d \in Nat, c0 \in Nat, s \in Nat, z \in Nat, a \in Nat :
         /\ p.gen = g /\ p.cursor = c /\ p.latest = l /\ tiCursor' = d /\ tiCursor = c0
         /\ nextSeq = s /\ fence.last = z /\ armed = a
  <2>1. p.gen \in Nat /\ p.cursor \in Nat /\ p.latest \in Nat
    BY DEF PageType
  <2>2. QED
    BY <1>3, <2>1, IngestTypes
<1>7. c <= d /\ d <= l /\ l < s /\ c0 <= c /\ a <= c0 /\ g = gen /\ (Draining => l <= z)
  BY <1>2, <1>3, <1>6 DEF PageFits, GoesOn, RingOk, SameRequest
<1>8. a <= d /\ d < s /\ (Draining => d <= z)
  BY <1>7
<1>9. IngestTypeOK'
  <2>1. tiGen' \in Nat
    BY <1>3, <1>6
  <2>2. at' \in {"page", "sequence", "stats", "ingest", "test"}
    BY <1>4
  <2>3. QED
    BY <1>3, <1>5, <2>1, <2>2 DEF IngestTypeOK, PageType, subscriberVars, lifeVars
<1>10. RingOk'
  BY <1>1, <1>3, <1>6, <1>7, <1>8 DEF RingOk, subscriberVars
<1>11. kmon # "ended"
  BY DEF ThreadsOk
<1>12. FenceOk' /\ StopAccountsForTail'
  BY <1>1, <1>6, <1>8, <1>11 DEF FenceOk, StopAccountsForTail, Draining
<1>13. QueueOk'
  <2>1. PICK h \in Nat, h2 \in Nat, u \in Nat, u2 \in Nat, x \in Nat :
           /\ Len(tiQueue) = h /\ Len(tiQueue') = h2 /\ Len(taken) = u /\ Len(taken') = u2 /\ ingested = x
    <3>1. Len(tiQueue') \in Nat /\ Len(taken') \in Nat
      BY <1>3
    <3>2. QED
      BY <3>1, IngestTypes, Zenon
  <2>2. x + h = u /\ u2 - u = h2 - h
    BY <1>3, <1>11, <2>1 DEF QueueOk
  <2>3. x + h2 = u2
    BY <2>2
  <2>4. QED
    BY <1>3, <2>1, <2>3 DEF QueueOk
<1>14. QED
  BY <1>3, <1>4, <1>9, <1>10, <1>12, <1>13

\* The statistics confirm the page, or it begins again or is dropped.
LEMMA ReadStatsStep ==
  ASSUME IngestInv, ReadStats
  PROVE  CollectionOk'
<1> USE DEF IngestInv, CollectionOk
<1>1. at = "stats" /\ UNCHANGED <<subscriberVars, lifeVars, ingested>>
  BY DEF ReadStats
<1>2. page \in PageType /\ PageFits(page) /\ SameRequest(page, page)
  BY <1>1, IngestTypes DEF PageOk, SameRequest
<1>3. CASE Restarted /\ UNCHANGED <<cursorVars, tiQueue>>
  BY <1>1, <1>3, RestartedStep DEF workVars
<1>4. CASE gen = page.gen /\ at' = AfterPage /\ page' = NoPage /\ ~Draining /\ Commit(page)
  BY <1>1, <1>2, <1>4, CommitStep
<1>5. CASE /\ gen = page.gen /\ at' = AfterPage /\ page' = NoPage
           /\ page.cursor <= fence.last /\ Commit(Fenced(page))
  <2>1. /\ Fenced(page) \in PageType /\ PageFits(Fenced(page)) /\ SameRequest(Fenced(page), page)
        /\ Fenced(page).latest <= fence.last
    BY <1>2, <1>5, FencedFits
  <2>2. QED
    BY <1>1, <1>5, <2>1, CommitStep
<1>6. CASE at' = AfterPage /\ page' = NoPage /\ UNCHANGED <<cursorVars, tiQueue>>
  <2>1. page' \in PageType
    BY <1>6, NoPageIsPage
  <2>2. kmon' = kmon /\ collector' = collector /\ worker' = worker
    BY <1>1 DEF lifeVars
  <2>3. ThreadsOk' /\ PageOk' /\ at' \in {"page", "ingest"}
    BY <1>6, <2>2, AfterPageOk
  <2>4. UNCHANGED workVars
    BY <1>1, <1>6 DEF workVars
  <2>5. QED
    BY <1>1, <1>6, <2>1, <2>3, <2>4, ProducerKeeps
<1>7. QED
  BY <1>3, <1>4, <1>5, <1>6 DEF ReadStats

\* Stop asks the threads to end and they end.
LEMMA ThreadsEnd ==
  ASSUME IngestInv, StopBegins \/ CollectorEnds \/ WorkerEnds
  PROVE  CollectionOk'
<1> USE DEF IngestInv, CollectionOk
<1>1. /\ UNCHANGED <<subscriberVars, fence, unanalyzed, armed, cursorVars, workVars, at, page>>
      /\ kmon \in {"on", "stopping"} /\ kmon' = "stopping"
      /\ collector' \in BOOLEAN /\ worker' \in BOOLEAN
      /\ collector' = collector \/ at = "page"
  BY DEF StopBegins, CollectorEnds, CollectorEndsIf, WorkerEnds, IngestTypeOK
<1>2. IngestTypeOK'
  BY <1>1 DEF IngestTypeOK, subscriberVars, cursorVars, workVars
<1>3. RingOk' /\ QueueOk' /\ FenceOk' /\ StopAccountsForTail'
  BY <1>1 DEF RingOk, QueueOk, FenceOk, StopAccountsForTail, subscriberVars, cursorVars, workVars
<1>4. ThreadsOk'
  BY <1>1 DEF ThreadsOk
<1>5. PageFits(page) => PageFits(page)'
  BY <1>1 DEF PageFits, subscriberVars
<1>6. PageOk'
  BY <1>1, <1>5 DEF PageOk, subscriberVars, cursorVars, workVars
<1>7. OnceInOrder' /\ GapsAreCounted'
  BY <1>1, BooksKept
<1>8. QED
  BY <1>2, <1>3, <1>4, <1>6, <1>7

\* The frozen end is not before the cursor.
LEMMA FreezeStep ==
  ASSUME IngestInv, FreezeTail
  PROVE  CollectionOk'
<1> USE DEF IngestInv, CollectionOk
<1>1. /\ UNCHANGED <<subscriberVars, unanalyzed, armed, cursorVars, workVars, page>>
      /\ kmon = "stopping" /\ kmon' = "draining" /\ at' = "test"
      /\ collector' = FALSE /\ worker' = FALSE
      /\ fence' = [gen |-> gen, last |-> nextSeq - 1]
  BY DEF FreezeTail, IngestTypeOK
<1>2. PICK s \in Nat, c \in Nat, g \in Nat : nextSeq = s /\ tiCursor = c /\ gen = g /\ 1 <= s /\ c < s
  BY IngestTypes DEF RingOk
<1>3. s - 1 \in Nat /\ c <= s - 1
  BY <1>2
<1>4. fence' \in [gen : Nat, last : Nat] /\ fence'.last = s - 1
  BY <1>1, <1>2, <1>3
<1>5. IngestTypeOK'
  BY <1>1, <1>4 DEF IngestTypeOK, subscriberVars, cursorVars, workVars
<1>6. RingOk' /\ QueueOk' /\ StopAccountsForTail'
  BY <1>1 DEF RingOk, QueueOk, StopAccountsForTail, subscriberVars, cursorVars, workVars
<1>7. FenceOk'
  BY <1>1, <1>2, <1>3, <1>4 DEF FenceOk, cursorVars
<1>8. ThreadsOk' /\ PageOk'
  BY <1>1 DEF ThreadsOk, PageOk
<1>9. OnceInOrder' /\ GapsAreCounted'
  BY <1>1, BooksKept
<1>10. QED
  BY <1>5, <1>6, <1>7, <1>8, <1>9

\* Another turn of the drain, and the analysis in it.
LEMMA DrainSteps ==
  ASSUME IngestInv, DrainTurn \/ DrainIngest
  PROVE  CollectionOk'
<1> USE DEF IngestInv, CollectionOk
<1>1. CASE DrainTurn
  <2>1. /\ UNCHANGED <<subscriberVars, lifeVars, cursorVars, workVars>> /\ page' = page /\ at' = "page"
        /\ kmon' = kmon /\ collector' = collector /\ worker' = worker
    BY <1>1 DEF DrainTurn, lifeVars
  <2>2. page' \in PageType
    BY <2>1, IngestTypes
  <2>3. ThreadsOk' /\ PageOk'
    BY <2>1 DEF ThreadsOk, PageOk
  <2>4. QED
    BY <2>1, <2>2, <2>3, ProducerKeeps
<1>2. CASE DrainIngest
  <2>1. /\ UNCHANGED <<subscriberVars, lifeVars, cursorVars, page>>
        /\ at = "ingest" /\ at' = "test"
        /\ tiQueue' = WithoutFirst(tiQueue, DrainLimit)
        /\ ingested' = ingested + Least(DrainLimit, Len(tiQueue))
    BY <1>2 DEF DrainIngest
  <2>2. kmon # "ended"
    BY <2>1 DEF ThreadsOk
  <2>3. QED
    BY <2>1, <2>2, Analyzing
<1>3. QED
  BY <1>1, <1>2

\* What is left at the end is what was taken and not analyzed, and what is
\* between the cursor and the frozen end.
LEMMA StopFinishesStep ==
  ASSUME IngestInv, StopFinishes
  PROVE  CollectionOk'
<1> USE DEF IngestInv, CollectionOk
<1>1. /\ UNCHANGED <<subscriberVars, collector, worker, fence, armed, cursorVars, ingested, page>>
      /\ at = "test" /\ kmon' = "ended" /\ at' = "page" /\ tiQueue' = << >>
      /\ unanalyzed' = Len(tiQueue) + Greatest(0, fence.last - tiCursor)
  BY DEF StopFinishes
<1>2. kmon = "draining"
  BY <1>1 DEF ThreadsOk
<1>3. PICK q \in Nat, z \in Nat, c \in Nat, x \in Nat, u \in Nat, n \in Nat, w \in Nat, a \in Nat :
         /\ Len(tiQueue) = q /\ fence.last = z /\ tiCursor = c /\ ingested = x /\ lost = u
         /\ Len(taken) = n /\ waived = w /\ armed = a
  BY IngestTypes, Zenon
<1>4. c <= z /\ x + q = n /\ n + u + w = c - a
  BY <1>2, <1>3 DEF FenceOk, QueueOk, GapsAreCounted
<1>5. Greatest(0, z - c) = z - c
  BY <1>4 DEF Greatest
<1>6. unanalyzed' = q + (z - c)
  BY <1>1, <1>3, <1>5
<1>7. unanalyzed' \in Nat /\ x + u + (q + (z - c)) + w = z - a
  BY <1>4, <1>6
<1>8. StopAccountsForTail'
  BY <1>1, <1>3, <1>4, <1>6, <1>7 DEF StopAccountsForTail, cursorVars
<1>9. IngestTypeOK'
  BY <1>1, <1>7 DEF IngestTypeOK, subscriberVars, cursorVars
<1>10. RingOk'
  BY <1>1 DEF RingOk, subscriberVars, cursorVars
<1>11. ThreadsOk' /\ PageOk'
  BY <1>1, <1>2 DEF ThreadsOk, PageOk, IngestTypeOK
<1>12. QueueOk'
  <2>1. Len(tiQueue') = 0 /\ taken' = taken /\ tiCursor' = tiCursor
    BY <1>1 DEF cursorVars
  <2>2. QED
    BY <1>1, <2>1, IngestLimits DEF QueueOk
<1>13. FenceOk'
  BY <1>1, <1>2 DEF FenceOk, cursorVars
<1>14. OnceInOrder' /\ GapsAreCounted'
  BY <1>1, BooksKept
<1>15. QED
  BY <1>8, <1>9, <1>10, <1>11, <1>12, <1>13, <1>14

\* A page begins again where its session began.
LEMMA FreshKept ==
  ASSUME IngestInv, [IngestNext]_ingestVars
  PROVE  FreshOk'
<1> USE DEF IngestInv, CollectionOk
<1>1. CASE Subscriber
  <2>1. at' = at /\ page' = page /\ tiGen' = tiGen
    BY <1>1 DEF Subscriber, TiStart, TiStartFails, NewGeneration, RecordKeep, ProcessTraceReturns,
                TiStop, TiStopEnds, TiClear, cursorVars
  <2>2. CASE gen' = gen /\ firstSeq' = firstSeq
    BY <2>1, <2>2 DEF FreshOk
  <2>3. CASE gen' = gen + 1
    <3>1. at \in {"sequence", "stats"} => page.gen <= gen /\ page.gen \in Nat /\ gen \in Nat
      BY IngestTypes DEF PageOk, PageType
    <3>2. at \in {"sequence", "stats"} => page.gen # gen + 1
      BY <3>1
    <3>3. QED
      BY <2>1, <2>3, <3>2 DEF FreshOk
  <2>4. QED
    BY <1>1, <2>2, <2>3 DEF Subscriber, TiStart, TiStartFails, NewGeneration, RecordKeep,
                            ProcessTraceReturns, TiStop, TiStopEnds, TiClear
<1>2. CASE KmonStart
  <2>1. at = "page" /\ at' = at
    BY <1>2 DEF KmonStart, KmonStartAfter, EngineFree, ThreadsOk, IngestTypeOK
  <2>2. QED
    BY <2>1 DEF FreshOk
<1>3. CASE IngestThreatIntel
  BY <1>3 DEF IngestThreatIntel, FreshOk, subscriberVars, cursorVars
<1>4. CASE CollectTiPage
  <2>1. tiGen' = tiGen
    BY <1>4 DEF CollectTiPage, cursorVars
  <2>2. CASE at' = AfterPage
    BY <2>2 DEF FreshOk, AfterPage
  <2>3. CASE page' = Request(tiGen, tiCursor, TiRoom, 0)
    BY <2>1, <2>3 DEF FreshOk, Request
  <2>4. QED
    BY <1>4, <2>2, <2>3 DEF CollectTiPage
<1>5. CASE ReadSequence \/ ReadStats
  <2>1. UNCHANGED subscriberVars
    BY <1>5 DEF ReadSequence, ReadStats
  <2>2. CASE Restarted
    BY <2>1, <2>2 DEF Restarted, Request, FreshOk, subscriberVars
  <2>3. CASE at' = AfterPage
    BY <2>3 DEF FreshOk, AfterPage
  <2>4. CASE ReadSequence /\ page' = SnapshotTiSequenceRange(page)
    <3>1. page \in PageType /\ at = "sequence" /\ tiGen' = tiGen
      BY <2>4, IngestTypes DEF ReadSequence, cursorVars
    <3>2. page.cursor < nextSeq /\ 0 < page.room
      BY <3>1 DEF PageOk
    <3>3. SameRequest(page', page)
      BY <2>4, <3>1, <3>2, SnapshotFits
    <3>4. QED
      BY <2>1, <3>1, <3>3 DEF FreshOk, SameRequest, subscriberVars
  <2>5. QED
    BY <1>5, <2>2, <2>3, <2>4 DEF ReadSequence, ReadStats
<1>6. CASE Stop
  <2>1. /\ page' = page /\ tiGen' = tiGen /\ gen' = gen /\ firstSeq' = firstSeq
        /\ at' = at \/ at' \in {"test", "page"}
    BY <1>6 DEF Stop, StopBegins, CollectorEnds, CollectorEndsIf, WorkerEnds, FreezeTail, DrainTurn,
                DrainIngest, StopFinishes, subscriberVars, cursorVars
  <2>2. QED
    BY <2>1 DEF FreshOk
<1>7. CASE UNCHANGED ingestVars
  BY <1>7 DEF ingestVars, subscriberVars, cursorVars, FreshOk
<1>8. QED
  BY <1>1, <1>2, <1>3, <1>4, <1>5, <1>6, <1>7 DEF IngestNext, Producer

\* The first state.
LEMMA IngestInitially == IngestInit => IngestInv
<1> SUFFICES ASSUME IngestInit PROVE IngestInv
  OBVIOUS
<1> USE DEF IngestInit
<1>1. IngestTypeOK
  <2>1. page \in PageType
    BY NoPageIsPage
  <2>2. tiQueue \in Seq(Nat) /\ taken \in Seq(Nat) /\ fence \in [gen : Nat, last : Nat]
    OBVIOUS
  <2>3. {ringFirst, nextSeq} \subseteq Nat \ {0}
    OBVIOUS
  <2>4. {gen, firstSeq, tiGen, tiCursor, lost, ingested, unanalyzed, armed, waived} \subseteq Nat
    OBVIOUS
  <2>5. QED
    BY <2>1, <2>2, <2>3, <2>4 DEF IngestTypeOK, PageType
<1>2. RingOk /\ ThreadsOk /\ PageOk /\ FreshOk /\ FenceOk /\ StopAccountsForTail
  BY DEF RingOk, ThreadsOk, PageOk, FreshOk, FenceOk, StopAccountsForTail
<1>3. QueueOk /\ OnceInOrder /\ GapsAreCounted
  <2>1. Len(tiQueue) = 0 /\ Len(taken) = 0 /\ DOMAIN taken = {}
    OBVIOUS
  <2>2. QED
    BY <2>1, IngestLimits DEF QueueOk, OnceInOrder, GapsAreCounted
<1>4. QED
  BY <1>1, <1>2, <1>3 DEF IngestInv, CollectionOk

\* The invariant holds in every state of every behaviour (KernelMonitor.cpp:9482-9591).
THEOREM IngestInvariance == IngestSpec => []IngestInv
<1>1. IngestInit => IngestInv
  BY IngestInitially
<1>2. IngestInv /\ [IngestNext]_ingestVars => IngestInv'
  <2> SUFFICES ASSUME IngestInv, [IngestNext]_ingestVars
               PROVE  CollectionOk'
    BY FreshKept DEF IngestInv
  <2>1. CASE Subscriber
    BY <2>1, SubscriberSteps
  <2>2. CASE KmonStart
    BY <2>2, KmonStartStep
  <2>3. CASE IngestThreatIntel
    <3>1. kmon # "ended"
      BY <2>3 DEF IngestThreatIntel, IngestInv, CollectionOk, ThreadsOk
    <3>2. QED
      BY <2>3, <3>1, Analyzing DEF IngestThreatIntel
  <2>4. CASE Producer
    BY <2>4, CollectStep, ReadSequenceStep, ReadStatsStep DEF Producer
  <2>5. CASE Stop
    BY <2>5, ThreadsEnd, FreezeStep, DrainSteps, StopFinishesStep DEF Stop
  <2>6. CASE UNCHANGED ingestVars
    <3>1. /\ UNCHANGED <<lifeVars, cursorVars, workVars, at, page>>
          /\ UNCHANGED <<ringFirst, nextSeq, gen, firstSeq, trace>>
      BY <2>6 DEF ingestVars, subscriberVars
    <3>2. /\ nextSeq \in Nat /\ gen \in Nat /\ firstSeq \in Nat /\ ringFirst \in Nat \ {0}
          /\ trace \in {"off", "on", "exited", "closing", "closed"}
          /\ ringFirst <= nextSeq /\ firstSeq <= nextSeq
      BY IngestTypes DEF IngestInv, CollectionOk, IngestTypeOK, RingOk
    <3>3. nextSeq <= nextSeq /\ gen <= gen
      BY <3>2
    <3>4. QED
      BY <3>1, <3>2, <3>3, SubscriberKeeps
  <2>7. QED
    BY <2>1, <2>2, <2>3, <2>4, <2>5, <2>6 DEF IngestNext
<1>3. QED
  BY <1>1, <1>2, PTL DEF IngestSpec

\* Every variable of the event collection keeps its type.
THEOREM IngestTypeCorrect == IngestSpec => []IngestTypeOK
<1>1. IngestInv => IngestTypeOK
  BY DEF IngestInv, CollectionOk
<1>2. QED
  BY <1>1, IngestInvariance, PTL

\* No event is handed to the analysis twice, out of order or from before the
\* monitor's start (KernelMonitor.cpp:8521-8548, 199-229).
THEOREM TakenOnceInOrder == IngestSpec => []OnceInOrder
<1>1. IngestInv => OnceInOrder
  BY DEF IngestInv, CollectionOk
<1>2. QED
  BY <1>1, IngestInvariance, PTL

\* What the cursor has passed since the start was taken, is counted as lost, or
\* is of one of the two kinds that the code does not count: the rest of an ended
\* session and what precedes the first event that a cursor of zero sees
\* (KernelMonitor.cpp:199-229, 9482-9591).
THEOREM NoSilentGap == IngestSpec => []GapsAreCounted
<1>1. IngestInv => GapsAreCounted
  BY DEF IngestInv, CollectionOk
<1>2. QED
  BY <1>1, IngestInvariance, PTL

\* Stop accounts for every event from the start to the end it froze, but for
\* those two kinds (KernelMonitor.cpp:8835-8887).
THEOREM TailIsAccounted == IngestSpec => []StopAccountsForTail
<1>1. IngestInv => StopAccountsForTail
  BY DEF IngestInv, CollectionOk
<1>2. QED
  BY <1>1, IngestInvariance, PTL

-------------------------------------------------------------------------------
(* One lossy feed *)

\* What the feed is made of.
FeedParts == <<nextSeq, gen, firstSeq, FeedPhase, tiGen, tiCursor, taken, lost, ingested, fence, unanalyzed>>

\* A step that leaves all of it alone.
LEMMA FeedStays ==
  ASSUME UNCHANGED FeedParts
  PROVE  UNCHANGED Feed!feedVars
BY DEF FeedParts, Feed!feedVars, Feed!runVars

\* The sequence of a pass is the ring's.
LEMMA SameEvents == \A a, b : Feed!Events(a, b) = FromTo(a, b)
BY DEF Feed!Events, FromTo

\* To commit a page is to pass what it covers.
LEMMA PageIsPass ==
  ASSUME IngestInv, at = "stats", NEW p \in PageType, PageFits(p), SameRequest(p, page),
         gen = page.gen, Draining => p.latest <= fence.last,
         Commit(p), UNCHANGED <<subscriberVars, lifeVars, ingested>>
  PROVE  Feed!Next
<1> USE DEF IngestInv, CollectionOk
<1>1. PICK g0 \in Nat, c0 \in Nat, x \in Nat, u \in Nat, s \in Nat, o \in Nat, z \in Nat :
         /\ tiGen = g0 /\ tiCursor = c0 /\ lost = x /\ Len(taken) = u /\ nextSeq = s /\ firstSeq = o
         /\ fence.last = z
  BY IngestTypes
<1>2. PICK g \in Nat, c \in Nat, l \in Nat, m \in Nat, f \in Nat, e \in Nat :
         /\ p.gen = g /\ p.cursor = c /\ p.latest = l /\ p.missing = m /\ p.first = f /\ p.last = e
  BY DEF PageType
<1>3. /\ c <= l /\ l < s /\ c < f /\ e <= l
      /\ f <= l => f <= e
      /\ m = IF c = 0 THEN 0 ELSE Least(f - 1, l) - c
  BY <1>1, <1>2 DEF PageFits
<1>4. GoesOn(p)
  BY PageGoesOn
<1>5. g = gen /\ (g = g0 => c = c0) /\ (g # g0 => c = o - 1)
  BY <1>1, <1>2, <1>4 DEF GoesOn, SameRequest
<1>6. /\ taken' = taken \o FromTo(f, e) /\ tiGen' = g
      /\ tiCursor' = IF FromTo(f, e) # << >> THEN e ELSE IF c > l \/ m # 0 THEN l ELSE c
      /\ lost' = x + m + IF c > l THEN 1 ELSE 0
  BY <1>1, <1>2, <1>4, AllAdmitted DEF Commit
<1>7. e \in Int
  OBVIOUS
<1>8. /\ FromTo(f, e) \in Seq(Nat) /\ Len(FromTo(f, e)) = IF f <= e THEN e - f + 1 ELSE 0
      /\ FromTo(f, e) # << >> <=> f <= e
  BY <1>7, RangeIsSeq, Zenon
<1>9. PICK n \in Nat : n = Len(FromTo(f, e))
  <2>1. Len(FromTo(f, e)) \in Nat
    BY <1>8
  <2>2. QED
    BY <2>1, Zenon
<1>10. n = IF f <= e THEN e - f + 1 ELSE 0
  BY <1>8, <1>9, Zenon
<1>11. Len(taken') = u + n
  BY <1>1, <1>6, <1>8, <1>9, IngestTypes, AppendedSeq
<1>12. PICK to \in Nat, from \in Nat :
          /\ to = IF f <= e THEN e ELSE IF m # 0 THEN l ELSE c
          /\ from = IF c = 0 /\ f <= e THEN f - 1 ELSE c
          /\ from <= to /\ to <= l /\ n <= to - from /\ m = to - from - n
          /\ from # c => c = 0 /\ n = to - from
          /\ f <= e => to - n + 1 = f
          /\ ~ (f <= e) => n = 0
  BY <1>3, <1>10 DEF Least
<1>13. tiCursor' = to /\ lost' = x + m
  BY <1>3, <1>6, <1>8, <1>12
<1>14. taken' = taken \o FromTo(to - n + 1, to)
  <2>1. CASE f <= e
    BY <1>6, <1>12, <2>1
  <2>2. CASE ~ (f <= e)
    <3>1. FromTo(f, e) = << >>
      BY <1>8, <2>2
    <3>2. to - n + 1 \in Nat /\ to \in Int /\ ~ (to - n + 1 <= to)
      BY <1>12, <2>2
    <3>3. FromTo(to - n + 1, to) = << >>
      BY <3>2, RangeIsSeq
    <3>4. QED
      BY <1>6, <3>1, <3>3
  <2>3. QED
    BY <2>1, <2>2
<1>15. /\ nextSeq' = s /\ gen' = gen /\ firstSeq' = o /\ ingested' = ingested /\ fence' = fence
       /\ unanalyzed' = unanalyzed /\ kmon' = kmon /\ FeedPhase' = FeedPhase
  BY <1>1 DEF subscriberVars, lifeVars, FeedPhase
<1>16. kmon \in {"on", "stopping", "draining"}
  BY DEF ThreadsOk
<1>17. FeedPhase \in {"on", "frozen"} /\ (FeedPhase = "frozen" => Draining)
  BY <1>16 DEF FeedPhase, Draining
<1>18. FeedPhase = "frozen" => to <= fence.last
  BY <1>1, <1>2, <1>12, <1>17
<1>19. from = Feed!Start \/ (Feed!Start = 0 /\ Len(taken') - Len(taken) = to - from)
  <2>1. Feed!Start = c
    <3>1. CASE g = g0
      BY <1>1, <1>5, <1>6, <3>1 DEF Feed!Start
    <3>2. CASE g # g0
      BY <1>1, <1>5, <1>6, <3>2 DEF Feed!Start
    <3>3. QED
      BY <3>1, <3>2
  <2>2. Len(taken') - Len(taken) = n
    BY <1>1, <1>11
  <2>3. QED
    BY <1>12, <2>1, <2>2
<1>20. Len(taken') - Len(taken) = n /\ lost' = lost + (to - from - n)
  BY <1>1, <1>11, <1>12, <1>13
<1>21. from \in 0 .. nextSeq - 1 /\ to \in 0 .. nextSeq - 1 /\ from <= to /\ to <= nextSeq - 1
  BY <1>1, <1>3, <1>12
<1>22. Feed!Pass(from, to)
  <2>1. tiGen' \in {tiGen, gen}
    BY <1>5, <1>6
  <2>2. 0 <= n /\ n <= to - from
    BY <1>12
  <2>3. taken' = taken \o Feed!Events(to - n + 1, to)
    BY <1>14, SameEvents
  <2>4. UNCHANGED <<nextSeq - 1, gen, firstSeq, FeedPhase, ingested, fence.last, unanalyzed>>
    BY <1>1, <1>15
  <2>5. QED
    BY <1>13, <1>17, <1>18, <1>19, <1>20, <1>21, <2>1, <2>2, <2>3, <2>4 DEF Feed!Pass
<1>23. QED
  BY <1>21, <1>22 DEF Feed!Next

\* Analyzing some of what was taken.
LEMMA IngestIsAnalyze ==
  ASSUME IngestInv, kmon \in {"on", "stopping", "draining"},
         UNCHANGED <<subscriberVars, lifeVars, cursorVars>>,
         ingested' = ingested + Least(DrainLimit, Len(tiQueue))
  PROVE  [Feed!Next]_Feed!feedVars
<1> USE DEF IngestInv, CollectionOk
<1>1. PICK q \in Nat, x \in Nat, u \in Nat, d \in Nat :
         Len(tiQueue) = q /\ ingested = x /\ Len(taken) = u /\ DrainLimit = d
  BY IngestTypes, IngestLimits
<1>2. x + q = u
  BY <1>1 DEF QueueOk
<1>3. PICK n \in Nat : n = Least(d, q) /\ n <= q
  BY DEF Least
<1>4. ingested' = x + n /\ x + n <= u
  BY <1>1, <1>2, <1>3
<1>5. /\ UNCHANGED <<nextSeq, gen, firstSeq, tiGen, tiCursor, taken, lost, fence, unanalyzed, kmon>>
      /\ FeedPhase' = FeedPhase
  BY DEF subscriberVars, lifeVars, cursorVars, FeedPhase
<1>6. CASE n = 0
  <2>1. ingested' = ingested
    BY <1>1, <1>4, <1>6
  <2>2. QED
    BY <1>5, <2>1, FeedStays DEF FeedParts
<1>7. CASE n # 0
  <2>1. ingested < ingested' /\ ingested' <= Len(taken)
    BY <1>1, <1>4, <1>7
  <2>2. FeedPhase \in {"on", "frozen"}
    BY DEF FeedPhase
  <2>3. Feed!Analyze
    BY <1>5, <2>1, <2>2 DEF Feed!Analyze
  <2>4. QED
    BY <2>3 DEF Feed!Next
<1>8. QED
  BY <1>6, <1>7

\* The subscriber is the source.
LEMMA SubscriberIsSource ==
  ASSUME IngestInv, Subscriber
  PROVE  [Feed!Next]_Feed!feedVars
<1>1. /\ UNCHANGED <<tiGen, tiCursor, taken, lost, ingested, fence, unanalyzed, kmon>>
      /\ FeedPhase' = FeedPhase
  BY DEF Subscriber, TiStart, TiStartFails, NewGeneration, RecordKeep, ProcessTraceReturns,
         TiStop, TiStopEnds, TiClear, lifeVars, cursorVars, workVars, FeedPhase
<1>2. PICK s \in Nat : nextSeq = s
  BY IngestTypes DEF IngestInv, CollectionOk
<1>3. CASE TiStart \/ TiStartFails
  <2>1. nextSeq' = nextSeq /\ gen' = gen + 1 /\ firstSeq' = (nextSeq - 1) + 1
    BY <1>2, <1>3 DEF TiStart, TiStartFails, NewGeneration
  <2>2. Feed!BeginSession
    BY <1>1, <2>1 DEF Feed!BeginSession, Feed!runVars
  <2>3. QED
    BY <2>2 DEF Feed!Next
<1>4. CASE RecordKeep
  <2>1. nextSeq' - 1 = (nextSeq - 1) + 1 /\ gen' = gen /\ firstSeq' = firstSeq
    BY <1>2, <1>4 DEF RecordKeep
  <2>2. Feed!Emit
    BY <1>1, <2>1 DEF Feed!Emit, Feed!runVars
  <2>3. QED
    BY <2>2 DEF Feed!Next
<1>5. CASE ProcessTraceReturns \/ TiStop \/ TiStopEnds \/ TiClear
  <2>1. UNCHANGED <<nextSeq, gen, firstSeq>>
    BY <1>5 DEF ProcessTraceReturns, TiStop, TiStopEnds, TiClear
  <2>2. QED
    BY <1>1, <2>1, FeedStays DEF FeedParts
<1>6. QED
  BY <1>3, <1>4, <1>5 DEF Subscriber

\* A run begins at the latest event.
LEMMA StartIsFollow ==
  ASSUME IngestInv, KmonStart
  PROVE  Feed!Next
<1>1. /\ kmon \in {"off", "ended"} /\ kmon' = "on"
      /\ tiGen' = gen /\ tiCursor' = nextSeq - 1 /\ taken' = << >>
      /\ lost' = 0 /\ ingested' = 0 /\ unanalyzed' = 0
      /\ UNCHANGED <<nextSeq, gen, firstSeq, fence>>
  BY DEF KmonStart, KmonStartAfter, EngineFree, subscriberVars
<1>2. FeedPhase \in {"off", "ended"} /\ FeedPhase' = "on"
  BY <1>1 DEF FeedPhase
<1>3. Feed!Follow
  BY <1>1, <1>2 DEF Feed!Follow
<1>4. QED
  BY <1>3 DEF Feed!Next

\* The producer passes events when it commits a page and at no other step.
LEMMA ProducerPasses ==
  ASSUME IngestInv, Producer
  PROVE  [Feed!Next]_Feed!feedVars
<1> USE DEF IngestInv, CollectionOk
<1>1. UNCHANGED <<subscriberVars, lifeVars, ingested>>
  BY DEF Producer, CollectTiPage, ReadSequence, ReadStats, workVars
<1>2. CASE UNCHANGED cursorVars
  BY <1>1, <1>2, FeedStays DEF FeedParts, FeedPhase, subscriberVars, lifeVars, cursorVars
<1>3. CASE ReadStats
  <2>1. at = "stats" /\ page \in PageType /\ PageFits(page) /\ SameRequest(page, page)
    BY <1>3, IngestTypes DEF ReadStats, PageOk, SameRequest
  <2>2. CASE gen = page.gen /\ ~Draining /\ Commit(page)
    BY <1>1, <2>1, <2>2, PageIsPass
  <2>3. CASE gen = page.gen /\ page.cursor <= fence.last /\ Commit(Fenced(page))
    <3>1. /\ Fenced(page) \in PageType /\ PageFits(Fenced(page)) /\ SameRequest(Fenced(page), page)
          /\ Fenced(page).latest <= fence.last
      BY <2>1, <2>3, FencedFits
    <3>2. QED
      BY <1>1, <2>1, <2>3, <3>1, PageIsPass
  <2>4. QED
    BY <1>2, <1>3, <2>2, <2>3 DEF ReadStats
<1>4. QED
  BY <1>2, <1>3 DEF Producer, CollectTiPage, ReadSequence

\* Stop freezes the end, finishes what it can and counts the rest.
LEMMA StopEndsFeed ==
  ASSUME IngestInv, Stop
  PROVE  [Feed!Next]_Feed!feedVars
<1> USE DEF IngestInv, CollectionOk
<1>1. UNCHANGED <<subscriberVars, cursorVars>>
  BY DEF Stop, StopBegins, CollectorEnds, CollectorEndsIf, WorkerEnds, FreezeTail, DrainTurn,
         DrainIngest, StopFinishes
<1>2. CASE StopBegins \/ CollectorEnds \/ WorkerEnds \/ DrainTurn
  <2>1. FeedPhase' = FeedPhase /\ UNCHANGED <<ingested, fence, unanalyzed>>
    BY <1>2 DEF StopBegins, CollectorEnds, CollectorEndsIf, WorkerEnds, DrainTurn, workVars, lifeVars,
                FeedPhase
  <2>2. QED
    BY <1>1, <2>1, FeedStays DEF FeedParts, subscriberVars, cursorVars
<1>3. CASE FreezeTail
  <2>1. /\ kmon = "stopping" /\ kmon' = "draining" /\ fence'.last = nextSeq - 1
        /\ UNCHANGED <<ingested, unanalyzed>>
    BY <1>3 DEF FreezeTail, workVars
  <2>2. FeedPhase = "on" /\ FeedPhase' = "frozen"
    BY <2>1 DEF FeedPhase
  <2>3. Feed!Freeze
    BY <1>1, <2>1, <2>2 DEF Feed!Freeze, subscriberVars, cursorVars
  <2>4. QED
    BY <2>3 DEF Feed!Next
<1>4. CASE DrainIngest
  <2>1. kmon = "draining" /\ UNCHANGED lifeVars
    BY <1>4 DEF DrainIngest, ThreadsOk
  <2>2. QED
    BY <1>1, <1>4, <2>1, IngestIsAnalyze DEF DrainIngest
<1>5. CASE StopFinishes
  <2>1. /\ kmon = "draining" /\ kmon' = "ended" /\ UNCHANGED <<fence, ingested>>
        /\ unanalyzed' = Len(tiQueue) + Greatest(0, fence.last - tiCursor)
    BY <1>5 DEF StopFinishes, ThreadsOk
  <2>2. PICK q \in Nat, z \in Nat, c \in Nat, x \in Nat, n \in Nat :
           /\ Len(tiQueue) = q /\ fence.last = z /\ tiCursor = c /\ ingested = x /\ Len(taken) = n
    BY IngestTypes
  <2>3. c <= z /\ x + q = n
    BY <2>1, <2>2 DEF FenceOk, QueueOk
  <2>4. Greatest(0, z - c) = z - c
    BY <2>3 DEF Greatest
  <2>5. q + (z - c) = (n - x) + (z - c)
    BY <2>3
  <2>6. unanalyzed' = (Len(taken) - ingested) + (fence.last - tiCursor)
    BY <2>1, <2>2, <2>4, <2>5
  <2>7. FeedPhase = "frozen" /\ FeedPhase' = "ended"
    BY <2>1 DEF FeedPhase
  <2>8. Feed!Finish
    BY <1>1, <2>1, <2>6, <2>7 DEF Feed!Finish, subscriberVars, cursorVars
  <2>9. QED
    BY <2>8 DEF Feed!Next
<1>6. QED
  BY <1>2, <1>3, <1>4, <1>5 DEF Stop

\* Every behaviour of the collection is one of a lossy feed: what is taken is in
\* order and once, and all that is passed or left is counted, whatever the ring,
\* the sessions, the pages and the threads do (KernelMonitor.cpp:199-229,
\* 8521-8548, 8803-8887, 9482-9591).
THEOREM CollectionIsLossyFeed == IngestSpec => ImplementsFeed
<1>1. IngestInit => Feed!Init
  <2> SUFFICES ASSUME IngestInit PROVE Feed!Init
    OBVIOUS
  <2>1. nextSeq - 1 = 0 /\ FeedPhase = "off" /\ fence.last = 0
    BY DEF IngestInit, FeedPhase
  <2>2. QED
    BY <2>1 DEF IngestInit, Feed!Init
<1>2. IngestInv /\ [IngestNext]_ingestVars => [Feed!Next]_Feed!feedVars
  <2> SUFFICES ASSUME IngestInv, [IngestNext]_ingestVars
               PROVE  [Feed!Next]_Feed!feedVars
    OBVIOUS
  <2>1. CASE Subscriber
    BY <2>1, SubscriberIsSource
  <2>2. CASE KmonStart
    BY <2>2, StartIsFollow
  <2>3. CASE IngestThreatIntel
    <3>1. kmon \in {"on", "stopping", "draining"}
      BY <2>3 DEF IngestThreatIntel, IngestInv, CollectionOk, ThreadsOk
    <3>2. QED
      BY <2>3, <3>1, IngestIsAnalyze DEF IngestThreatIntel
  <2>4. CASE Producer
    BY <2>4, ProducerPasses
  <2>5. CASE Stop
    BY <2>5, StopEndsFeed
  <2>6. CASE UNCHANGED ingestVars
    <3>1. UNCHANGED FeedParts
      BY <2>6 DEF ingestVars, FeedParts, FeedPhase, subscriberVars, lifeVars, cursorVars, workVars
    <3>2. QED
      BY <3>1, FeedStays
  <2>7. QED
    BY <2>1, <2>2, <2>3, <2>4, <2>5, <2>6 DEF IngestNext
<1>3. QED
  BY <1>1, <1>2, IngestInvariance, PTL DEF IngestSpec, ImplementsFeed, Feed!Spec

===============================================================================
