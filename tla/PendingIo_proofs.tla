--------------------------- MODULE PendingIo_proofs ---------------------------
(***************************************************************************)
(* Proofs about PendingIo: the inductive invariant, for any requests,      *)
(* operations, processes and clients, the safety properties it gives, and  *)
(* that the fixture implements HeldRequests.                               *)
(***************************************************************************)
EXTENDS PendingIo, TLAPS

-------------------------------------------------------------------------------
(* The work queue *)

\* No operation is twice in a queue.
Once(s) == \A a, b \in 1 .. Len(s) : s[a] = s[b] => a = b

\* An empty queue has nothing in it.
LEMMA QueueEmpty == Range(<<>>) = {} /\ Once(<<>>)
<1>1. Len(<<>>) = 0 /\ DOMAIN <<>> = {} /\ 1 .. 0 = {}
  OBVIOUS
<1>2. QED
  BY <1>1 DEF Range, Once

\* What is appended to a queue is in it, once if it was not there before.
LEMMA QueueAppend ==
  ASSUME NEW s \in Seq(Ops), NEW o \in Ops
  PROVE  /\ Append(s, o) \in Seq(Ops)
         /\ Range(Append(s, o)) = Range(s) \cup {o}
         /\ Once(s) /\ o \notin Range(s) => Once(Append(s, o))
<1> DEFINE t == Append(s, o)
<1>1. /\ t \in Seq(Ops) /\ Len(s) \in Nat /\ Len(t) = Len(s) + 1
      /\ DOMAIN t = 1 .. Len(t) /\ DOMAIN s = 1 .. Len(s)
      /\ t[Len(s) + 1] = o /\ \A i \in 1 .. Len(s) : t[i] = s[i]
  OBVIOUS
<1> HIDE DEF t
<1>2. Range(t) = Range(s) \cup {o}
  BY <1>1 DEF Range
<1>3. Once(s) /\ o \notin Range(s) => Once(t)
  BY <1>1 DEF Range, Once
<1>4. QED
  BY <1>1, <1>2, <1>3 DEF t

\* What is taken from the head of a queue is in it no more.
LEMMA QueueTail ==
  ASSUME NEW s \in Seq(Ops), s # <<>>, Once(s)
  PROVE  /\ Head(s) \in Ops /\ Tail(s) \in Seq(Ops) /\ Once(Tail(s))
         /\ Range(s) = Range(Tail(s)) \cup {Head(s)}
         /\ Head(s) \notin Range(Tail(s))
<1> DEFINE t == Tail(s)
<1>1. /\ Head(s) = s[1] /\ s[1] \in Ops /\ t \in Seq(Ops)
      /\ Len(s) \in Nat /\ Len(s) >= 1 /\ Len(t) = Len(s) - 1
      /\ DOMAIN t = 1 .. Len(t) /\ DOMAIN s = 1 .. Len(s)
      /\ \A i \in 1 .. Len(t) : t[i] = s[i + 1]
  OBVIOUS
<1> HIDE DEF t
<1>2. \A i \in 1 .. Len(t) : i + 1 \in 1 .. Len(s) /\ i + 1 # 1
  BY <1>1
<1>3. \A i \in 1 .. Len(s) : i = 1 \/ (i - 1 \in 1 .. Len(t) /\ s[i] = t[i - 1])
  BY <1>1
<1>4. 1 \in 1 .. Len(s)
  BY <1>1
<1>5. Once(t)
  <2> SUFFICES ASSUME NEW a \in 1 .. Len(t), NEW b \in 1 .. Len(t), t[a] = t[b]
               PROVE  a = b
    BY DEF Once
  <2>1. a + 1 = b + 1
    BY <1>1, <1>2 DEF Once
  <2>2. QED
    BY <2>1
<1>6. s[1] \notin Range(t)
  <2> SUFFICES ASSUME NEW a \in 1 .. Len(t), t[a] = s[1] PROVE FALSE
    BY <1>1 DEF Range
  <2>1. s[a + 1] = s[1]
    BY <1>1
  <2>2. QED
    BY <1>2, <1>4, <2>1 DEF Once
<1>7. Range(s) = Range(t) \cup {s[1]}
  <2>1. ASSUME NEW a \in 1 .. Len(s) PROVE s[a] \in Range(t) \cup {s[1]}
    <3>1. CASE a = 1
      BY <3>1
    <3>2. CASE a # 1
      <4>1. a - 1 \in 1 .. Len(t) /\ s[a] = t[a - 1]
        BY <1>3, <3>2
      <4>2. QED
        BY <1>1, <4>1 DEF Range
    <3>3. QED
      BY <3>1, <3>2
  <2>2. Range(t) \cup {s[1]} \subseteq Range(s)
    BY <1>1, <1>2, <1>4 DEF Range
  <2>3. Range(s) \subseteq Range(t) \cup {s[1]}
    BY <1>1, <2>1 DEF Range
  <2>4. QED
    BY <2>2, <2>3
<1>8. QED
  BY <1>1, <1>5, <1>6, <1>7 DEF t

\* The queue holds operations.
LEMMA QueueRange == TypeOK => Range(queue) \subseteq Ops
  BY DEF TypeOK, Range

-------------------------------------------------------------------------------
(* Operations *)

\* A live operation is a record of operations, the others are free.
LEMMA LiveOps ==
  ASSUME TypeOK
  PROVE  /\ Live \subseteq Ops
         /\ \A o \in Live : op[o] \in Operations
         /\ \A o \in Ops \ Live : op[o] = Free
<1>1. \A o \in Ops : op[o] \in Operations \/ op[o] = Free
  BY DEF TypeOK
<1>2. \A o \in Ops : op[o] \in Operations => op[o].live
  BY DEF Operations
<1>3. ~ Free.live
  BY DEF Free
<1>4. QED
  BY <1>1, <1>2, <1>3 DEF Live

\* An operation's logical state is left alone.
Keeps(o) ==
  /\ op'[o].released = op[o].released
  /\ op'[o].level = op[o].level
  /\ op'[o].data = op[o].data
  /\ op'[o].post = op[o].post

\* It is left to whom and to what it belongs.
Belongs(o) ==
  /\ op'[o].owner = op[o].owner
  /\ op'[o].gen = op[o].gen
  /\ op'[o].target = op[o].target

\* Waking changes the reasons alone.
LEMMA WakeChanges ==
  ASSUME TypeOK, NEW S \in SUBSET Live, NEW n \in 1 .. 3, op' = Wake(S, n)
  PROVE  /\ op' \in [Ops -> Operations \cup {Free}]
         /\ Live' = Live
         /\ \A o \in Live : /\ Keeps(o) /\ Belongs(o) /\ op'[o].refs = op[o].refs
                            /\ op'[o].wake = IF o \in S /\ op[o].wake < n
                                             THEN n ELSE op[o].wake
<1>1. \A o \in Ops : op'[o] = IF o \in S /\ op[o].wake < n
                              THEN [op[o] EXCEPT !.wake = n] ELSE op[o]
  BY DEF Wake
<1>2. op' = [o \in Ops |-> op'[o]]
  BY DEF Wake
<1>3. ASSUME NEW o \in Live
      PROVE  /\ op'[o] \in Operations
             /\ Keeps(o) /\ Belongs(o) /\ op'[o].refs = op[o].refs
             /\ op'[o].wake = IF o \in S /\ op[o].wake < n THEN n ELSE op[o].wake
  <2>1. op[o] \in Operations /\ o \in Ops
    BY LiveOps
  <2>2. CASE o \in S /\ op[o].wake < n
    <3>1. op'[o] = [op[o] EXCEPT !.wake = n]
      BY <1>1, <2>1, <2>2
    <3>2. n \in 0 .. 3
      OBVIOUS
    <3>3. op'[o] \in Operations /\ op'[o].wake = n
      BY <2>1, <3>1, <3>2 DEF Operations
    <3>4. Keeps(o) /\ Belongs(o) /\ op'[o].refs = op[o].refs
      BY <2>1, <3>1 DEF Operations, Keeps, Belongs
    <3>5. QED
      BY <2>2, <3>3, <3>4
  <2>3. CASE ~ (o \in S /\ op[o].wake < n)
    <3>1. op'[o] = op[o]
      BY <1>1, <2>1, <2>3
    <3>2. QED
      BY <2>1, <2>3, <3>1 DEF Keeps, Belongs
  <2>4. QED
    BY <2>2, <2>3
<1>4. \A o \in Ops \ Live : op'[o] = Free
  BY <1>1, LiveOps
<1>5. \A o \in Ops : op'[o] \in Operations \cup {Free}
  BY <1>3, <1>4
<1>6. op' \in [Ops -> Operations \cup {Free}]
  BY <1>2, <1>5
<1>7. Live' = Live
  <2>1. \A o \in Live : op'[o].live
    BY <1>3 DEF Operations
  <2>2. \A o \in Ops \ Live : ~ op'[o].live
    BY <1>4 DEF Free
  <2>3. QED
    BY <2>1, <2>2, LiveOps DEF Live
<1>8. QED
  BY <1>3, <1>6, <1>7

\* One operation is changed and no other.
LEMMA OneChanges ==
  ASSUME TypeOK, NEW o \in Live, NEW r \in Operations, op' = [op EXCEPT ![o] = r]
  PROVE  /\ op' \in [Ops -> Operations \cup {Free}]
         /\ Live' = Live /\ op'[o] = r
         /\ \A p \in Live : p # o => op'[p] = op[p]
<1>1. o \in Ops /\ op \in [Ops -> Operations \cup {Free}]
  BY LiveOps DEF TypeOK
<1>2. op' \in [Ops -> Operations \cup {Free}]
  BY <1>1
<1>3. op'[o] = r /\ \A p \in Ops : p # o => op'[p] = op[p]
  BY <1>1
<1>4. r.live
  BY DEF Operations
<1>5. Live' = Live
  BY <1>1, <1>3, <1>4 DEF Live
<1>6. QED
  BY <1>2, <1>3, <1>5, LiveOps

\* An operation is released.
LEMMA Releases ==
  ASSUME TypeOK, NEW o \in Live, op' = [op EXCEPT ![o].released = TRUE]
  PROVE  /\ op' \in [Ops -> Operations \cup {Free}]
         /\ Live' = Live
         /\ op'[o].released
         /\ \A p \in Live :
              /\ p # o => op'[p] = op[p]
              /\ op'[p].level = op[p].level /\ op'[p].data = op[p].data
              /\ op'[p].post = op[p].post /\ op'[p].refs = op[p].refs
              /\ op'[p].wake = op[p].wake /\ Belongs(p)
<1> DEFINE r == [op[o] EXCEPT !.released = TRUE]
<1>1. op[o] \in Operations
  BY LiveOps
<1>2. r \in Operations /\ r.released /\ r.level = op[o].level /\ r.data = op[o].data
      /\ r.post = op[o].post /\ r.refs = op[o].refs /\ r.wake = op[o].wake
      /\ r.owner = op[o].owner /\ r.gen = op[o].gen /\ r.target = op[o].target
  BY <1>1 DEF Operations
<1>3. op' = [op EXCEPT ![o] = r]
  OBVIOUS
<1> HIDE DEF r
<1>4. /\ op' \in [Ops -> Operations \cup {Free}]
      /\ Live' = Live /\ op'[o] = r
      /\ \A p \in Live : p # o => op'[p] = op[p]
  BY <1>2, <1>3, OneChanges
<1>5. QED
  BY <1>2, <1>4 DEF Belongs

-------------------------------------------------------------------------------
(* What steps of other threads leave alone *)

\* Requests, queue, threads and worker stay; operations change what nobody
\* counts on.
LEMMA CoreStays ==
  ASSUME TypeOK, CoreOk, Live' = Live,
         \A o \in Live : Keeps(o) /\ op'[o].refs = op[o].refs,
         UNCHANGED <<queue, io, tail, wop, violations>>,
         wpc' = wpc \/ (wpc \notin Holding /\ wpc' \notin Holding),
         wpc' = "exited" => queue = <<>> /\ stage' # "loaded"
  PROVE  CoreOk'
<1>1. UNCHANGED InHand /\ (wpc' = "done") = (wpc = "done")
      /\ (wpc' = "finish") = (wpc = "finish") /\ (wpc' = "drop") = (wpc = "drop")
      /\ (wpc' \in Holding) = (wpc \in Holding)
      /\ (wpc' \in Holding \ {"done"}) = (wpc \in Holding \ {"done"})
  BY DEF InHand, Holding
<1>2. Range(queue)' = Range(queue) /\ Undone' = Undone /\ Pended' = Pended
  BY <1>1 DEF Undone, Pended
<1>3. SlotsOk'
  BY DEF CoreOk, SlotsOk, Fits, Carries, Keeps
<1>4. UndoneOk'
  <2>1. Undone \subseteq Live
    <3>1. \A o \in Undone : o \in Ops
      <4>1. InHand => wop \in Live
        BY DEF CoreOk, WorkerOk, InHand, Holding
      <4>2. QED
        BY <4>1, QueueRange DEF Undone, Live
    <3>2. QED
      BY <3>1 DEF CoreOk, UndoneOk, HeldIsInHand, Live
  <2>2. QED
    BY <1>1, <1>2, <2>1 DEF CoreOk, UndoneOk, HeldIsInHand, Keeps, Live
<1>5. RefsOk'
  <2>1. \A o \in Live : Logical(o)' = Logical(o) /\ WorkerHas(o)' = WorkerHas(o)
    BY <1>1 DEF Logical, LogicalDrop, Dropping, DropsOwn, WorkerHas, Keeps
  <2>2. QED
    BY <1>2, <2>1 DEF CoreOk, RefsOk, One
<1>6. TailOk'
  BY <1>1 DEF CoreOk, TailOk, DropsOwn, Keeps
<1>7. WorkerOk'
  <2>1. wpc' \in Holding <=> wop' # None
    BY <1>1 DEF CoreOk, WorkerOk
  <2>2. wpc' \in Holding \ {"done"} => wop' \in Live'
    BY <1>1 DEF CoreOk, WorkerOk
  <2>3. ASSUME wpc' = "finish"
        PROVE  /\ ~ op'[wop'].released
               /\ wop' \notin Range(queue)'
               /\ \A i \in Ios : /\ io'[i].phase = "admitted" => io'[i].cur # wop'
                               /\ \A l \in Levels : io'[i].ctx[l] # wop'
    <3>1. wpc = "finish" /\ wop \in Live
      BY <1>1, <2>3 DEF CoreOk, WorkerOk, Holding
    <3>2. QED
      BY <1>2, <3>1 DEF CoreOk, WorkerOk, Keeps
  <2>4. QED
    BY <2>1, <2>2, <2>3 DEF WorkerOk
<1>8. QED
  BY <1>3, <1>4, <1>5, <1>6, <1>7 DEF CoreOk

\* The operations stay of one arm, and the arm theirs.
LEMMA ArmStays ==
  ASSUME ArmOk, Live' = Live, \A o \in Live : Belongs(o),
         arm' = NoArm \/ UNCHANGED <<stage, owner, arm, topology>>
  PROVE  ArmOk'
BY DEF ArmOk, Belongs

\* A sweep, and any wake, leaves operations cancelled that were.
LEMMA SweepStays ==
  ASSUME TypeOK, SweepsAreFinal, Live' = Live,
         \A o \in Live : /\ Keeps(o) /\ Belongs(o)
                         /\ op'[o].wake \in 0 .. 3 /\ op'[o].wake >= op[o].wake,
         stage = "loaded" => stage' = "loaded",
         owner' = owner,
         \A l \in Levels : instance[l] = "attached" => instance'[l] = "attached"
  PROVE  SweepsAreFinal'
<1> SUFFICES ASSUME NEW o \in Live, ~ op'[o].released
             PROVE  /\ op'[o].owner # owner' => op'[o].wake >= 2
                    /\ stage' # "loaded" => op'[o].wake = 3
                    /\ instance'[op'[o].level] # "attached" => op'[o].wake = 3
  BY DEF SweepsAreFinal
<1>1. op[o] \in Operations
  BY LiveOps
<1>2. op[o].wake \in 0 .. 3 /\ op[o].level \in Levels
  BY <1>1 DEF Operations
<1>3. /\ op[o].owner # owner => op[o].wake >= 2
      /\ stage # "loaded" => op[o].wake = 3
      /\ instance[op[o].level] # "attached" => op[o].wake = 3
  BY DEF SweepsAreFinal, Keeps
<1>4. QED
  BY <1>2, <1>3 DEF Keeps, Belongs

\* Releasing what the owner holds keeps the invariant's parts.
LEMMA OwnerReleased ==
  ASSUME IInv, ReleaseOwner,
         UNCHANGED <<stage, topology, instance, queue, io, tail, wpc, wop,
                     violations>>
  PROVE  /\ op' \in [Ops -> Operations \cup {Free}]
         /\ arm' = NoArm /\ owner' = None
         /\ CoreOk' /\ SweepsAreFinal' /\ ArmOk'
<1> DEFINE S == {o \in Live : op[o].owner = owner}
<1>1. op' = Wake(S, 2) /\ S \in SUBSET Live /\ 2 \in 1 .. 3
  BY DEF ReleaseOwner
<1>2. arm' = NoArm /\ owner' = None
  BY DEF ReleaseOwner
<1>3. TypeOK /\ CoreOk /\ SweepsAreFinal /\ ArmOk
  BY DEF IInv
<1>4. /\ op' \in [Ops -> Operations \cup {Free}]
      /\ Live' = Live
      /\ \A o \in Live : /\ Keeps(o) /\ Belongs(o) /\ op'[o].refs = op[o].refs
                         /\ op'[o].wake = IF o \in S /\ op[o].wake < 2
                                          THEN 2 ELSE op[o].wake
  BY <1>1, <1>3, WakeChanges
<1>5. CoreOk'
  <2>1. wpc' = "exited" => queue = <<>> /\ stage' # "loaded"
    BY <1>3 DEF CoreOk, WorkerOk
  <2>2. QED
    BY <1>3, <1>4, <2>1, CoreStays
<1>6. SweepsAreFinal'
  <2> SUFFICES ASSUME NEW o \in Live, ~ op'[o].released
               PROVE  /\ op'[o].wake >= 2
                      /\ stage' # "loaded" => op'[o].wake = 3
                      /\ instance'[op'[o].level] # "attached" => op'[o].wake = 3
    BY <1>4 DEF SweepsAreFinal
  <2>1. op[o] \in Operations
    BY <1>3, LiveOps
  <2>2. op[o].wake \in 0 .. 3
    BY <2>1 DEF Operations
  <2>3. /\ op[o].owner # owner => op[o].wake >= 2
        /\ stage # "loaded" => op[o].wake = 3
        /\ instance[op[o].level] # "attached" => op[o].wake = 3
    BY <1>3, <1>4 DEF SweepsAreFinal, Keeps
  <2>4. QED
    BY <1>4, <2>2, <2>3 DEF Keeps
<1>7. ArmOk'
  BY <1>2, <1>3, <1>4, ArmStays
<1>8. QED
  BY <1>2, <1>4, <1>5, <1>6, <1>7

\* Where operations, queue and requests stay, so does what is said of them.
LEMMA OpsStay ==
  ASSUME IInv, UNCHANGED <<op, queue, io, tail, wop, violations>>,
         wpc' = wpc \/ (wpc \notin Holding /\ wpc' \notin Holding),
         wpc' = "exited" => queue = <<>> /\ stage' # "loaded",
         arm' = NoArm \/ UNCHANGED <<stage, owner, arm, topology>>,
         stage = "loaded" => stage' = "loaded",
         owner' = owner,
         \A l \in Levels : instance[l] = "attached" => instance'[l] = "attached"
  PROVE  CoreOk' /\ SweepsAreFinal' /\ ArmOk' /\ Live' = Live
<1>1. Live' = Live /\ \A o \in Live : Keeps(o) /\ Belongs(o) /\ op'[o] = op[o]
  BY DEF Live, Keeps, Belongs
<1>2. TypeOK /\ CoreOk /\ SweepsAreFinal /\ ArmOk
  BY DEF IInv
<1>3. \A o \in Live : op'[o].wake \in 0 .. 3 /\ op'[o].wake >= op[o].wake
  <2>1. \A o \in Live : op[o].wake \in 0 .. 3
    BY <1>2, LiveOps DEF Operations
  <2>2. QED
    BY <1>1, <2>1
<1>4. CoreOk'
  BY <1>1, <1>2, CoreStays
<1>5. SweepsAreFinal'
  BY <1>1, <1>2, <1>3, SweepStays
<1>6. ArmOk'
  BY <1>1, <1>2, ArmStays
<1>7. QED
  BY <1>1, <1>4, <1>5, <1>6

-------------------------------------------------------------------------------
(* The port, exits, instances and unload *)

\* A client connects.
LEMMA ConnectKeeps ==
  ASSUME IInv, NEW c \in ClientIds, Connect(c)
  PROVE  IInv'
<1>1. TypeOK'
  BY DEF IInv, TypeOK, Connect, armVars, workerVars
<1>2. CoreOk' /\ SweepsAreFinal' /\ ArmOk'
  <2>1. UNCHANGED <<op, queue, io, tail, wpc, wop, violations, stage, owner, arm,
                    topology, instance>>
    BY DEF Connect, armVars, workerVars
  <2>2. wpc' = "exited" => queue = <<>> /\ stage' # "loaded"
    BY <2>1 DEF IInv, CoreOk, WorkerOk
  <2>3. QED
    BY <2>1, <2>2, OpsStay
<1>3. QED
  BY <1>1, <1>2 DEF IInv

\* A client disconnects; what it owns is released.
LEMMA DisconnectKeeps ==
  ASSUME IInv, NEW c \in ClientIds, Disconnect(c)
  PROVE  IInv'
<1>1. UNCHANGED <<stage, control, process, topology, instance, queue, io, tail,
                  wpc, wop, snapshot, available, violations>>
  BY DEF Disconnect, workerVars
<1>2. client' = [client EXCEPT ![c] = "closed"]
  BY DEF Disconnect
<1>3. CASE owner = c
  <2>1. ReleaseOwner
    BY <1>3 DEF Disconnect
  <2>2. /\ op' \in [Ops -> Operations \cup {Free}]
        /\ arm' = NoArm /\ owner' = None
        /\ CoreOk' /\ SweepsAreFinal' /\ ArmOk'
    BY <1>1, <2>1, OwnerReleased
  <2>3. TypeOK'
    BY <1>1, <1>2, <2>2 DEF IInv, TypeOK
  <2>4. QED
    BY <2>2, <2>3 DEF IInv
<1>4. CASE owner # c
  <2>1. UNCHANGED <<owner, arm, op>>
    BY <1>4 DEF Disconnect
  <2>2. wpc' = "exited" => queue = <<>> /\ stage' # "loaded"
    BY <1>1 DEF IInv, CoreOk, WorkerOk
  <2>3. CoreOk' /\ SweepsAreFinal' /\ ArmOk'
    BY <1>1, <2>1, <2>2, OpsStay
  <2>4. TypeOK'
    BY <1>1, <1>2, <2>1 DEF IInv, TypeOK
  <2>5. QED
    BY <2>3, <2>4 DEF IInv
<1>5. QED
  BY <1>3, <1>4

\* A client arms: nothing is left of an earlier arm.
LEMMA ArmKeeps ==
  ASSUME IInv, NEW c \in ClientIds, NEW t \in Targets, NEW m \in AllModes,
         NEW n \in 1 .. 8, Arm(c, t, m, n)
  PROVE  IInv'
<1>1. /\ UNCHANGED <<stage, process, client, topology, instance, op, queue, io,
                     tail, wpc, wop, snapshot, violations>>
      /\ owner' = c /\ control' = c /\ available' = TRUE
      /\ arm' = [target |-> t, mode |-> m, left |-> n, gen |-> topology]
      /\ Live = {} /\ stage = "loaded"
  BY DEF Arm, Accepted, portVars, workerVars
<1>2. arm' \in Arms
  BY <1>1 DEF IInv, TypeOK, Arms
<1>3. TypeOK'
  BY <1>1, <1>2 DEF IInv, TypeOK
<1>4. Live' = {}
  BY <1>1 DEF Live
<1>5. CoreOk'
  <2>1. wpc' = "exited" => queue = <<>> /\ stage' # "loaded"
    BY <1>1 DEF IInv, CoreOk, WorkerOk
  <2>2. \A o \in Live : Keeps(o) /\ op'[o].refs = op[o].refs
    BY <1>1
  <2>3. QED
    BY <1>1, <1>4, <2>1, <2>2, CoreStays DEF IInv
<1>6. SweepsAreFinal'
  BY <1>4 DEF SweepsAreFinal
<1>7. ArmOk'
  <2>1. arm'.gen = topology
    BY <1>1
  <2>2. c # None
    BY SetsAssumption
  <2>3. QED
    BY <1>1, <1>4, <2>1, <2>2 DEF ArmOk
<1>8. QED
  BY <1>3, <1>5, <1>6, <1>7 DEF IInv

\* A client resumes what it holds.
LEMMA ResumeKeeps ==
  ASSUME IInv, NEW c \in ClientIds, Resume(c)
  PROVE  IInv'
<1> DEFINE S == {o \in Live : op[o].owner = c}
<1>1. /\ op' = Wake(S, 1) /\ S \in SUBSET Live /\ 1 \in 1 .. 3
      /\ control' = c
      /\ UNCHANGED <<stage, process, client, owner, arm, topology, instance,
                     queue, io, tail, wpc, wop, snapshot, available, violations>>
  BY DEF Resume, portVars, armVars, workerVars
<1>2. TypeOK /\ CoreOk /\ SweepsAreFinal /\ ArmOk
  BY DEF IInv
<1>3. /\ op' \in [Ops -> Operations \cup {Free}]
      /\ Live' = Live
      /\ \A o \in Live : /\ Keeps(o) /\ Belongs(o) /\ op'[o].refs = op[o].refs
                         /\ op'[o].wake = IF o \in S /\ op[o].wake < 1
                                          THEN 1 ELSE op[o].wake
  BY <1>1, <1>2, WakeChanges
<1>4. TypeOK'
  BY <1>1, <1>2, <1>3 DEF TypeOK
<1>5. CoreOk'
  <2>1. wpc' = "exited" => queue = <<>> /\ stage' # "loaded"
    BY <1>1, <1>2 DEF CoreOk, WorkerOk
  <2>2. QED
    BY <1>1, <1>2, <1>3, <2>1, CoreStays
<1>6. SweepsAreFinal'
  <2>1. \A o \in Live : op[o].wake \in 0 .. 3
    BY <1>2, LiveOps DEF Operations
  <2>2. \A o \in Live : op'[o].wake \in 0 .. 3 /\ op'[o].wake >= op[o].wake
    BY <1>3, <2>1
  <2>3. QED
    BY <1>1, <1>2, <1>3, <2>2, SweepStays
<1>7. ArmOk'
  BY <1>1, <1>2, <1>3, ArmStays
<1>8. QED
  BY <1>4, <1>5, <1>6, <1>7 DEF IInv

\* A client releases what it holds.
LEMMA ReleaseKeeps ==
  ASSUME IInv, NEW c \in ClientIds, Release(c)
  PROVE  IInv'
<1>1. /\ UNCHANGED <<stage, control, process, client, topology, instance, queue,
                     io, tail, wpc, wop, snapshot, available, violations>>
      /\ ReleaseOwner
  BY DEF Release, portVars, workerVars
<1>2. /\ op' \in [Ops -> Operations \cup {Free}]
      /\ arm' = NoArm /\ owner' = None
      /\ CoreOk' /\ SweepsAreFinal' /\ ArmOk'
  BY <1>1, OwnerReleased
<1>3. TypeOK'
  BY <1>1, <1>2 DEF IInv, TypeOK
<1>4. QED
  BY <1>2, <1>3 DEF IInv

\* The reply is given, or what the client owns is released.
LEMMA ReplyKeeps ==
  ASSUME IInv, NEW c \in ClientIds, Reply(c)
  PROVE  IInv'
<1>1. /\ UNCHANGED <<stage, process, client, topology, instance, queue,
                     io, tail, wpc, wop, snapshot, available, violations>>
      /\ control' = None
  BY DEF Reply, portVars, workerVars
<1>2. CASE ReleaseOwner
  <2>1. /\ op' \in [Ops -> Operations \cup {Free}]
        /\ arm' = NoArm /\ owner' = None
        /\ CoreOk' /\ SweepsAreFinal' /\ ArmOk'
    BY <1>1, <1>2, OwnerReleased
  <2>2. TypeOK'
    BY <1>1, <2>1 DEF IInv, TypeOK
  <2>3. QED
    BY <2>1, <2>2 DEF IInv
<1>3. CASE UNCHANGED <<owner, arm, op>>
  <2>1. wpc' = "exited" => queue = <<>> /\ stage' # "loaded"
    BY <1>1 DEF IInv, CoreOk, WorkerOk
  <2>2. CoreOk' /\ SweepsAreFinal' /\ ArmOk'
    BY <1>1, <1>3, <2>1, OpsStay
  <2>3. TypeOK'
    BY <1>1, <1>3 DEF IInv, TypeOK
  <2>4. QED
    BY <2>2, <2>3 DEF IInv
<1>4. QED
  BY <1>2, <1>3 DEF Reply

\* A client's process exits.
LEMMA ClientExitKeeps ==
  ASSUME IInv, NEW c \in ClientIds, ClientExit(c)
  PROVE  IInv'
<1>1. /\ UNCHANGED <<stage, control, process, topology, instance, queue,
                     io, tail, wpc, wop, snapshot, available, violations>>
      /\ client' = [client EXCEPT ![c] = "exited"]
  BY DEF ClientExit, workerVars
<1>2. CASE owner = c
  <2>1. ReleaseOwner
    BY <1>2 DEF ClientExit
  <2>2. /\ op' \in [Ops -> Operations \cup {Free}]
        /\ arm' = NoArm /\ owner' = None
        /\ CoreOk' /\ SweepsAreFinal' /\ ArmOk'
    BY <1>1, <2>1, OwnerReleased
  <2>3. TypeOK'
    BY <1>1, <2>2 DEF IInv, TypeOK
  <2>4. QED
    BY <2>2, <2>3 DEF IInv
<1>3. CASE owner # c
  <2>1. UNCHANGED <<owner, arm, op>>
    BY <1>3 DEF ClientExit
  <2>2. wpc' = "exited" => queue = <<>> /\ stage' # "loaded"
    BY <1>1 DEF IInv, CoreOk, WorkerOk
  <2>3. CoreOk' /\ SweepsAreFinal' /\ ArmOk'
    BY <1>1, <2>1, <2>2, OpsStay
  <2>4. TypeOK'
    BY <1>1, <2>1 DEF IInv, TypeOK
  <2>5. QED
    BY <2>3, <2>4 DEF IInv
<1>4. QED
  BY <1>2, <1>3

\* The target's exit is notified.
LEMMA TargetExitKeeps ==
  ASSUME IInv, NEW t \in Targets, TargetExit(t)
  PROVE  IInv'
<1> DEFINE S == {o \in Live : op[o].target = t}
<1>1. /\ op' = Wake(S, 2) /\ S \in SUBSET Live /\ 2 \in 1 .. 3
      /\ process' = [process EXCEPT ![t] = "notified"]
      /\ arm' = NoArm \/ UNCHANGED arm
      /\ UNCHANGED <<stage, control, client, owner, topology, instance,
                     queue, io, tail, wpc, wop, snapshot, available, violations>>
  BY DEF TargetExit, workerVars
<1>2. TypeOK /\ CoreOk /\ SweepsAreFinal /\ ArmOk
  BY DEF IInv
<1>3. /\ op' \in [Ops -> Operations \cup {Free}]
      /\ Live' = Live
      /\ \A o \in Live : /\ Keeps(o) /\ Belongs(o) /\ op'[o].refs = op[o].refs
                         /\ op'[o].wake = IF o \in S /\ op[o].wake < 2
                                          THEN 2 ELSE op[o].wake
  BY <1>1, <1>2, WakeChanges
<1>4. TypeOK'
  BY <1>1, <1>2, <1>3 DEF TypeOK
<1>5. CoreOk'
  <2>1. wpc' = "exited" => queue = <<>> /\ stage' # "loaded"
    BY <1>1, <1>2 DEF CoreOk, WorkerOk
  <2>2. QED
    BY <1>1, <1>2, <1>3, <2>1, CoreStays
<1>6. SweepsAreFinal'
  <2>1. \A o \in Live : op[o].wake \in 0 .. 3
    BY <1>2, LiveOps DEF Operations
  <2>2. \A o \in Live : op'[o].wake \in 0 .. 3 /\ op'[o].wake >= op[o].wake
    BY <1>3, <2>1
  <2>3. QED
    BY <1>1, <1>2, <1>3, <2>2, SweepStays
<1>7. ArmOk'
  BY <1>1, <1>2, <1>3, ArmStays
<1>8. QED
  BY <1>4, <1>5, <1>6, <1>7 DEF IInv

\* The target's process object is signaled.
LEMMA SignalKeeps ==
  ASSUME IInv, NEW t \in Targets, Signal(t)
  PROVE  IInv'
<1>1. /\ UNCHANGED <<op, queue, io, tail, wpc, wop, violations, stage, owner, arm,
                     topology, instance, control, client, snapshot, available>>
      /\ process' = [process EXCEPT ![t] = "signaled"]
  BY DEF Signal, armVars, workerVars
<1>2. TypeOK'
  BY <1>1 DEF IInv, TypeOK
<1>3. wpc' = "exited" => queue = <<>> /\ stage' # "loaded"
  BY <1>1 DEF IInv, CoreOk, WorkerOk
<1>4. CoreOk' /\ SweepsAreFinal' /\ ArmOk'
  BY <1>1, <1>3, OpsStay
<1>5. QED
  BY <1>2, <1>4 DEF IInv

\* An instance is attached.
LEMMA SetupKeeps ==
  ASSUME IInv, NEW l \in Levels, Setup(l)
  PROVE  IInv'
<1>1. /\ UNCHANGED <<op, queue, io, tail, wpc, wop, violations, stage, owner,
                     process, client, control, snapshot, available>>
      /\ arm' = NoArm /\ topology' = topology + 1
      /\ instance' = [instance EXCEPT ![l] = "attached"]
  BY DEF Setup, ChangeTopology, portVars, workerVars
<1>2. TypeOK'
  BY <1>1 DEF IInv, TypeOK
<1>3. wpc' = "exited" => queue = <<>> /\ stage' # "loaded"
  BY <1>1 DEF IInv, CoreOk, WorkerOk
<1>4. \A k \in Levels : instance[k] = "attached" => instance'[k] = "attached"
  BY <1>1 DEF IInv, TypeOK
<1>5. CoreOk' /\ SweepsAreFinal' /\ ArmOk'
  BY <1>1, <1>3, <1>4, OpsStay
<1>6. QED
  BY <1>2, <1>5 DEF IInv

\* An instance begins to stop: its operations are cancelled, the arm is lost.
LEMMA TeardownStartKeeps ==
  ASSUME IInv, NEW l \in Levels, TeardownStart(l)
  PROVE  IInv'
<1> DEFINE S == {o \in Live : op[o].level = l}
<1>1. /\ op' = Wake(S, 3) /\ S \in SUBSET Live /\ 3 \in 1 .. 3
      /\ arm' = NoArm /\ topology' = topology + 1
      /\ instance' = [instance EXCEPT ![l] = "stopping"]
      /\ UNCHANGED <<stage, control, process, client, owner, queue, io, tail,
                     wpc, wop, snapshot, available, violations>>
  BY DEF TeardownStart, ChangeTopology, portVars, workerVars
<1>2. TypeOK /\ CoreOk /\ SweepsAreFinal /\ ArmOk
  BY DEF IInv
<1>3. /\ op' \in [Ops -> Operations \cup {Free}]
      /\ Live' = Live
      /\ \A o \in Live : /\ Keeps(o) /\ Belongs(o) /\ op'[o].refs = op[o].refs
                         /\ op'[o].wake = IF o \in S /\ op[o].wake < 3
                                          THEN 3 ELSE op[o].wake
  BY <1>1, <1>2, WakeChanges
<1>4. TypeOK'
  BY <1>1, <1>2, <1>3 DEF TypeOK
<1>5. CoreOk'
  <2>1. wpc' = "exited" => queue = <<>> /\ stage' # "loaded"
    BY <1>1, <1>2 DEF CoreOk, WorkerOk
  <2>2. QED
    BY <1>1, <1>2, <1>3, <2>1, CoreStays
<1>6. SweepsAreFinal'
  <2> SUFFICES ASSUME NEW o \in Live, ~ op'[o].released
               PROVE  /\ op'[o].owner # owner' => op'[o].wake >= 2
                      /\ stage' # "loaded" => op'[o].wake = 3
                      /\ instance'[op'[o].level] # "attached" => op'[o].wake = 3
    BY <1>3 DEF SweepsAreFinal
  <2>1. op[o] \in Operations
    BY <1>2, LiveOps
  <2>2. op[o].wake \in 0 .. 3 /\ op[o].level \in Levels
    BY <2>1 DEF Operations
  <2>3. /\ op[o].owner # owner => op[o].wake >= 2
        /\ stage # "loaded" => op[o].wake = 3
        /\ instance[op[o].level] # "attached" => op[o].wake = 3
    BY <1>2, <1>3 DEF SweepsAreFinal, Keeps
  <2>4. op[o].level # l => instance'[op[o].level] = instance[op[o].level]
    BY <1>1, <1>2, <2>2 DEF TypeOK
  <2>5. op'[o].wake >= op[o].wake /\ (o \in S => op'[o].wake = 3)
    BY <1>3, <2>2
  <2>6. op'[o].wake \in 0 .. 3
    BY <1>3, <2>2
  <2>7. QED
    BY <1>1, <1>3, <2>2, <2>3, <2>4, <2>5, <2>6 DEF Keeps, Belongs
<1>7. ArmOk'
  BY <1>1, <1>2, <1>3, ArmStays
<1>8. QED
  BY <1>4, <1>5, <1>6, <1>7 DEF IInv

\* An instance has gone.
LEMMA TeardownCompleteKeeps ==
  ASSUME IInv, NEW l \in Levels, TeardownComplete(l)
  PROVE  IInv'
<1>1. /\ UNCHANGED <<op, queue, io, tail, wpc, wop, violations, stage, owner, arm,
                     topology, process, client, control, snapshot, available>>
      /\ instance[l] = "stopping"
      /\ instance' = [instance EXCEPT ![l] = "absent"]
  BY DEF TeardownComplete, portVars, workerVars
<1>2. TypeOK'
  BY <1>1 DEF IInv, TypeOK
<1>3. wpc' = "exited" => queue = <<>> /\ stage' # "loaded"
  BY <1>1 DEF IInv, CoreOk, WorkerOk
<1>4. \A k \in Levels : instance[k] = "attached" => instance'[k] = "attached"
  BY <1>1 DEF IInv, TypeOK
<1>5. CoreOk' /\ SweepsAreFinal' /\ ArmOk'
  BY <1>1, <1>3, <1>4, OpsStay
<1>6. QED
  BY <1>2, <1>5 DEF IInv

\* The driver is told to stop: everything is cancelled.
LEMMA StopKeeps ==
  ASSUME IInv, Stop
  PROVE  IInv'
<1>1. /\ op' = Wake(Live, 3) /\ Live \in SUBSET Live /\ 3 \in 1 .. 3
      /\ arm' = NoArm /\ owner' = None /\ available' = TRUE
      /\ stage = "loaded" /\ stage' = "stopping"
      /\ UNCHANGED <<control, process, client, topology, instance, queue, io, tail,
                     wpc, wop, snapshot, violations>>
  BY DEF Stop, portVars, workerVars
<1>2. TypeOK /\ CoreOk /\ SweepsAreFinal /\ ArmOk
  BY DEF IInv
<1>3. /\ op' \in [Ops -> Operations \cup {Free}]
      /\ Live' = Live
      /\ \A o \in Live : /\ Keeps(o) /\ Belongs(o) /\ op'[o].refs = op[o].refs
                         /\ op'[o].wake = IF o \in Live /\ op[o].wake < 3
                                          THEN 3 ELSE op[o].wake
  BY <1>1, <1>2, WakeChanges
<1>4. TypeOK'
  BY <1>1, <1>2, <1>3 DEF TypeOK
<1>5. CoreOk'
  <2>1. wpc' = "exited" => queue = <<>> /\ stage' # "loaded"
    BY <1>1, <1>2 DEF CoreOk, WorkerOk
  <2>2. QED
    BY <1>1, <1>2, <1>3, <2>1, CoreStays
<1>6. SweepsAreFinal'
  <2>1. \A o \in Live : op[o].wake \in 0 .. 3
    BY <1>2, LiveOps DEF Operations
  <2>2. \A o \in Live : op'[o].wake = 3
    BY <1>3, <2>1
  <2>3. QED
    BY <1>3, <2>2 DEF SweepsAreFinal
<1>7. ArmOk'
  BY <1>1, <1>2, <1>3, ArmStays
<1>8. QED
  BY <1>4, <1>5, <1>6, <1>7 DEF IInv

\* The worker has been joined, or the filter is unregistered.
LEMMA EndKeeps ==
  ASSUME IInv, Join \/ Unregister
  PROVE  IInv'
<1>1. /\ UNCHANGED <<op, queue, io, tail, wpc, wop, violations, owner, arm,
                     topology, instance, process, client, control, snapshot,
                     available>>
      /\ stage # "loaded" /\ stage' \in {"joined", "gone"}
  BY DEF Join, Unregister, portVars, armVars, workerVars
<1>2. TypeOK'
  BY <1>1 DEF IInv, TypeOK
<1>3. wpc' = "exited" => queue = <<>> /\ stage' # "loaded"
  BY <1>1 DEF IInv, CoreOk, WorkerOk
<1>4. arm' = NoArm
  BY <1>1 DEF IInv, ArmOk
<1>5. CoreOk' /\ SweepsAreFinal' /\ ArmOk'
  BY <1>1, <1>3, <1>4, OpsStay
<1>6. QED
  BY <1>2, <1>5 DEF IInv

-------------------------------------------------------------------------------
(* The worker between two operations *)

\* What an arm is for, if there is one.
LEMMA ArmTarget == TypeOK => arm.target \in Targets \cup {None}
BY DEF TypeOK, Arms, NoArm

\* The worker looks at its target, senses, waits and finds no work.
LEMMA WorkerIdles ==
  ASSUME IInv, Watch \/ Sense \/ WaitEnds \/ NoWork
  PROVE  IInv'
<1>1. UNCHANGED <<op, queue, io, tail, wop, violations, stage, owner, arm,
                  topology, instance, process, client>>
  BY DEF Watch, Sense, WaitEnds, NoWork, portVars, armVars
<1>2. wpc \notin Holding /\ wpc' \in WorkerPcs /\ wpc' \notin Holding
  BY DEF Watch, Sense, WaitEnds, NoWork, WorkerPcs, Holding
<1>3. wpc' = "exited" => queue = <<>> /\ stage' # "loaded"
  BY <1>1 DEF Watch, Sense, WaitEnds, NoWork
<1>4. CoreOk' /\ SweepsAreFinal' /\ ArmOk'
  BY <1>1, <1>2, <1>3, OpsStay
<1>5. control' \in {None, "worker"} \cup ClientIds
  BY DEF IInv, TypeOK, Watch, Sense, WaitEnds, NoWork
<1>6. snapshot' \in Targets \cup {None}
  BY ArmTarget DEF IInv, TypeOK, Watch, Sense, WaitEnds, NoWork
<1>7. available' \in BOOLEAN
  BY DEF IInv, TypeOK, Watch, Sense, WaitEnds, NoWork
<1>8. TypeOK'
  BY <1>1, <1>2, <1>5, <1>6, <1>7 DEF IInv, TypeOK
<1>9. QED
  BY <1>4, <1>8 DEF IInv

\* The worker gives up a target that has ended.
LEMMA RetireKeeps ==
  ASSUME IInv, Retire
  PROVE  IInv'
<1>1. /\ UNCHANGED <<queue, io, tail, wop, violations, stage, owner,
                     topology, instance, process, client, available>>
      /\ wpc \notin Holding /\ wpc' = "sense" /\ wpc' \notin Holding
      /\ snapshot' = None /\ control' = None
  BY DEF Retire, portVars, Holding
<1>2. TypeOK /\ CoreOk /\ SweepsAreFinal /\ ArmOk
  BY DEF IInv
<1>3. CASE UNCHANGED <<arm, op>>
  <2>1. CoreOk' /\ SweepsAreFinal' /\ ArmOk'
    BY <1>1, <1>3, OpsStay
  <2>2. TypeOK'
    BY <1>1, <1>2, <1>3 DEF TypeOK, WorkerPcs
  <2>3. QED
    BY <2>1, <2>2 DEF IInv
<1>4. CASE arm' = NoArm /\ op' = Wake({o \in Live : op[o].target = snapshot}, 2)
  <2> DEFINE S == {o \in Live : op[o].target = snapshot}
  <2>1. op' = Wake(S, 2) /\ S \in SUBSET Live /\ 2 \in 1 .. 3
    BY <1>4
  <2>2. /\ op' \in [Ops -> Operations \cup {Free}]
        /\ Live' = Live
        /\ \A o \in Live : /\ Keeps(o) /\ Belongs(o) /\ op'[o].refs = op[o].refs
                           /\ op'[o].wake = IF o \in S /\ op[o].wake < 2
                                            THEN 2 ELSE op[o].wake
    BY <1>2, <2>1, WakeChanges
  <2>3. TypeOK'
    BY <1>1, <1>2, <1>4, <2>2 DEF TypeOK, WorkerPcs
  <2>4. CoreOk'
    BY <1>1, <1>2, <2>2, CoreStays
  <2>5. SweepsAreFinal'
    <3>1. \A o \in Live : op[o].wake \in 0 .. 3
      BY <1>2, LiveOps DEF Operations
    <3>2. \A o \in Live : op'[o].wake \in 0 .. 3 /\ op'[o].wake >= op[o].wake
      BY <2>2, <3>1
    <3>3. QED
      BY <1>1, <1>2, <2>2, <3>2, SweepStays
  <2>6. ArmOk'
    BY <1>1, <1>2, <1>4, <2>2, ArmStays
  <2>7. QED
    BY <2>3, <2>4, <2>5, <2>6 DEF IInv
<1>5. QED
  BY <1>3, <1>4 DEF Retire

-------------------------------------------------------------------------------
(* Requests *)

\* One request is changed and no other.
LEMMA OneRequest ==
  ASSUME TypeOK, NEW i \in Ios, NEW r \in Requests, io' = [io EXCEPT ![i] = r]
  PROVE  /\ io' \in [Ios -> Requests] /\ io'[i] = r
         /\ \A j \in Ios : j # i => io'[j] = io[j]
BY DEF TypeOK

\* A request goes down with what it carries.
LEMMA DownGives ==
  ASSUME NEW i \in Ios, NEW r \in Requests
  PROVE  /\ Down(i, r) \in Requests
         /\ Down(i, r).phase \in {"pre", "device"}
         /\ r.level # "upper" => Down(i, r).phase = "device"
         /\ Down(i, r).level = "lower"
         /\ Down(i, r).ctx = r.ctx /\ Down(i, r).proc = r.proc
<1>1. "lower" \in Levels /\ None \in Ops \cup {None}
      /\ {"pre", "device"} \subseteq Phases
  BY DEF Levels, Phases
<1>2. QED
  BY <1>1 DEF Down, Requests

\* A request comes up to the next post, or has ended.
LEMMA UpGives ==
  ASSUME NEW r \in Requests
  PROVE  /\ Up(r) \in Requests
         /\ \/ Up(r) = Idle
            \/ /\ r.level = "lower" /\ r.ctx["upper"] # None
               /\ Up(r).phase = "post" /\ Up(r).level = "upper"
               /\ Up(r).ctx["upper"] = r.ctx["upper"]
               /\ Up(r).ctx["lower"] = None
               /\ Up(r).proc = r.proc
<1>1. Idle \in Requests
  BY DEF Idle, Requests, NoContext, Phases, Levels
<1>2. CASE r.level = "lower" /\ r.ctx["upper"] # None
  <2> DEFINE x == [r.ctx EXCEPT !["lower"] = None]
  <2>1. r.ctx \in [Levels -> Ops \cup {None}]
    BY DEF Requests
  <2>2. x \in [Levels -> Ops \cup {None}]
        /\ x["upper"] = r.ctx["upper"] /\ x["lower"] = None
    BY <2>1 DEF Levels
  <2>3. Up(r) = [r EXCEPT !.phase = "post", !.level = "upper", !.cur = None,
                          !.ctx = x]
    BY <1>2 DEF Up, Requests
  <2> HIDE DEF x
  <2>4. QED
    BY <1>2, <2>2, <2>3 DEF Requests, Phases, Levels
<1>3. CASE ~ (r.level = "lower" /\ r.ctx["upper"] # None)
  BY <1>1, <1>3 DEF Up
<1>4. QED
  BY <1>2, <1>3

\* A request that goes down fits what it carries.
LEMMA FitsDown ==
  ASSUME NEW i \in Ios, NEW r \in Requests, r.proc # None,
         \A l \in Levels : r.ctx[l] # None => Carries(i, l, r.ctx[l]),
         r.level = "upper" => r.ctx["lower"] = None
  PROVE  Fits(i, Down(i, r))
<1> DEFINE d == Down(i, r)
<1>1. /\ d.phase \in {"pre", "device"} /\ d.level = "lower"
      /\ r.level # "upper" => d.phase = "device"
      /\ d.ctx = r.ctx /\ d.proc = r.proc
  BY DownGives
<1> HIDE DEF d
<1>2. Fits(i, d)
  BY <1>1 DEF Fits
<1>3. QED
  BY <1>2 DEF d

\* And so does one that comes up.
LEMMA FitsUp ==
  ASSUME NEW i \in Ios, NEW r \in Requests, r.proc # None,
         \A l \in Levels : r.ctx[l] # None => Carries(i, l, r.ctx[l])
  PROVE  Fits(i, Up(r))
<1> DEFINE u == Up(r)
<1>1. \/ u = Idle
      \/ /\ r.level = "lower" /\ r.ctx["upper"] # None
         /\ u.phase = "post" /\ u.level = "upper"
         /\ u.ctx["upper"] = r.ctx["upper"] /\ u.ctx["lower"] = None
         /\ u.proc = r.proc
  BY UpGives
<1> HIDE DEF u
<1>2. Fits(i, u)
  <2>1. CASE u = Idle
    BY <2>1 DEF Idle, NoContext, Fits, Levels
  <2>2. CASE u # Idle
    BY <1>1, <2>2 DEF Fits, Levels
  <2>3. QED
    BY <2>1, <2>2
<1>3. QED
  BY <1>2 DEF u

\* What the operations of other requests are counted on for stays with them.
LEMMA SlotsChange ==
  ASSUME TypeOK, SlotsOk, NEW i \in Ios, \A j \in Ios : j # i => io'[j] = io[j],
         \A o \in Live : op[o].data # i => /\ o \in Live'
                                          /\ op'[o].released = op[o].released
                                          /\ op'[o].level = op[o].level
                                          /\ op'[o].data = op[o].data,
         Fits(i, io[i])'
  PROVE  SlotsOk'
<1> SUFFICES ASSUME NEW j \in Ios, j # i PROVE Fits(j, io[j])'
  BY DEF SlotsOk
<1>1. \A l \in Levels, o \in Ops \cup {None} : Carries(j, l, o) => Carries(j, l, o)'
  BY DEF Carries
<1>2. io[j] \in Requests /\ io'[j] = io[j] /\ Fits(j, io[j])
  BY DEF TypeOK, SlotsOk
<1>3. /\ io[j].level \in Levels /\ io[j].cur \in Ops \cup {None}
      /\ \A l \in Levels : io[j].ctx[l] \in Ops \cup {None}
  BY <1>2 DEF Requests
<1>4. QED
  BY <1>1, <1>2, <1>3 DEF Fits

\* What is in the worker's queue and hands is allocated.
LEMMA UndoneLive == IInv => Undone \subseteq Live /\ Range(queue) \subseteq Live
<1> SUFFICES ASSUME IInv PROVE Undone \subseteq Live
  BY DEF Undone
<1>1. InHand => wop \in Live
  BY DEF IInv, CoreOk, WorkerOk, InHand, Holding
<1>2. Undone \subseteq Ops
  BY <1>1, QueueRange DEF IInv, Undone, Live
<1>3. QED
  BY <1>2 DEF IInv, CoreOk, UndoneOk, HeldIsInHand, Live

\* A request that is not held moves on, with no operation but its own.
LEMMA RequestMoves ==
  ASSUME IInv, NEW i \in Ios, NEW r \in Requests, io' = [io EXCEPT ![i] = r],
         io[i].phase # "pended", r.phase \notin {"pended", "admitted", "leaving"},
         tail[i] = NoTail,
         \A l \in Levels :
           r.ctx[l] \in {None, io[i].ctx[l]}
             \/ (io[i].phase = "admitted" /\ r.ctx[l] = io[i].cur),
         Live' = Live, \A o \in Live : Keeps(o) /\ op'[o].refs = op[o].refs,
         Fits(i, r),
         UNCHANGED <<stage, queue, tail, wpc, wop, violations>>
  PROVE  CoreOk' /\ io' \in [Ios -> Requests]
<1>1. TypeOK /\ SlotsOk /\ UndoneOk /\ RefsOk /\ TailOk /\ WorkerOk
  BY DEF IInv, CoreOk
<1>2. /\ io' \in [Ios -> Requests] /\ io'[i] = r
      /\ \A j \in Ios : j # i => io'[j] = io[j]
  BY <1>1, OneRequest
<1>3. Undone \subseteq Live
  BY UndoneLive
<1>4. Pended' = Pended /\ i \notin Pended
  BY <1>2 DEF Pended
<1>5. InHand' = InHand /\ Undone' = Undone /\ Range(queue)' = Range(queue)
  BY DEF InHand, Undone
<1>6. SlotsOk'
  <2>1. Fits(i, r)'
    <3>1. \A l \in Levels, o \in Ops \cup {None} : Carries(i, l, o) => Carries(i, l, o)'
      BY DEF Carries, Keeps
    <3>2. r.level \in Levels /\ r.cur \in Ops \cup {None}
          /\ \A l \in Levels : r.ctx[l] \in Ops \cup {None}
      BY DEF Requests
    <3>3. \A l \in Levels : r.ctx[l] # None => Carries(i, l, r.ctx[l])'
      BY <3>1, <3>2 DEF Fits
    <3>4. QED
      BY <1>2, <3>3 DEF Fits
  <2>2. Fits(i, io[i])'
    BY <1>2, <2>1
  <2>3. QED
    BY <1>1, <1>2, <2>2, SlotsChange DEF Keeps
<1>7. UndoneOk'
  <2>1. \A o \in Undone : op[o].data \in Pended /\ op[o].data # i
                         /\ io'[op[o].data] = io[op[o].data] /\ o \in Live
    BY <1>1, <1>2, <1>3, <1>4 DEF UndoneOk, HeldIsInHand, Pended
  <2>2. HeldIsInHand'
    <3>1. \A o \in Undone : op'[o].live
      BY <1>3 DEF Live
    <3>2. \A j \in Pended : \E o \in Undone : op'[o].live /\ op'[o].data = j
      BY <1>1, <2>1, <3>1 DEF UndoneOk, HeldIsInHand, Keeps
    <3>3. \A o \in Undone : op'[o].data \in Pended
                           /\ io'[op'[o].data].level = op'[o].level
      BY <1>1, <2>1 DEF UndoneOk, HeldIsInHand, Keeps
    <3>4. \A o, p \in Undone : op'[o].data = op'[p].data => o = p
      BY <1>1, <2>1 DEF UndoneOk, HeldIsInHand, Keeps
    <3>5. QED
      BY <1>1, <1>4, <1>5, <3>1, <3>2, <3>3, <3>4 DEF UndoneOk, HeldIsInHand
  <2>3. QED
    BY <1>1, <1>5, <2>1, <2>2 DEF UndoneOk, Keeps
<1>8. RefsOk'
  <2>1. \A o \in Live : Logical(o)' = Logical(o) /\ WorkerHas(o)' = WorkerHas(o)
    BY DEF Logical, LogicalDrop, Dropping, DropsOwn, WorkerHas, Keeps
  <2>2. QED
    BY <1>1, <2>1 DEF RefsOk, One
<1>9. TailOk'
  BY <1>1, <1>2 DEF TailOk, DropsOwn, Keeps
<1>10. WorkerOk'
  <2>1. ASSUME wpc = "finish"
        PROVE  \A j \in Ios : /\ io'[j].phase = "admitted" => io'[j].cur # wop
                             /\ \A l \in Levels : io'[j].ctx[l] # wop
    <3>1. wop \in Live /\ wop # None
      BY <1>1, <2>1 DEF WorkerOk, Holding
    <3>2. \A l \in Levels : r.ctx[l] # wop
      BY <1>1, <2>1, <3>1 DEF WorkerOk
    <3>3. QED
      BY <1>1, <1>2, <2>1, <3>2 DEF WorkerOk
  <2>2. wpc = "finish" => ~ op'[wop].released
    BY <1>1 DEF WorkerOk, Holding, Keeps
  <2>3. QED
    BY <1>1, <2>1, <2>2 DEF WorkerOk
<1>11. QED
  BY <1>2, <1>6, <1>7, <1>8, <1>9, <1>10 DEF CoreOk

\* The rest of the invariant, where operations and arm stay.
LEMMA RestStays ==
  ASSUME IInv, CoreOk', io' \in [Ios -> Requests],
         UNCHANGED <<stage, control, process, client, owner, arm, topology,
                     instance, op, queue, tail, wpc, wop, snapshot, available,
                     violations>>
  PROVE  IInv'
<1>1. TypeOK'
  BY DEF IInv, TypeOK
<1>2. SweepsAreFinal'
  BY DEF IInv, SweepsAreFinal, Live
<1>3. ArmOk'
  BY DEF IInv, ArmOk, Live
<1>4. QED
  BY <1>1, <1>2, <1>3 DEF IInv

\* A request is sent.
LEMMA IssueKeeps ==
  ASSUME IInv, NEW i \in Ios, NEW t \in Targets, Issue(i, t)
  PROVE  IInv'
<1>1. PICK l \in Levels : io' = [io EXCEPT ![i] = [Idle EXCEPT !.phase = "pre",
                                                  !.level = l, !.proc = t]]
  BY DEF Issue
<1> DEFINE r == [Idle EXCEPT !.phase = "pre", !.level = l, !.proc = t]
<1>2. /\ r \in Requests /\ r.phase = "pre" /\ r.level = l /\ r.proc = t
      /\ r.ctx = NoContext
  BY DEF Idle, Requests, Phases, NoContext
<1>3. /\ UNCHANGED <<stage, control, process, client, owner, arm, topology,
                     instance, op, queue, tail, wpc, wop, snapshot, available,
                     violations>>
      /\ io[i].phase = "idle" /\ io' = [io EXCEPT ![i] = r]
  BY <1>1 DEF Issue, portVars, armVars, workerVars
<1> HIDE DEF r
<1>4. \A k \in Levels : r.ctx[k] = None
  BY <1>2 DEF NoContext
<1>5. Fits(i, r)
  BY <1>2, <1>4, SetsAssumption DEF Fits, Levels
<1>6. tail[i] = NoTail
  BY <1>3 DEF IInv, CoreOk, TailOk
<1>7. Live' = Live /\ \A o \in Live : Keeps(o) /\ op'[o].refs = op[o].refs
  BY <1>3 DEF Live, Keeps
<1>8. CoreOk' /\ io' \in [Ios -> Requests]
  <2>1. /\ io[i].phase # "pended" /\ tail[i] = NoTail /\ r \in Requests
        /\ r.phase \notin {"pended", "admitted", "leaving"}
        /\ UNCHANGED <<stage, queue, tail, wpc, wop, violations>>
    BY <1>2, <1>3, <1>4, <1>5, <1>6, <1>7
  <2>2. \A k \in Levels :
          \/ r.ctx[k] \in {None, io[i].ctx[k]}
          \/ io[i].phase = "admitted" /\ r.ctx[k] = io[i].cur
    BY <1>2, <1>3, <1>4, <1>5, <1>6, <1>7
  <2>3. QED
    BY <1>2, <1>3, <1>4, <1>5, <1>6, <1>7, <2>1, <2>2, RequestMoves
<1>9. QED
  BY <1>3, <1>8, RestStays

\* What is known of a request.
LEMMA RequestFacts ==
  ASSUME IInv, NEW i \in Ios
  PROVE  /\ io[i] \in Requests /\ Fits(i, io[i])
         /\ io[i].level \in Levels /\ io[i].ctx \in [Levels -> Ops \cup {None}]
         /\ io[i].phase # "leaving" => tail[i] = NoTail
BY DEF IInv, TypeOK, CoreOk, SlotsOk, TailOk, Requests

\* A request the fixture does not ask for goes down.
LEMMA PassByKeeps ==
  ASSUME IInv, NEW i \in Ios, PassBy(i)
  PROVE  IInv'
<1> DEFINE r == Down(i, io[i])
<1>1. /\ UNCHANGED <<stage, control, process, client, owner, arm, topology,
                     instance, op, queue, tail, wpc, wop, snapshot, available,
                     violations>>
      /\ io[i].phase = "pre" /\ io' = [io EXCEPT ![i] = r]
  BY DEF PassBy, portVars, armVars, workerVars
<1>2. io[i] \in Requests /\ Fits(i, io[i]) /\ tail[i] = NoTail
  BY <1>1, RequestFacts
<1>3. r \in Requests /\ r.phase \in {"pre", "device"} /\ r.ctx = io[i].ctx
  BY <1>2, DownGives
<1>4. Fits(i, r)
  BY <1>1, <1>2, FitsDown DEF Fits
<1> HIDE DEF r
<1>5. Live' = Live /\ \A o \in Live : Keeps(o) /\ op'[o].refs = op[o].refs
  BY <1>1 DEF Live, Keeps
<1>6. CoreOk' /\ io' \in [Ios -> Requests]
  <2>1. /\ io[i].phase # "pended" /\ tail[i] = NoTail /\ r \in Requests
        /\ r.phase \notin {"pended", "admitted", "leaving"}
        /\ UNCHANGED <<stage, queue, tail, wpc, wop, violations>>
    BY <1>1, <1>2, <1>3, <1>4, <1>5
  <2>2. \A k \in Levels :
          \/ r.ctx[k] \in {None, io[i].ctx[k]}
          \/ io[i].phase = "admitted" /\ r.ctx[k] = io[i].cur
    BY <1>1, <1>2, <1>3, <1>4, <1>5
  <2>3. QED
    BY <1>1, <1>2, <1>3, <1>4, <1>5, <2>1, <2>2, RequestMoves
<1>7. QED
  BY <1>1, <1>6, RestStays

\* A request goes on with its operation.
LEMMA GoOnKeeps ==
  ASSUME IInv, NEW i \in Ios, GoOn(i)
  PROVE  IInv'
<1> DEFINE o == io[i].cur
           x == [io[i].ctx EXCEPT ![io[i].level] = o]
           q == [io[i] EXCEPT !.ctx[io[i].level] = o]
           r == Down(i, q)
<1>1. /\ UNCHANGED <<stage, control, process, client, owner, arm, topology,
                     instance, op, queue, tail, wpc, wop, snapshot, available,
                     violations>>
      /\ io[i].phase = "admitted" /\ io' = [io EXCEPT ![i] = r]
  BY DEF GoOn, portVars, armVars, workerVars
<1>2. /\ io[i] \in Requests /\ Fits(i, io[i]) /\ tail[i] = NoTail
      /\ io[i].level \in Levels /\ io[i].ctx \in [Levels -> Ops \cup {None}]
  BY <1>1, RequestFacts
<1>3. o \in Ops \cup {None} /\ Carries(i, io[i].level, o)
  BY <1>1, <1>2 DEF Requests, Fits
<1>4. /\ x \in [Levels -> Ops \cup {None}] /\ x[io[i].level] = o
      /\ \A l \in Levels : l # io[i].level => x[l] = io[i].ctx[l]
  BY <1>2, <1>3
<1>5. q = [io[i] EXCEPT !.ctx = x]
  BY <1>2 DEF Requests
<1> HIDE DEF x
<1>6. q \in Requests /\ q.ctx = x /\ q.level = io[i].level /\ q.proc = io[i].proc
  BY <1>2, <1>4, <1>5 DEF Requests
<1> HIDE DEF q, o
<1>7. /\ r \in Requests /\ r.phase \in {"pre", "device"} /\ r.ctx = x
  BY <1>6, DownGives
<1>8. Fits(i, r)
  <2>1. \A l \in Levels : q.ctx[l] # None => Carries(i, l, q.ctx[l])
    BY <1>2, <1>3, <1>4, <1>6 DEF Fits
  <2>2. q.level = "upper" => q.ctx["lower"] = None
    BY <1>2, <1>4, <1>6 DEF Fits, Levels
  <2>3. q.proc # None
    BY <1>1, <1>2, <1>6 DEF Fits
  <2>4. QED
    BY <1>6, <2>1, <2>2, <2>3, FitsDown
<1> HIDE DEF r
<1>9. Live' = Live /\ \A p \in Live : Keeps(p) /\ op'[p].refs = op[p].refs
  BY <1>1 DEF Live, Keeps
<1>10. CoreOk' /\ io' \in [Ios -> Requests]
  <2>1. /\ io[i].phase # "pended" /\ tail[i] = NoTail /\ r \in Requests
        /\ r.phase \notin {"pended", "admitted", "leaving"}
        /\ UNCHANGED <<stage, queue, tail, wpc, wop, violations>>
    BY <1>1, <1>2, <1>4, <1>7, <1>8, <1>9
  <2>2. \A k \in Levels :
          \/ r.ctx[k] \in {None, io[i].ctx[k]}
          \/ io[i].phase = "admitted" /\ r.ctx[k] = io[i].cur
    BY <1>1, <1>2, <1>4, <1>7, <1>8, <1>9 DEF o
  <2>3. QED
    BY <1>1, <1>2, <1>4, <1>7, <1>8, <1>9, <2>1, <2>2, RequestMoves
<1>11. QED
  BY <1>1, <1>10, RestStays

\* The device completes a request.
LEMMA CompleteKeeps ==
  ASSUME IInv, NEW i \in Ios, Complete(i)
  PROVE  IInv'
<1> DEFINE r == IF io[i].ctx["lower"] # None THEN [io[i] EXCEPT !.phase = "post"]
                ELSE Up(io[i])
<1>1. /\ UNCHANGED <<stage, control, process, client, owner, arm, topology,
                     instance, op, queue, tail, wpc, wop, snapshot, available,
                     violations>>
      /\ io[i].phase = "device" /\ io' = [io EXCEPT ![i] = r]
  BY DEF Complete, portVars, armVars, workerVars
<1>2. io[i] \in Requests /\ Fits(i, io[i]) /\ tail[i] = NoTail
  BY <1>1, RequestFacts
<1>3. /\ r \in Requests /\ r.phase \in {"post", "idle"} /\ Fits(i, r)
      /\ \A l \in Levels : r.ctx[l] \in {None, io[i].ctx[l]}
  <2>1. CASE io[i].ctx["lower"] # None
    <3>1. r = [io[i] EXCEPT !.phase = "post"]
      BY <2>1
    <3>2. /\ r \in Requests /\ r.phase = "post" /\ r.ctx = io[i].ctx
          /\ r.level = io[i].level /\ r.proc = io[i].proc
      BY <1>2, <3>1 DEF Requests, Phases
    <3>3. Fits(i, r)
      BY <1>1, <1>2, <2>1, <3>2 DEF Fits, Levels
    <3>4. QED
      BY <3>2, <3>3
  <2>2. CASE io[i].ctx["lower"] = None
    <3>1. r = Up(io[i])
      BY <2>2
    <3>2. Fits(i, r)
      BY <1>1, <1>2, <3>1, FitsUp DEF Fits
    <3>3. /\ r \in Requests
          /\ \/ r = Idle
             \/ /\ r.phase = "post" /\ r.ctx["upper"] = io[i].ctx["upper"]
                /\ r.ctx["lower"] = None
      BY <1>2, <3>1, UpGives
    <3>4. r.phase \in {"post", "idle"}
      BY <3>3 DEF Idle
    <3>5. \A l \in Levels : r.ctx[l] \in {None, io[i].ctx[l]}
      BY <3>3 DEF Idle, NoContext, Levels
    <3>6. QED
      BY <3>2, <3>3, <3>4, <3>5
  <2>3. QED
    BY <2>1, <2>2
<1> HIDE DEF r
<1>4. Live' = Live /\ \A o \in Live : Keeps(o) /\ op'[o].refs = op[o].refs
  BY <1>1 DEF Live, Keeps
<1>5. CoreOk' /\ io' \in [Ios -> Requests]
  <2>1. /\ io[i].phase # "pended" /\ tail[i] = NoTail /\ r \in Requests
        /\ r.phase \notin {"pended", "admitted", "leaving"}
        /\ UNCHANGED <<stage, queue, tail, wpc, wop, violations>>
    BY <1>1, <1>2, <1>3, <1>4
  <2>2. \A k \in Levels :
          \/ r.ctx[k] \in {None, io[i].ctx[k]}
          \/ io[i].phase = "admitted" /\ r.ctx[k] = io[i].cur
    BY <1>1, <1>2, <1>3, <1>4
  <2>3. QED
    BY <1>1, <1>2, <1>3, <1>4, <2>1, <2>2, RequestMoves
<1>6. QED
  BY <1>1, <1>5, RestStays

\* A request leaves a level whose post is done with it.
LEMMA LeaveKeeps ==
  ASSUME IInv, NEW i \in Ios, Leave(i)
  PROVE  IInv'
<1> DEFINE r == Up(io[i])
<1>1. /\ UNCHANGED <<stage, control, process, client, owner, arm, topology,
                     instance, op, queue, tail, wpc, wop, snapshot, available,
                     violations>>
      /\ io[i].phase = "leaving" /\ io' = [io EXCEPT ![i] = r]
      /\ tail[i] = NoTail
  BY DEF Leave, portVars, armVars, workerVars
<1>2. io[i] \in Requests /\ Fits(i, io[i])
  BY RequestFacts
<1>3. Fits(i, r)
  BY <1>1, <1>2, FitsUp DEF Fits
<1>4. /\ r \in Requests
      /\ \/ r = Idle
         \/ /\ r.phase = "post" /\ r.ctx["upper"] = io[i].ctx["upper"]
            /\ r.ctx["lower"] = None
  BY <1>2, UpGives
<1>5. r.phase \in {"post", "idle"}
  BY <1>4 DEF Idle
<1>6. \A l \in Levels : r.ctx[l] \in {None, io[i].ctx[l]}
  BY <1>4 DEF Idle, NoContext, Levels
<1> HIDE DEF r
<1>7. Live' = Live /\ \A o \in Live : Keeps(o) /\ op'[o].refs = op[o].refs
  BY <1>1 DEF Live, Keeps
<1>8. CoreOk' /\ io' \in [Ios -> Requests]
  <2>1. /\ io[i].phase # "pended" /\ tail[i] = NoTail /\ r \in Requests
        /\ r.phase \notin {"pended", "admitted", "leaving"}
        /\ UNCHANGED <<stage, queue, tail, wpc, wop, violations>>
    BY <1>1, <1>3, <1>4, <1>5, <1>6, <1>7
  <2>2. \A k \in Levels :
          \/ r.ctx[k] \in {None, io[i].ctx[k]}
          \/ io[i].phase = "admitted" /\ r.ctx[k] = io[i].cur
    BY <1>1, <1>3, <1>4, <1>5, <1>6, <1>7
  <2>3. QED
    BY <1>1, <1>3, <1>4, <1>5, <1>6, <1>7, <2>1, <2>2, RequestMoves
<1>9. QED
  BY <1>1, <1>8, RestStays

\* What is left of an arm is for the same target and topology.
LEMMA ConsumedIs ==
  ASSUME TypeOK, arm # NoArm
  PROVE  /\ arm \in Arms
         /\ Consumed \in Arms \cup {NoArm}
         /\ Consumed # NoArm => /\ Consumed.target = arm.target
                                /\ Consumed.gen = arm.gen
<1>1. arm \in Arms
  BY DEF TypeOK
<1>2. CASE arm.left = 1
  BY <1>1, <1>2 DEF Consumed
<1>3. CASE arm.left # 1
  <2>1. Consumed = [arm EXCEPT !.left = arm.left - 1]
    BY <1>1, <1>3 DEF Consumed
  <2>2. arm.left - 1 \in 1 .. 8
    BY <1>1, <1>3 DEF Arms
  <2>3. QED
    BY <1>1, <2>1, <2>2 DEF Arms
<1>4. QED
  BY <1>1, <1>2, <1>3

\* The arm is used up for an operation, or one that nobody publishes.
LEMMA ArmConsumed ==
  ASSUME IInv, arm # NoArm, arm' = Consumed, UNCHANGED <<stage, owner, topology>>,
         \A o \in Live' : \/ o \in Live /\ Belongs(o)
                          \/ /\ op'[o].owner = owner /\ op'[o].gen = topology
                             /\ op'[o].target = arm.target
  PROVE  ArmOk'
<1>1. /\ arm \in Arms
      /\ arm' # NoArm => arm'.target = arm.target /\ arm'.gen = arm.gen
  BY ConsumedIs DEF IInv
<1>2. /\ stage = "loaded" /\ owner # None /\ arm.gen = topology
      /\ \A o \in Live : /\ op[o].owner = owner /\ op[o].gen = topology
                         /\ op[o].target = arm.target
  BY DEF IInv, ArmOk
<1>3. \A o \in Live' : /\ op'[o].owner = owner /\ op'[o].gen = topology
                       /\ op'[o].target = arm.target
  BY <1>2 DEF Belongs
<1>4. QED
  BY <1>1, <1>2, <1>3 DEF ArmOk

\* A claim changes nothing else.
LEMMA ClaimChanges ==
  ASSUME TypeOK, NEW u \in Live, op' = [op EXCEPT ![u].claimed = TRUE]
  PROVE  /\ op' \in [Ops -> Operations \cup {Free}]
         /\ Live' = Live
         /\ \A o \in Live : /\ Keeps(o) /\ Belongs(o)
                            /\ op'[o].refs = op[o].refs /\ op'[o].wake = op[o].wake
<1> DEFINE r == [op[u] EXCEPT !.claimed = TRUE]
<1>1. op[u] \in Operations
  BY LiveOps
<1>2. /\ r \in Operations /\ r.released = op[u].released /\ r.level = op[u].level
      /\ r.data = op[u].data /\ r.post = op[u].post /\ r.refs = op[u].refs
      /\ r.wake = op[u].wake /\ r.owner = op[u].owner /\ r.gen = op[u].gen
      /\ r.target = op[u].target
  BY <1>1 DEF Operations
<1>3. op' = [op EXCEPT ![u] = r]
  OBVIOUS
<1> HIDE DEF r
<1>4. /\ op' \in [Ops -> Operations \cup {Free}]
      /\ Live' = Live /\ op'[u] = r
      /\ \A p \in Live : p # u => op'[p] = op[p]
  BY <1>2, <1>3, OneChanges
<1>5. QED
  BY <1>2, <1>4 DEF Keeps, Belongs

\* An arm for this request is one.
LEMMA ArmedIs == ASSUME IInv, NEW i \in Ios, io[i].phase = "pre", Armed(i)
                 PROVE  arm # NoArm /\ arm.target = io[i].proc
<1>1. io[i].proc # None
  BY RequestFacts DEF Fits
<1>2. QED
  BY <1>1 DEF Armed, NoArm

\* No memory for the operation.
LEMMA AdmitFailsKeeps ==
  ASSUME IInv, NEW i \in Ios, AdmitFails(i)
  PROVE  IInv'
<1> DEFINE r == Down(i, io[i])
<1>1. /\ UNCHANGED <<stage, control, process, client, owner, topology,
                     instance, queue, tail, wpc, wop, snapshot, available,
                     violations>>
      /\ io[i].phase = "pre" /\ io' = [io EXCEPT ![i] = r]
  BY DEF AdmitFails, Entered, portVars, workerVars
<1>2. io[i] \in Requests /\ Fits(i, io[i]) /\ tail[i] = NoTail
  BY <1>1, RequestFacts
<1>3. r \in Requests /\ r.phase \in {"pre", "device"} /\ r.ctx = io[i].ctx
  BY <1>2, DownGives
<1>4. Fits(i, r)
  BY <1>1, <1>2, FitsDown DEF Fits
<1>5. TypeOK /\ CoreOk /\ SweepsAreFinal /\ ArmOk
  BY DEF IInv
<1>6. /\ op' \in [Ops -> Operations \cup {Free}]
      /\ Live' = Live
      /\ \A o \in Live : /\ Keeps(o) /\ Belongs(o)
                         /\ op'[o].refs = op[o].refs /\ op'[o].wake = op[o].wake
      /\ arm' \in Arms \cup {NoArm}
      /\ ArmOk'
  <2>1. CASE Armed(i) /\ arm' = Consumed /\ UNCHANGED op
    <3>1. arm # NoArm
      BY <1>1, <2>1, ArmedIs
    <3>2. Live' = Live /\ \A o \in Live : Keeps(o) /\ Belongs(o) /\ op'[o] = op[o]
      BY <2>1 DEF Live, Keeps, Belongs
    <3>3. ArmOk'
      BY <1>1, <2>1, <3>1, <3>2, ArmConsumed
    <3>4. QED
      BY <1>5, <2>1, <3>1, <3>2, <3>3, ConsumedIs DEF TypeOK
  <2>2. ASSUME NEW u \in Live, op' = [op EXCEPT ![u].claimed = TRUE], UNCHANGED arm
        PROVE  /\ op' \in [Ops -> Operations \cup {Free}]
               /\ Live' = Live
               /\ \A o \in Live : /\ Keeps(o) /\ Belongs(o)
                                  /\ op'[o].refs = op[o].refs
                                  /\ op'[o].wake = op[o].wake
               /\ arm' \in Arms \cup {NoArm}
               /\ ArmOk'
    <3>1. /\ op' \in [Ops -> Operations \cup {Free}]
          /\ Live' = Live
          /\ \A o \in Live : /\ Keeps(o) /\ Belongs(o)
                             /\ op'[o].refs = op[o].refs /\ op'[o].wake = op[o].wake
      BY <1>5, <2>2, ClaimChanges
    <3>2. ArmOk'
      BY <1>1, <1>5, <2>2, <3>1, ArmStays
    <3>3. QED
      BY <1>5, <2>2, <3>1, <3>2 DEF TypeOK
  <2>3. QED
    BY <2>1, <2>2 DEF AdmitFails
<1> HIDE DEF r
<1>7. CoreOk' /\ io' \in [Ios -> Requests]
  <2>1. /\ io[i].phase # "pended" /\ tail[i] = NoTail /\ r \in Requests
        /\ r.phase \notin {"pended", "admitted", "leaving"}
        /\ UNCHANGED <<stage, queue, tail, wpc, wop, violations>>
    BY <1>1, <1>2, <1>3
  <2>2. \A k \in Levels :
          \/ r.ctx[k] \in {None, io[i].ctx[k]}
          \/ io[i].phase = "admitted" /\ r.ctx[k] = io[i].cur
    BY <1>3
  <2>3. QED
    BY <1>1, <1>4, <1>6, <2>1, <2>2, RequestMoves
<1>8. SweepsAreFinal'
  <2>1. \A o \in Live : op'[o].wake \in 0 .. 3 /\ op'[o].wake >= op[o].wake
    <3>1. \A o \in Live : op[o].wake \in 0 .. 3
      BY <1>5, LiveOps DEF Operations
    <3>2. QED
      BY <1>6, <3>1
  <2>2. QED
    BY <1>1, <1>5, <1>6, <2>1, SweepStays
<1>9. TypeOK'
  BY <1>1, <1>5, <1>6, <1>7 DEF TypeOK
<1>10. QED
  BY <1>6, <1>7, <1>8, <1>9 DEF IInv

\* A new operation for a request that enters a level.
LEMMA Admits ==
  ASSUME IInv, NEW i \in Ios, NEW o \in Ops \ Live, io[i].phase = "pre",
         NEW r \in Requests, io' = [io EXCEPT ![i] = r],
         r.phase = "admitted", r.cur = o,
         r.level = io[i].level, r.ctx = io[i].ctx, r.proc = io[i].proc,
         Live' = Live \cup {o},
         op'[o] \in Operations, op'[o].refs = 1, ~ op'[o].released,
         op'[o].level = io[i].level, op'[o].data = i,
         \A p \in Live : Keeps(p) /\ op'[p].refs = op[p].refs,
         UNCHANGED <<stage, queue, tail, wpc, wop, violations>>
  PROVE  CoreOk' /\ io' \in [Ios -> Requests]
<1>1. TypeOK /\ SlotsOk /\ UndoneOk /\ RefsOk /\ TailOk /\ WorkerOk
  BY DEF IInv, CoreOk
<1>2. io[i] \in Requests /\ Fits(i, io[i]) /\ tail[i] = NoTail
  BY RequestFacts
<1>3. /\ r.phase = "admitted" /\ r.cur = o
      /\ r.level = io[i].level /\ r.ctx = io[i].ctx /\ r.proc = io[i].proc
  OBVIOUS
<1>4. r \in Requests /\ io' = [io EXCEPT ![i] = r]
  OBVIOUS
<1>5. /\ io' \in [Ios -> Requests] /\ io'[i] = r
      /\ \A j \in Ios : j # i => io'[j] = io[j]
  BY <1>1, <1>3, <1>4, OneRequest
<1>6. Undone \subseteq Live /\ Range(queue) \subseteq Live
  BY UndoneLive
<1>7. Pended' = Pended /\ i \notin Pended
  BY <1>3, <1>5 DEF Pended
<1>8. InHand' = InHand /\ Undone' = Undone /\ Range(queue)' = Range(queue)
  BY DEF InHand, Undone
<1>9. SlotsOk'
  <2>1. Fits(i, r)'
    <3>1. \A l \in Levels, p \in Ops \cup {None} : Carries(i, l, p) => Carries(i, l, p)'
      BY DEF Carries, Keeps
    <3>2. Carries(i, r.level, o)'
      BY <1>3 DEF Carries
    <3>3. \A l \in Levels : r.ctx[l] \in Ops \cup {None}
      BY <1>3 DEF Requests
    <3>4. \A l \in Levels : r.ctx[l] # None => Carries(i, l, r.ctx[l])'
      BY <1>2, <1>3, <3>1, <3>3 DEF Fits
    <3>5. QED
      BY <1>2, <1>3, <1>5, <3>2, <3>4 DEF Fits
  <2>2. Fits(i, io[i])'
    BY <1>5, <2>1
  <2>3. QED
    BY <1>1, <1>5, <2>2, SlotsChange DEF Keeps
<1>10. UndoneOk'
  <2>1. \A p \in Undone : /\ op[p].data \in Pended /\ op[p].data # i
                          /\ io'[op[p].data] = io[op[p].data] /\ p \in Live
    BY <1>1, <1>5, <1>6, <1>7 DEF UndoneOk, HeldIsInHand, Pended
  <2>2. HeldIsInHand'
    <3>1. \A p \in Undone : op'[p].live
      BY <1>6 DEF Live
    <3>2. \A j \in Pended : \E p \in Undone : op'[p].live /\ op'[p].data = j
      BY <1>1, <2>1, <3>1 DEF UndoneOk, HeldIsInHand, Keeps
    <3>3. \A p \in Undone : /\ op'[p].data \in Pended
                            /\ io'[op'[p].data].level = op'[p].level
      BY <1>1, <2>1 DEF UndoneOk, HeldIsInHand, Keeps
    <3>4. \A p, q \in Undone : op'[p].data = op'[q].data => p = q
      BY <1>1, <2>1 DEF UndoneOk, HeldIsInHand, Keeps
    <3>5. QED
      BY <1>1, <1>7, <1>8, <3>1, <3>2, <3>3, <3>4 DEF UndoneOk, HeldIsInHand
  <2>3. QED
    BY <1>1, <1>8, <2>1, <2>2 DEF UndoneOk, Keeps
<1>11. RefsOk'
  <2>1. \A p \in Live : Logical(p)' = Logical(p) /\ WorkerHas(p)' = WorkerHas(p)
    BY DEF Logical, LogicalDrop, Dropping, DropsOwn, WorkerHas, Keeps
  <2>2. \A p \in Live : op'[p].refs = One(Logical(p)') + One(p \in Range(queue)')
                                      + One(WorkerHas(p)')
    BY <1>1, <1>8, <2>1 DEF RefsOk, One
  <2>3. Logical(o)' /\ o \notin Range(queue)'
    BY <1>6, <1>8 DEF Logical
  <2>4. ~ WorkerHas(o)'
    <3>1. ASSUME wpc \in Holding, wop = o, wpc = "done" => tail["worker"].at = "drop"
          PROVE  FALSE
      <4>1. wpc = "done"
        BY <1>1, <3>1 DEF WorkerOk
      <4>2. tail["worker"].op \in Live /\ tail["worker"] # NoTail
        BY <1>1, <3>1, <4>1 DEF TailOk, NoTail, Threads
      <4>3. QED
        BY <1>1, <3>1, <4>2 DEF TailOk
    <3>2. QED
      BY <3>1 DEF WorkerHas
  <2>5. 1 = One(TRUE) + One(FALSE) + One(FALSE)
    BY DEF One
  <2>6. QED
    BY <2>2, <2>3, <2>4, <2>5 DEF RefsOk, One
<1>12. TailOk'
  <2>1. \A t \in Threads : tail[t].at # "none" => tail[t].op \in Live
    BY <1>1 DEF TailOk
  <2>2. \A t \in Threads : tail[t].at \in {"none", "drop", "unlink"}
    BY <1>1 DEF TypeOK, Tails, NoTail
  <2>3. \A t \in Threads :
          /\ tail[t].at # "none" => tail[t].op \in Live'
          /\ tail[t].at = "drop" /\ ~ DropsOwn(t)' => op'[tail[t].op].released
          /\ tail[t].at = "unlink" => op'[tail[t].op].refs = 0
    BY <1>1, <2>1 DEF TailOk, DropsOwn, Keeps
  <2>4. \A j \in Ios : io'[j].phase # "leaving" => tail[j] = NoTail
    BY <1>1, <1>2, <1>5 DEF TailOk
  <2>5. QED
    BY <1>1, <2>3, <2>4 DEF TailOk, DropsOwn
<1>13. WorkerOk'
  <2>1. wpc = "finish" => wop \in Live /\ wop # o /\ ~ op'[wop].released
    BY <1>1 DEF WorkerOk, Holding, Keeps
  <2>2. ASSUME wpc = "finish", NEW j \in Ios
        PROVE  /\ io'[j].phase = "admitted" => io'[j].cur # wop
               /\ \A l \in Levels : io'[j].ctx[l] # wop
    BY <1>1, <1>3, <1>5, <2>1, <2>2 DEF WorkerOk
  <2>3. QED
    BY <1>1, <2>1, <2>2 DEF WorkerOk
<1>14. QED
  BY <1>5, <1>9, <1>10, <1>11, <1>12, <1>13 DEF CoreOk

\* The request as it is admitted.
LEMMA Admitted ==
  ASSUME TypeOK, NEW i \in Ios, NEW o \in Ops,
         io' = [io EXCEPT ![i].phase = "admitted", ![i].cur = o]
  PROVE  \E r \in Requests :
           /\ r.phase = "admitted" /\ r.cur = o
           /\ r.level = io[i].level /\ r.ctx = io[i].ctx /\ r.proc = io[i].proc
           /\ io' = [io EXCEPT ![i] = r]
<1> DEFINE r == [io[i] EXCEPT !.phase = "admitted", !.cur = o]
<1>1. io[i] \in Requests
  BY DEF TypeOK
<1>2. /\ r \in Requests /\ r.phase = "admitted" /\ r.cur = o
      /\ r.level = io[i].level /\ r.ctx = io[i].ctx /\ r.proc = io[i].proc
  BY <1>1 DEF Requests, Phases
<1>3. io' = [io EXCEPT ![i] = r]
  BY DEF TypeOK
<1>4. QED
  BY <1>2, <1>3

\* The upper instance admits a request: the arm is used up for its operation.
LEMMA AdmitUpperKeeps ==
  ASSUME IInv, NEW i \in Ios, NEW o \in Ops, AdmitUpper(i, o)
  PROVE  IInv'
<1> DEFINE r == Operation("upper", i, arm.target, arm.mode, owner, arm.gen)
<1>1. /\ UNCHANGED <<stage, control, process, client, owner, topology,
                     instance, queue, tail, wpc, wop, snapshot, available,
                     violations>>
      /\ io[i].phase = "pre" /\ io[i].level = "upper" /\ Armed(i)
      /\ io' = [io EXCEPT ![i].phase = "admitted", ![i].cur = o]
      /\ o \in Ops \ Live /\ op' = [op EXCEPT ![o] = r] /\ arm' = Consumed
  BY DEF AdmitUpper, Entered, portVars, workerVars
<1>2. TypeOK /\ CoreOk /\ SweepsAreFinal /\ ArmOk
  BY DEF IInv
<1>3. arm # NoArm /\ arm \in Arms /\ Consumed \in Arms \cup {NoArm}
  BY <1>1, <1>2, ArmedIs, ConsumedIs
<1>4. owner \in ClientIds /\ arm.gen = topology /\ stage = "loaded"
      /\ instance["upper"] = "attached"
  BY <1>1, <1>2, <1>3 DEF ArmOk, TypeOK, Armed, Open
<1>5. /\ r \in Operations /\ r.live /\ r.refs = 1 /\ ~ r.released
      /\ r.level = "upper" /\ r.data = i /\ r.wake = 0
      /\ r.owner = owner /\ r.gen = topology /\ r.target = arm.target
  BY <1>3, <1>4 DEF Operation, Operations, Arms, Levels
<1> HIDE DEF r
<1>6. /\ op' \in [Ops -> Operations \cup {Free}] /\ op'[o] = r
      /\ \A p \in Ops : p # o => op'[p] = op[p]
  BY <1>1, <1>2, <1>5 DEF TypeOK
<1>7. /\ Live' = Live \cup {o}
      /\ \A p \in Live : op'[p] = op[p] /\ Keeps(p) /\ Belongs(p)
  BY <1>1, <1>5, <1>6 DEF Live, Keeps, Belongs
<1>8. CoreOk' /\ io' \in [Ios -> Requests]
  <2>1. PICK q \in Requests :
          /\ q.phase = "admitted" /\ q.cur = o
          /\ q.level = io[i].level /\ q.ctx = io[i].ctx /\ q.proc = io[i].proc
          /\ io' = [io EXCEPT ![i] = q]
    BY <1>1, <1>2, Admitted
  <2>2. \A p \in Live : Keeps(p) /\ op'[p].refs = op[p].refs
    BY <1>7
  <2>3. /\ op'[o] \in Operations /\ op'[o].refs = 1 /\ ~ op'[o].released
        /\ op'[o].level = io[i].level /\ op'[o].data = i
        /\ UNCHANGED <<stage, queue, tail, wpc, wop, violations>>
    BY <1>1, <1>5, <1>6
  <2>4. QED
    BY <1>1, <1>7, <2>1, <2>2, <2>3, Admits
<1>9. TypeOK'
  BY <1>1, <1>2, <1>3, <1>6, <1>8 DEF TypeOK
<1>10. SweepsAreFinal'
  BY <1>1, <1>2, <1>4, <1>5, <1>6, <1>7 DEF SweepsAreFinal
<1>11. ArmOk'
  <2>1. \A p \in Live' : \/ p \in Live /\ Belongs(p)
                         \/ /\ op'[p].owner = owner /\ op'[p].gen = topology
                            /\ op'[p].target = arm.target
    BY <1>5, <1>6, <1>7
  <2>2. QED
    BY <1>1, <1>3, <2>1, ArmConsumed
<1>12. QED
  BY <1>8, <1>9, <1>10, <1>11 DEF IInv

\* The lower instance admits the second half of a pair.
LEMMA AdmitLowerKeeps ==
  ASSUME IInv, NEW i \in Ios, NEW u \in Ops, NEW o \in Ops, AdmitLower(i, u, o)
  PROVE  IInv'
<1> DEFINE r == Operation("lower", i, io[i].proc, LowerMode(op[u].mode),
                          op[u].owner, op[u].gen)
           c == [op[u] EXCEPT !.claimed = TRUE]
<1>1. /\ UNCHANGED <<stage, control, process, client, owner, arm, topology,
                     instance, queue, tail, wpc, wop, snapshot, available,
                     violations>>
      /\ io[i].phase = "pre" /\ io[i].level = "lower" /\ Claims(i, u)
      /\ io' = [io EXCEPT ![i].phase = "admitted", ![i].cur = o]
      /\ u \in Live /\ o \in Ops \ Live
      /\ op' = [op EXCEPT ![u].claimed = TRUE, ![o] = r]
  BY DEF AdmitLower, Entered, portVars, armVars, workerVars
<1>2. TypeOK /\ CoreOk /\ SweepsAreFinal /\ ArmOk
  BY DEF IInv
<1>3. op[u] \in Operations /\ u # o
  BY <1>1, <1>2, LiveOps
<1>4. /\ stage = "loaded" /\ instance["lower"] = "attached"
      /\ op[u].target = io[i].proc /\ op[u].owner = owner
  BY <1>1 DEF Claims, Open
<1>5. LowerMode(op[u].mode) \in AllModes
  BY DEF LowerMode, AllModes, PairModes
<1>6. /\ r \in Operations /\ r.live /\ r.refs = 1 /\ ~ r.released
      /\ r.level = "lower" /\ r.data = i /\ r.wake = 0
      /\ r.owner = op[u].owner /\ r.gen = op[u].gen /\ r.target = op[u].target
  <2>1. /\ io[i].proc \in Targets /\ op[u].owner \in ClientIds
        /\ op[u].gen \in Nat /\ "lower" \in Levels
    BY <1>3, <1>4 DEF Operations, Levels
  <2>2. QED
    BY <1>4, <1>5, <2>1 DEF Operation, Operations
<1>7. /\ c \in Operations /\ c.live /\ c.released = op[u].released
      /\ c.level = op[u].level /\ c.data = op[u].data /\ c.post = op[u].post
      /\ c.refs = op[u].refs /\ c.wake = op[u].wake /\ c.owner = op[u].owner
      /\ c.gen = op[u].gen /\ c.target = op[u].target
  BY <1>3 DEF Operations
<1>8. op' = [op EXCEPT ![u] = c, ![o] = r]
  BY <1>1, <1>3
<1> HIDE DEF r, c
<1>9. /\ op' \in [Ops -> Operations \cup {Free}] /\ op'[o] = r /\ op'[u] = c
      /\ \A p \in Ops : p # o /\ p # u => op'[p] = op[p]
  BY <1>1, <1>2, <1>3, <1>6, <1>7, <1>8 DEF TypeOK
<1>10. /\ Live' = Live \cup {o}
       /\ \A p \in Live : /\ Keeps(p) /\ Belongs(p)
                          /\ op'[p].refs = op[p].refs /\ op'[p].wake = op[p].wake
  <2>1. \A p \in Live : /\ Keeps(p) /\ Belongs(p)
                        /\ op'[p].refs = op[p].refs /\ op'[p].wake = op[p].wake
    <3>1. Keeps(u) /\ Belongs(u) /\ op'[u].refs = op[u].refs
          /\ op'[u].wake = op[u].wake
      BY <1>7, <1>9 DEF Keeps, Belongs
    <3>2. ASSUME NEW p \in Live, p # u
          PROVE  /\ Keeps(p) /\ Belongs(p)
                 /\ op'[p].refs = op[p].refs /\ op'[p].wake = op[p].wake
      <4>1. op'[p] = op[p]
        BY <1>1, <1>9, <3>2 DEF Live
      <4>2. QED
        BY <4>1 DEF Keeps, Belongs
    <3>3. QED
      BY <3>1, <3>2
  <2>2. Live' = Live \cup {o}
    BY <1>1, <1>6, <1>7, <1>9 DEF Live
  <2>3. QED
    BY <2>1, <2>2
<1>11. CoreOk' /\ io' \in [Ios -> Requests]
  <2>1. PICK q \in Requests :
          /\ q.phase = "admitted" /\ q.cur = o
          /\ q.level = io[i].level /\ q.ctx = io[i].ctx /\ q.proc = io[i].proc
          /\ io' = [io EXCEPT ![i] = q]
    BY <1>1, <1>2, Admitted
  <2>2. \A p \in Live : Keeps(p) /\ op'[p].refs = op[p].refs
    BY <1>10
  <2>3. /\ op'[o] \in Operations /\ op'[o].refs = 1 /\ ~ op'[o].released
        /\ op'[o].level = io[i].level /\ op'[o].data = i
        /\ UNCHANGED <<stage, queue, tail, wpc, wop, violations>>
    BY <1>1, <1>6, <1>9
  <2>4. QED
    BY <1>1, <1>10, <2>1, <2>2, <2>3, Admits
<1>12. TypeOK'
  BY <1>1, <1>2, <1>9, <1>11 DEF TypeOK
<1>13. SweepsAreFinal'
  <2>1. ASSUME NEW p \in Live, ~ op'[p].released
        PROVE  /\ op'[p].owner # owner => op'[p].wake >= 2
               /\ stage # "loaded" => op'[p].wake = 3
               /\ instance[op'[p].level] # "attached" => op'[p].wake = 3
    BY <1>2, <1>10, <2>1 DEF SweepsAreFinal, Keeps, Belongs
  <2>2. QED
    BY <1>1, <1>4, <1>6, <1>9, <1>10, <2>1 DEF SweepsAreFinal
<1>14. ArmOk'
  <2>1. \A p \in Live' : /\ op'[p].owner = op[u].owner
                         /\ op'[p].gen = op[u].gen
                         /\ op'[p].target = op[u].target
    <3>1. \A p \in Live : /\ op[p].owner = op[u].owner
                          /\ op[p].gen = op[u].gen
                          /\ op[p].target = op[u].target
      BY <1>1, <1>2 DEF ArmOk
    <3>2. QED
      BY <1>6, <1>9, <1>10, <3>1 DEF Belongs
  <2>2. arm # NoArm => /\ op[u].owner = owner /\ op[u].gen = topology
                       /\ op[u].target = arm.target
    BY <1>1, <1>2 DEF ArmOk
  <2>3. QED
    BY <1>1, <1>2, <2>1, <2>2 DEF ArmOk
<1>15. QED
  BY <1>11, <1>12, <1>13, <1>14 DEF IInv

\* An operation put in the queue gets the worker's reference.
LEMMA EnqueueChanges ==
  ASSUME TypeOK, NEW o \in Live, NEW post \in BOOLEAN, Enqueue(o, post),
         op[o].refs <= 2
  PROVE  /\ op' \in [Ops -> Operations \cup {Free}]
         /\ Live' = Live
         /\ op'[o].post = post /\ op'[o].refs = op[o].refs + 1
         /\ op'[o].wake \in {0, op[o].wake} /\ (~ post => op'[o].wake = op[o].wake)
         /\ \A p \in Live : /\ p # o => op'[p] = op[p]
                            /\ op'[p].released = op[p].released
                            /\ op'[p].level = op[p].level
                            /\ op'[p].data = op[p].data
                            /\ Belongs(p)
<1> DEFINE w == IF post THEN 0 ELSE op[o].wake
           r == [op[o] EXCEPT !.refs = op[o].refs + 1, !.post = post, !.wake = w]
<1>1. op[o] \in Operations
  BY LiveOps
<1>2. op[o].refs + 1 \in 0 .. 3 /\ w \in 0 .. 3
  <2>1. op[o].refs \in 0 .. 3 /\ op[o].wake \in 0 .. 3
    BY <1>1 DEF Operations
  <2>2. QED
    BY <2>1
<1>3. w \in {0, op[o].wake} /\ (~ post => w = op[o].wake)
  OBVIOUS
<1>4. op' = [op EXCEPT ![o] = r]
  BY DEF Enqueue
<1> HIDE DEF w
<1>5. /\ r \in Operations /\ r.released = op[o].released /\ r.level = op[o].level
      /\ r.data = op[o].data /\ r.post = post /\ r.refs = op[o].refs + 1
      /\ r.wake = w /\ r.owner = op[o].owner /\ r.gen = op[o].gen
      /\ r.target = op[o].target
  BY <1>1, <1>2 DEF Operations
<1> HIDE DEF r
<1>6. /\ op' \in [Ops -> Operations \cup {Free}]
      /\ Live' = Live /\ op'[o] = r
      /\ \A p \in Live : p # o => op'[p] = op[p]
  BY <1>4, <1>5, OneChanges
<1>7. QED
  BY <1>3, <1>5, <1>6 DEF Belongs

\* A request is held: its operation goes into the queue.
LEMMA Queued ==
  ASSUME IInv, NEW i \in Ios, NEW o \in Live, NEW post \in BOOLEAN,
         Enqueue(o, post), Open(op[o].level), op[o].wake < 2,
         ~ op[o].released, op[o].data = i, op[o].level = io[i].level,
         NEW r \in Requests, io' = [io EXCEPT ![i] = r],
         io[i].phase \in {"admitted", "post"},
         r.phase = "pended", r.level = io[i].level, Fits(i, r),
         \A l \in Levels : r.ctx[l] \in {None, io[i].ctx[l]},
         ~ post /\ i \in Reads => r.pinned,
         wpc = "finish" => wop # o,
         UNCHANGED <<stage, control, process, client, owner, arm, topology,
                     instance, tail, wpc, wop, snapshot, violations>>
  PROVE  IInv'
<1>1. TypeOK /\ SlotsOk /\ UndoneOk /\ RefsOk /\ TailOk /\ WorkerOk
      /\ SweepsAreFinal /\ ArmOk
  BY DEF IInv, CoreOk
<1>2. /\ io' \in [Ios -> Requests] /\ io'[i] = r
      /\ \A j \in Ios : j # i => io'[j] = io[j]
  BY <1>1, OneRequest
<1>3. Undone \subseteq Live /\ Range(queue) \subseteq Live
  BY UndoneLive
<1>4. Pended' = Pended \cup {i} /\ i \notin Pended
  BY <1>2 DEF Pended
<1>5. \A p \in Undone : /\ op[p].data \in Pended /\ op[p].data # i /\ p # o
                        /\ io'[op[p].data] = io[op[p].data] /\ p \in Live
  BY <1>1, <1>2, <1>3, <1>4 DEF UndoneOk, HeldIsInHand, Pended
<1>6. o \notin Range(queue) /\ (InHand => wop # o)
  BY <1>5 DEF Undone
<1>7. /\ queue' = Append(queue, o) /\ queue' \in Seq(Ops)
      /\ Range(queue') = Range(queue) \cup {o} /\ Once(queue')
      /\ available' = TRUE
  <2>1. o \in Ops /\ queue \in Seq(Ops) /\ queue' = Append(queue, o)
    BY <1>1 DEF TypeOK, Live, Enqueue
  <2>2. Once(queue)
    BY <1>1 DEF UndoneOk, HeldIsInHand, Once
  <2>3. QED
    BY <1>6, <2>1, <2>2, QueueAppend DEF Enqueue
<1>8. op[o].refs = One(TRUE) + One(FALSE) + One(WorkerHas(o))
  BY <1>1, <1>6 DEF RefsOk, Logical, One
<1>9. op[o].refs <= 2 /\ op[o].refs \in Nat
  BY <1>8 DEF One
<1>10. /\ op' \in [Ops -> Operations \cup {Free}]
       /\ Live' = Live
       /\ op'[o].post = post /\ op'[o].refs = op[o].refs + 1
       /\ op'[o].wake \in {0, op[o].wake} /\ (~ post => op'[o].wake = op[o].wake)
       /\ \A p \in Live : /\ p # o => op'[p] = op[p]
                          /\ op'[p].released = op[p].released
                          /\ op'[p].level = op[p].level
                          /\ op'[p].data = op[p].data
                          /\ Belongs(p)
  BY <1>1, <1>9, EnqueueChanges
<1>11. InHand' = InHand /\ Undone' = Undone \cup {o}
  BY <1>7 DEF InHand, Undone
<1>12. SlotsOk'
  <2>1. Fits(i, r)'
    <3>1. \A l \in Levels, p \in Ops \cup {None} : Carries(i, l, p) => Carries(i, l, p)'
      BY <1>10 DEF Carries
    <3>2. \A l \in Levels : r.ctx[l] \in Ops \cup {None}
      BY DEF Requests
    <3>3. \A l \in Levels : r.ctx[l] # None => Carries(i, l, r.ctx[l])'
      BY <3>1, <3>2 DEF Fits
    <3>4. QED
      BY <3>3 DEF Fits
  <2>2. Fits(i, io[i])'
    BY <1>2, <2>1
  <2>3. QED
    BY <1>1, <1>2, <1>10, <2>2, SlotsChange
<1>13. UndoneOk'
  <2>1. HeldIsInHand'
    <3>1. \A p \in Undone' : op'[p].live /\ p \in Live
      BY <1>3, <1>10, <1>11 DEF Live
    <3>2. \A j \in Pended' : \E p \in Undone' : op'[p].live /\ op'[p].data = j
      <4>1. ASSUME NEW j \in Pended PROVE \E p \in Undone' : op'[p].live /\ op'[p].data = j
        <5>1. PICK p \in Undone : op[p].data = j
          BY <1>1 DEF UndoneOk, HeldIsInHand
        <5>2. QED
          BY <1>3, <1>10, <1>11, <3>1, <5>1
      <4>2. o \in Undone' /\ op'[o].live /\ op'[o].data = i
        BY <1>10, <1>11, <3>1
      <4>3. QED
        BY <1>4, <4>1, <4>2
    <3>3. \A p \in Undone' : /\ op'[p].data \in Pended'
                             /\ io'[op'[p].data].level = op'[p].level
      <4>1. \A p \in Undone : /\ op'[p].data \in Pended'
                              /\ io'[op'[p].data].level = op'[p].level
        BY <1>1, <1>3, <1>4, <1>5, <1>10 DEF UndoneOk, HeldIsInHand
      <4>2. QED
        BY <1>2, <1>4, <1>10, <1>11, <4>1
    <3>4. \A p, q \in Undone' : op'[p].data = op'[q].data => p = q
      <4>1. \A p \in Undone' : op'[p].data = op[p].data
        BY <1>10, <3>1
      <4>2. \A p, q \in Undone' : op[p].data = op[q].data => p = q
        BY <1>1, <1>5, <1>11 DEF UndoneOk, HeldIsInHand
      <4>3. QED
        BY <4>1, <4>2
    <3>5. InHand' => wop' \notin Range(queue)'
      BY <1>1, <1>6, <1>7, <1>11 DEF UndoneOk, HeldIsInHand
    <3>6. violations' = 0
      BY <1>1 DEF UndoneOk, HeldIsInHand
    <3>7. QED
      BY <1>7, <3>1, <3>2, <3>3, <3>4, <3>5, <3>6 DEF HeldIsInHand, Once
  <2>2. ASSUME NEW p \in Undone
        PROVE  /\ ~ op'[p].released
               /\ ~ op'[p].post /\ op'[p].data \in Reads => io'[op'[p].data].pinned
    BY <1>1, <1>5, <1>10 DEF UndoneOk
  <2>3. /\ ~ op'[o].released
        /\ ~ op'[o].post /\ op'[o].data \in Reads => io'[op'[o].data].pinned
    BY <1>2, <1>10
  <2>4. QED
    BY <1>11, <2>1, <2>2, <2>3 DEF UndoneOk
<1>14. RefsOk'
  <2>1. \A p \in Live : Logical(p)' = Logical(p) /\ WorkerHas(p)' = WorkerHas(p)
    BY <1>10 DEF Logical, LogicalDrop, Dropping, DropsOwn, WorkerHas
  <2>2. ASSUME NEW p \in Live, p # o
        PROVE  op'[p].refs = One(Logical(p)') + One(p \in Range(queue)')
                                + One(WorkerHas(p)')
    BY <1>1, <1>7, <1>10, <2>1, <2>2 DEF RefsOk, One
  <2>3. op'[o].refs = One(Logical(o)') + One(o \in Range(queue)')
                         + One(WorkerHas(o)')
    <3>1. Logical(o)
      BY DEF Logical
    <3>2. op'[o].refs = 1 + 0 + One(WorkerHas(o)) + 1
      BY <1>8, <1>10 DEF One
    <3>3. One(Logical(o)') = 1 /\ One(o \in Range(queue)') = 1
          /\ One(WorkerHas(o)') = One(WorkerHas(o))
      BY <1>7, <2>1, <3>1 DEF One
    <3>4. One(WorkerHas(o)) \in Nat
      BY DEF One
    <3>5. QED
      BY <3>2, <3>3, <3>4
  <2>4. QED
    BY <1>10, <2>2, <2>3 DEF RefsOk
<1>15. TailOk'
  <2>1. \A t \in Threads :
          /\ tail[t].at # "none" => tail[t].op \in Live'
          /\ tail[t].at = "drop" /\ ~ DropsOwn(t)' => op'[tail[t].op].released
          /\ tail[t].at = "unlink" => op'[tail[t].op].refs = 0
    <3>1. \A t \in Threads : tail[t].at = "unlink" => tail[t].op # o
      BY <1>1, <1>8 DEF TailOk, One
    <3>2. \A t \in Threads : tail[t].at \in {"none", "drop", "unlink"}
      BY <1>1 DEF TypeOK, Tails, NoTail
    <3>3. QED
      BY <1>1, <1>10, <3>1, <3>2 DEF TailOk, DropsOwn
  <2>2. \A j \in Ios : io'[j].phase # "leaving" => tail[j] = NoTail
    BY <1>1, <1>2 DEF TailOk
  <2>3. QED
    BY <1>1, <2>1, <2>2 DEF TailOk, DropsOwn
<1>16. WorkerOk'
  <2>1. ASSUME wpc = "finish"
        PROVE  /\ ~ op'[wop].released
               /\ wop \notin Range(queue)'
               /\ \A j \in Ios : /\ io'[j].phase = "admitted" => io'[j].cur # wop
                                 /\ \A l \in Levels : io'[j].ctx[l] # wop
    <3>1. wop \in Live /\ wop # None
      BY <1>1, <2>1 DEF WorkerOk, Holding
    <3>2. ~ op'[wop].released /\ wop \notin Range(queue)'
      BY <1>1, <1>7, <1>10, <2>1, <3>1 DEF WorkerOk
    <3>3. \A j \in Ios : /\ io'[j].phase = "admitted" => io'[j].cur # wop
                         /\ \A l \in Levels : io'[j].ctx[l] # wop
      BY <1>1, <1>2, <2>1, <3>1 DEF WorkerOk
    <3>4. QED
      BY <3>2, <3>3
  <2>2. stage = "loaded"
    BY DEF Open
  <2>3. wpc # "exited"
    BY <1>1, <2>2 DEF WorkerOk
  <2>4. QED
    BY <1>1, <1>10, <2>1, <2>3 DEF WorkerOk
<1>17. SweepsAreFinal'
  <2>1. op[o].owner = owner /\ stage = "loaded" /\ instance[op[o].level] = "attached"
    <3>1. op[o].wake \in 0 .. 3
      BY <1>1, LiveOps DEF Operations
    <3>2. QED
      BY <1>1, <3>1 DEF SweepsAreFinal, Open
  <2>2. ASSUME NEW p \in Live, p # o, ~ op'[p].released
        PROVE  /\ op'[p].owner # owner => op'[p].wake >= 2
               /\ stage # "loaded" => op'[p].wake = 3
               /\ instance[op'[p].level] # "attached" => op'[p].wake = 3
    <3>1. op'[p] = op[p]
      BY <1>10, <2>2
    <3>2. QED
      BY <1>1, <2>2, <3>1 DEF SweepsAreFinal
  <2>3. QED
    BY <1>10, <2>1, <2>2 DEF SweepsAreFinal, Belongs
<1>18. ArmOk'
  BY <1>1, <1>10, ArmStays
<1>19. TypeOK'
  BY <1>1, <1>2, <1>7, <1>10 DEF TypeOK
<1>20. QED
  BY <1>12, <1>13, <1>14, <1>15, <1>16, <1>17, <1>18, <1>19 DEF IInv, CoreOk

\* An admitted request is held before it goes down.
LEMMA QueuePreKeeps ==
  ASSUME IInv, NEW i \in Ios, QueuePre(i)
  PROVE  IInv'
<1> DEFINE o == io[i].cur
           b == i \in Reads
           r == [io[i] EXCEPT !.phase = "pended", !.pinned = b]
<1>1. /\ UNCHANGED <<stage, control, process, client, owner, arm, topology,
                     instance, tail, wpc, wop, snapshot, violations>>
      /\ io[i].phase = "admitted" /\ Enqueue(o, FALSE)
      /\ Open(op[o].level) /\ op[o].wake < 2
  BY DEF QueuePre, Queueable, portVars, armVars, workerVars
<1>2. /\ io[i] \in Requests /\ Fits(i, io[i])
  BY RequestFacts
<1>3. /\ o \in Live /\ ~ op[o].released /\ op[o].data = i
      /\ op[o].level = io[i].level
  BY <1>1, <1>2 DEF Fits, Carries
<1>4. io' = [io EXCEPT ![i] = r]
  BY DEF IInv, TypeOK, QueuePre
<1>5. /\ r \in Requests /\ r.phase = "pended" /\ r.level = io[i].level
      /\ r.ctx = io[i].ctx /\ r.proc = io[i].proc
      /\ i \in Reads => r.pinned
  <2>1. b \in BOOLEAN /\ (i \in Reads => b)
    OBVIOUS
  <2> HIDE DEF b
  <2>2. /\ r \in Requests /\ r.phase = "pended" /\ r.level = io[i].level
        /\ r.ctx = io[i].ctx /\ r.proc = io[i].proc /\ r.pinned = b
    BY <1>2, <2>1 DEF Requests, Phases
  <2>3. QED
    BY <2>1, <2>2
<1> HIDE DEF r
<1>6. Fits(i, r)
  BY <1>1, <1>2, <1>5 DEF Fits
<1>7. wpc = "finish" => wop # o
  BY <1>1 DEF IInv, CoreOk, WorkerOk
<1> HIDE DEF o
<1>8. io[i].phase \in {"admitted", "post"}
  BY <1>1
<1>9. \A l \in Levels : r.ctx[l] \in {None, io[i].ctx[l]}
  BY <1>5
<1>10. QED
  BY <1>1, <1>3, <1>4, <1>5, <1>6, <1>7, <1>8, <1>9, Queued

\* A request is held on its way up.
LEMMA QueuePostKeeps ==
  ASSUME IInv, NEW i \in Ios, QueuePost(i)
  PROVE  IInv'
<1> DEFINE l == io[i].level
           o == io[i].ctx[l]
           x == [io[i].ctx EXCEPT ![l] = None]
           r == [io[i] EXCEPT !.phase = "pended", !.ctx = x]
<1>1. /\ UNCHANGED <<stage, control, process, client, owner, arm, topology,
                     instance, tail, wpc, wop, snapshot, violations>>
      /\ io[i].phase = "post" /\ Enqueue(o, TRUE)
      /\ Open(op[o].level) /\ op[o].wake < 2
  BY DEF QueuePost, Queueable, portVars, armVars, workerVars
<1>2. /\ io[i] \in Requests /\ Fits(i, io[i]) /\ l \in Levels
      /\ io[i].ctx \in [Levels -> Ops \cup {None}]
  BY RequestFacts
<1>3. /\ o \in Live /\ ~ op[o].released /\ op[o].data = i /\ op[o].level = l
  BY <1>1, <1>2 DEF Fits, Carries
<1>4. io' = [io EXCEPT ![i] = r]
  BY DEF IInv, TypeOK, QueuePost
<1>5. /\ x \in [Levels -> Ops \cup {None}] /\ x[l] = None
      /\ \A k \in Levels : x[k] \in {None, io[i].ctx[k]}
  BY <1>2
<1> HIDE DEF x
<1>6. /\ r \in Requests /\ r.phase = "pended" /\ r.level = l
      /\ r.ctx = x /\ r.proc = io[i].proc
  BY <1>2, <1>5 DEF Requests, Phases
<1> HIDE DEF r
<1>7. Fits(i, r)
  <2>1. \A k \in Levels : r.ctx[k] # None => Carries(i, k, r.ctx[k])
    BY <1>2, <1>5, <1>6 DEF Fits
  <2>2. r.level = "upper" => r.ctx["lower"] = None
    BY <1>2, <1>5, <1>6 DEF Fits, Levels
  <2>3. QED
    BY <1>1, <1>2, <1>5, <1>6, <2>1, <2>2 DEF Fits
<1>8. wpc = "finish" => wop # o
  BY <1>1, <1>2 DEF IInv, CoreOk, WorkerOk
<1>9. io[i].phase \in {"admitted", "post"}
  BY <1>1
<1>10. \A k \in Levels : r.ctx[k] \in {None, io[i].ctx[k]}
  BY <1>5, <1>6
<1>11. op[o].level = io[i].level /\ r.level = io[i].level
  BY <1>3, <1>6
<1> HIDE DEF o, l
<1>12. QED
  BY <1>1, <1>3, <1>4, <1>6, <1>7, <1>8, <1>9, <1>10, <1>11, Queued

-------------------------------------------------------------------------------
(* Releasing an operation and dropping its references *)

\* The worker, a draining level and a request are different threads.
LEMMA ThreadsDiffer ==
  /\ "worker" \in Threads /\ "worker" \notin Ios
  /\ \A l \in Levels : l \in Threads /\ l \notin Ios /\ l # "worker"
  /\ \A i \in Ios : i \in Threads /\ i # "worker"
BY SetsAssumption DEF Threads, Levels

\* Nobody but its own thread changes a tail.
LEMMA TailChanges ==
  ASSUME TypeOK, NEW t \in Threads, NEW x \in Tails, tail' = [tail EXCEPT ![t] = x]
  PROVE  /\ tail' \in [Threads -> Tails] /\ tail'[t] = x
         /\ \A s \in Threads : s # t => tail'[s] = tail[s]
BY DEF TypeOK

\* The cancellations known stay known when an operation is released.
LEMMA SweepReleased ==
  ASSUME SweepsAreFinal, Live' = Live,
         \A p \in Live : /\ op'[p].released \/ op'[p].released = op[p].released
                         /\ op'[p].level = op[p].level
                         /\ op'[p].wake = op[p].wake /\ op'[p].owner = op[p].owner,
         UNCHANGED <<stage, owner, instance>>
  PROVE  SweepsAreFinal'
BY DEF SweepsAreFinal

\* The thread t may release the operation o of the request i, which is r then:
\* nobody else has o.
MayRelease(t, o, i, r) ==
  /\ ~ op[o].released /\ o \notin Undone /\ op[o].data = i
  /\ tail[t] = NoTail
  /\ wpc = "finish" => wop # o
  /\ t \in Ios => t = i /\ r.phase = "leaving"
  /\ t \notin Ios => r.phase = io[i].phase
  /\ r.phase \in {io[i].phase, "leaving"}
  /\ r.phase = "pended" <=> io[i].phase = "pended"
  /\ r.level = io[i].level /\ r.cur = io[i].cur /\ r.pinned = io[i].pinned
  /\ r.phase = "admitted" => r.cur # o
  /\ \A l \in Levels : r.ctx[l] \in {None, io[i].ctx[l]} /\ r.ctx[l] # o
  /\ Fits(i, r)

\* A thread other than the worker releases an operation that only its request
\* has, and has its reference still to drop.
LEMMA Released ==
  ASSUME IInv, NEW t \in Threads \ {"worker"}, NEW o \in Live, NEW i \in Ios,
         NEW r \in Requests, MayRelease(t, o, i, r), FinishLogical(t, o),
         io' = [io EXCEPT ![i] = r],
         UNCHANGED <<stage, control, process, client, owner, arm, topology,
                     instance, queue, wpc, wop, snapshot, available>>
  PROVE  IInv'
<1> DEFINE x == [at |-> "drop", op |-> o]
<1> USE DEF MayRelease
<1>1. TypeOK /\ SlotsOk /\ UndoneOk /\ RefsOk /\ TailOk /\ WorkerOk
      /\ SweepsAreFinal /\ ArmOk
  BY DEF IInv, CoreOk
<1>2. /\ io' \in [Ios -> Requests] /\ io'[i] = r
      /\ \A j \in Ios : j # i => io'[j] = io[j]
  BY <1>1, OneRequest
<1>3. Undone \subseteq Live /\ Range(queue) \subseteq Live
  BY UndoneLive
<1>4. /\ op' = [op EXCEPT ![o].released = TRUE]
      /\ tail' = [tail EXCEPT ![t] = x] /\ violations' = violations
  BY DEF FinishLogical
<1>5. /\ op' \in [Ops -> Operations \cup {Free}]
      /\ Live' = Live
      /\ op'[o].released
      /\ \A p \in Live :
           /\ p # o => op'[p] = op[p]
           /\ op'[p].level = op[p].level /\ op'[p].data = op[p].data
           /\ op'[p].post = op[p].post /\ op'[p].refs = op[p].refs
           /\ op'[p].wake = op[p].wake /\ Belongs(p)
  BY <1>1, <1>4, Releases
<1>6. x \in Tails /\ x.at = "drop" /\ x.op = o
  BY DEF Tails, Live
<1> HIDE DEF x
<1>7. /\ tail' \in [Threads -> Tails] /\ tail'[t] = x
      /\ \A s \in Threads : s # t => tail'[s] = tail[s]
  BY <1>1, <1>4, <1>6, TailChanges
<1>8. t # "worker" /\ tail'["worker"] = tail["worker"]
  BY <1>7, ThreadsDiffer
<1>9. \A s \in Threads : DropsOwn(s)' = DropsOwn(s) /\ ~ DropsOwn(t)
  BY <1>8 DEF DropsOwn
<1>10. Pended' = Pended /\ Undone' = Undone /\ InHand' = InHand
  BY <1>2 DEF Pended, Undone, InHand
<1>11. SlotsOk'
  <2>1. Fits(i, r)'
    <3>1. \A l \in Levels, p \in Ops \cup {None} :
            p # o /\ Carries(i, l, p) => Carries(i, l, p)'
      BY <1>5 DEF Carries
    <3>2. /\ \A l \in Levels : r.ctx[l] \in Ops \cup {None}
          /\ r.level \in Levels /\ r.cur \in Ops \cup {None}
      BY DEF Requests
    <3>3. \A l \in Levels : r.ctx[l] # None => Carries(i, l, r.ctx[l])'
      BY <3>1, <3>2 DEF Fits
    <3>4. r.phase = "admitted" => Carries(i, r.level, r.cur)'
      BY <3>1, <3>2 DEF Fits
    <3>5. QED
      BY <3>3, <3>4 DEF Fits
  <2>2. Fits(i, io[i])'
    BY <1>2, <2>1
  <2>3. QED
    BY <1>1, <1>2, <1>5, <2>2, SlotsChange
<1>12. UndoneOk'
  <2>1. ASSUME NEW p \in Undone
        PROVE  /\ p \in Live /\ op'[p] = op[p] /\ op'[p].live
               /\ op[p].data \in Pended
               /\ io'[op[p].data].level = io[op[p].data].level
               /\ io'[op[p].data].pinned = io[op[p].data].pinned
    <3>1. p \in Live /\ p # o
      BY <1>3
    <3>2. op[p].data \in Pended /\ Pended \subseteq Ios
      BY <1>1 DEF UndoneOk, HeldIsInHand, Pended
    <3>3. QED
      BY <1>2, <1>5, <3>1, <3>2 DEF Live
  <2>2. HeldIsInHand'
    <3>1. \A j \in Pended : \E p \in Undone : op'[p].live /\ op'[p].data = j
      BY <1>1, <2>1 DEF UndoneOk, HeldIsInHand
    <3>2. \A p \in Undone : /\ op'[p].data \in Pended
                            /\ io'[op'[p].data].level = op'[p].level
      BY <1>1, <2>1 DEF UndoneOk, HeldIsInHand
    <3>3. \A p, q \in Undone : op'[p].data = op'[q].data => p = q
      BY <1>1, <2>1 DEF UndoneOk, HeldIsInHand
    <3>4. QED
      BY <1>1, <1>4, <1>10, <2>1, <3>1, <3>2, <3>3 DEF UndoneOk, HeldIsInHand
  <2>3. \A p \in Undone : /\ ~ op'[p].released
                          /\ ~ op'[p].post /\ op'[p].data \in Reads
                               => io'[op'[p].data].pinned
    BY <1>1, <2>1 DEF UndoneOk
  <2>4. QED
    BY <1>10, <2>2, <2>3 DEF UndoneOk
<1>13. RefsOk'
  <2>1. \A p \in Live : WorkerHas(p)' = WorkerHas(p)
    BY <1>8 DEF WorkerHas
  <2>2. ASSUME NEW p \in Live PROVE Logical(p)' <=> Logical(p)
    <3>1. CASE p = o
      <4>1. LogicalDrop(t, o)'
        BY <1>6, <1>7, <1>9 DEF LogicalDrop, Dropping
      <4>2. QED
        BY <3>1, <4>1 DEF Logical
    <3>2. CASE p # o
      <4>1. \A s \in Threads : LogicalDrop(s, p)' <=> LogicalDrop(s, p)
        BY <1>6, <1>7, <1>9, <3>2 DEF LogicalDrop, Dropping, NoTail
      <4>2. op'[p] = op[p]
        BY <1>5, <3>2
      <4>3. QED
        BY <4>1, <4>2 DEF Logical
    <3>3. QED
      BY <3>1, <3>2
  <2>3. QED
    BY <1>1, <1>5, <2>1, <2>2 DEF RefsOk, One
<1>14. TailOk'
  <2>1. ASSUME NEW s \in Threads
        PROVE  /\ tail'[s].at # "none" => tail'[s].op \in Live'
               /\ tail'[s].at = "drop" /\ ~ DropsOwn(s)' => op'[tail'[s].op].released
               /\ tail'[s].at = "unlink" => op'[tail'[s].op].refs = 0
    <3>1. CASE s = t
      BY <1>5, <1>6, <1>7, <3>1
    <3>2. CASE s # t
      <4>1. tail'[s] = tail[s] /\ tail[s].at \in {"none", "drop", "unlink"}
        BY <1>1, <1>7, <3>2 DEF TypeOK, Tails, NoTail
      <4>2. QED
        BY <1>1, <1>5, <1>9, <4>1 DEF TailOk
    <3>3. QED
      BY <3>1, <3>2
  <2>2. \A s \in Threads : tail[s].at = "drop" /\ tail[s].op = o => DropsOwn(s)
    BY <1>1 DEF TailOk
  <2>3. ASSUME NEW s \in Threads, NEW u \in Threads,
               tail'[s].at = "drop", tail'[u].at = "drop", tail'[s].op = tail'[u].op
        PROVE  s = u \/ DropsOwn(s)' \/ DropsOwn(u)'
    BY <1>1, <1>6, <1>7, <1>9, <2>2, <2>3 DEF TailOk
  <2>4. ASSUME NEW s \in Threads, NEW u \in Threads,
               tail'[s].at = "unlink", tail'[u].at = "unlink",
               tail'[s].op = tail'[u].op
        PROVE  s = u
    BY <1>1, <1>6, <1>7, <2>4 DEF TailOk
  <2>5. ASSUME NEW j \in Ios, io'[j].phase # "leaving"
        PROVE  tail'[j] = NoTail
    <3>1. j # t /\ j \in Threads
      BY <1>2, <2>5, ThreadsDiffer
    <3>2. io[j].phase # "leaving"
      BY <1>2, <2>5
    <3>3. QED
      BY <1>1, <1>7, <3>1, <3>2 DEF TailOk
  <2>6. QED
    BY <1>1, <1>8, <2>1, <2>3, <2>4, <2>5 DEF TailOk
<1>15. WorkerOk'
  <2>1. ASSUME wpc = "finish"
        PROVE  /\ ~ op'[wop].released
               /\ wop \notin Range(queue)'
               /\ \A j \in Ios : /\ io'[j].phase = "admitted" => io'[j].cur # wop
                                 /\ \A l \in Levels : io'[j].ctx[l] # wop
    <3>1. wop \in Live /\ wop # None /\ wop # o
      BY <1>1, <2>1, SetsAssumption DEF WorkerOk, Holding, Live
    <3>2. ~ op'[wop].released /\ wop \notin Range(queue)'
      BY <1>1, <1>5, <2>1, <3>1 DEF WorkerOk
    <3>3. r.phase = "admitted" => r.cur # wop
      BY <1>1, <2>1 DEF WorkerOk
    <3>4. \A l \in Levels : r.ctx[l] # wop
      BY <1>1, <2>1, <3>1 DEF WorkerOk
    <3>5. QED
      BY <1>1, <1>2, <2>1, <3>2, <3>3, <3>4 DEF WorkerOk
  <2>2. QED
    BY <1>1, <1>5, <2>1 DEF WorkerOk
<1>16. SweepsAreFinal'
  <2>1. \A p \in Live : /\ op'[p].released \/ op'[p].released = op[p].released
                        /\ op'[p].level = op[p].level
                        /\ op'[p].wake = op[p].wake /\ op'[p].owner = op[p].owner
    BY <1>5 DEF Belongs
  <2>2. QED
    BY <1>1, <1>5, <2>1, SweepReleased
<1>17. ArmOk'
  BY <1>1, <1>5, ArmStays
<1>18. TypeOK'
  BY <1>1, <1>2, <1>4, <1>5, <1>7 DEF TypeOK
<1>19. QED
  BY <1>11, <1>12, <1>13, <1>14, <1>15, <1>16, <1>17, <1>18 DEF IInv, CoreOk

\* What a request carries is in nobody else's hands.
LEMMA CarriedIsItsOwn ==
  ASSUME IInv, NEW i \in Ios, NEW l \in Levels, NEW o,
         o # None,
         o = io[i].ctx[l] \/ (io[i].phase = "admitted" /\ l = io[i].level /\ o = io[i].cur)
  PROVE  /\ Carries(i, l, o) /\ o \in Ops
         /\ o \notin Undone
         /\ wpc = "finish" => wop # o
<1>1. Fits(i, io[i])
  BY RequestFacts
<1>2. Carries(i, l, o) /\ o \in Ops
  BY <1>1 DEF Fits, Carries, Live
<1>3. o \notin Undone
  <2> SUFFICES ASSUME o \in Undone PROVE FALSE
    OBVIOUS
  <2>1. io[i].phase = "pended" /\ io[i].level = l
    BY <1>2 DEF IInv, CoreOk, UndoneOk, HeldIsInHand, Pended, Carries
  <2>2. QED
    BY <1>1, <2>1 DEF Fits
<1>4. wpc = "finish" => wop # o
  BY DEF IInv, CoreOk, WorkerOk
<1>5. QED
  BY <1>2, <1>3, <1>4

\* A read whose buffer cannot be locked.
LEMMA LockFailsKeeps ==
  ASSUME IInv, NEW i \in Ios, LockFails(i)
  PROVE  IInv'
<1> DEFINE o == io[i].cur
           r == [io[i] EXCEPT !.phase = "leaving"]
<1>1. /\ UNCHANGED <<stage, control, process, client, owner, arm, topology,
                     instance, queue, wpc, wop, snapshot, available>>
      /\ io[i].phase = "admitted" /\ FinishLogical(i, o)
      /\ io' = [io EXCEPT ![i] = r]
  BY DEF LockFails, portVars, armVars, workerVars
<1>2. /\ io[i] \in Requests /\ Fits(i, io[i]) /\ tail[i] = NoTail
      /\ io[i].level \in Levels
  BY <1>1, RequestFacts
<1>3. /\ o \in Live /\ ~ op[o].released /\ op[o].data = i
      /\ op[o].level = io[i].level
  BY <1>1, <1>2 DEF Fits, Carries
<1>4. o # None /\ o \notin Undone /\ (wpc = "finish" => wop # o)
  BY <1>1, <1>2, <1>3, CarriedIsItsOwn, SetsAssumption DEF Live
<1>5. /\ r \in Requests /\ r.phase = "leaving" /\ r.level = io[i].level
      /\ r.ctx = io[i].ctx /\ r.proc = io[i].proc /\ r.cur = io[i].cur
      /\ r.pinned = io[i].pinned
  BY <1>2 DEF Requests, Phases
<1> HIDE DEF r
<1>6. Fits(i, r)
  BY <1>1, <1>2, <1>5 DEF Fits
<1>7. \A l \in Levels : r.ctx[l] \in {None, io[i].ctx[l]} /\ r.ctx[l] # o
  <2>1. ASSUME NEW l \in Levels, io[i].ctx[l] = o PROVE FALSE
    <3>1. op[o].level = l
      BY <1>2, <1>4, <2>1 DEF Fits, Carries
    <3>2. io[i].ctx[io[i].level] = None
      BY <1>1, <1>2 DEF Fits
    <3>3. QED
      BY <1>3, <1>4, <2>1, <3>1, <3>2
  <2>2. QED
    BY <1>5, <2>1
<1> HIDE DEF o
<1>8. i \in Threads \ {"worker"} /\ r.phase \in {io[i].phase, "leaving"}
      /\ (r.phase = "pended" <=> io[i].phase = "pended")
  BY <1>1, <1>5, ThreadsDiffer
<1>9. /\ i \in Ios => i = i /\ r.phase = "leaving"
      /\ i \notin Ios => r.phase = io[i].phase
      /\ r.phase = "admitted" => r.cur # o
  BY <1>5
<1>10. MayRelease(i, o, i, r)
  BY <1>1, <1>2, <1>3, <1>4, <1>5, <1>6, <1>7, <1>8, <1>9 DEF MayRelease
<1>11. QED
  BY <1>1, <1>2, <1>3, <1>4, <1>5, <1>6, <1>7, <1>8, <1>9, <1>10, Released

\* A post that does not hold its request.
LEMMA FinishPostKeeps ==
  ASSUME IInv, NEW i \in Ios, FinishPost(i)
  PROVE  IInv'
<1> DEFINE l == io[i].level
           o == io[i].ctx[l]
           x == [io[i].ctx EXCEPT ![l] = None]
           r == [io[i] EXCEPT !.phase = "leaving", !.ctx = x]
<1>1. /\ UNCHANGED <<stage, control, process, client, owner, arm, topology,
                     instance, queue, wpc, wop, snapshot, available>>
      /\ io[i].phase = "post" /\ FinishLogical(i, o)
  BY DEF FinishPost, portVars, armVars, workerVars
<1>2. /\ io[i] \in Requests /\ Fits(i, io[i]) /\ l \in Levels /\ tail[i] = NoTail
      /\ io[i].ctx \in [Levels -> Ops \cup {None}]
  BY <1>1, RequestFacts
<1>3. /\ o \in Live /\ ~ op[o].released /\ op[o].data = i /\ o # None
  BY <1>1, <1>2 DEF Fits, Carries
<1>4. o \notin Undone /\ (wpc = "finish" => wop # o)
  BY <1>2, <1>3, CarriedIsItsOwn
<1>5. io' = [io EXCEPT ![i] = r]
  BY DEF IInv, TypeOK, FinishPost
<1>6. /\ x \in [Levels -> Ops \cup {None}] /\ x[l] = None
      /\ \A k \in Levels : k # l => x[k] = io[i].ctx[k]
  BY <1>2
<1> HIDE DEF x
<1>7. /\ r \in Requests /\ r.phase = "leaving" /\ r.level = l
      /\ r.ctx = x /\ r.proc = io[i].proc /\ r.cur = io[i].cur
      /\ r.pinned = io[i].pinned
  BY <1>2, <1>6 DEF Requests, Phases
<1> HIDE DEF r
<1>8. Fits(i, r)
  <2>1. \A k \in Levels : r.ctx[k] # None => Carries(i, k, r.ctx[k])
    BY <1>2, <1>6, <1>7 DEF Fits
  <2>2. r.level = "upper" => r.ctx["lower"] = None
    BY <1>2, <1>6, <1>7 DEF Fits, Levels
  <2>3. QED
    BY <1>1, <1>2, <1>6, <1>7, <2>1, <2>2 DEF Fits
<1>9. \A k \in Levels : r.ctx[k] \in {None, io[i].ctx[k]} /\ r.ctx[k] # o
  <2>1. ASSUME NEW k \in Levels, k # l, io[i].ctx[k] = o PROVE FALSE
    BY <1>2, <1>3, <2>1 DEF Fits, Carries
  <2>2. QED
    BY <1>3, <1>6, <1>7, <2>1
<1>10. i \in Threads \ {"worker"} /\ r.phase \in {io[i].phase, "leaving"}
       /\ (r.phase = "pended" <=> io[i].phase = "pended")
       /\ r.level = io[i].level
  BY <1>1, <1>7, ThreadsDiffer
<1>11. /\ i \in Ios => i = i /\ r.phase = "leaving"
       /\ i \notin Ios => r.phase = io[i].phase
       /\ r.phase = "admitted" => r.cur # o
  BY <1>7
<1> HIDE DEF o, l
<1>12. MayRelease(i, o, i, r)
  BY <1>1, <1>2, <1>3, <1>4, <1>5, <1>7, <1>8, <1>9, <1>10, <1>11 DEF MayRelease
<1>13. QED
  BY <1>1, <1>2, <1>3, <1>4, <1>5, <1>7, <1>8, <1>9, <1>10, <1>11, <1>12, Released

\* A stopping instance drains the post of a request below it.
LEMMA DrainKeeps ==
  ASSUME IInv, NEW l \in Levels, NEW i \in Ios, Drain(l, i)
  PROVE  IInv'
<1> DEFINE o == io[i].ctx[l]
           x == [io[i].ctx EXCEPT ![l] = None]
           r == [io[i] EXCEPT !.ctx = x]
<1>1. /\ UNCHANGED <<stage, control, process, client, owner, arm, topology,
                     instance, queue, wpc, wop, snapshot, available>>
      /\ o # None /\ FinishLogical(l, o) /\ tail[l] = NoTail
      /\ ~ (io[i].phase = "post" /\ io[i].level = l)
  BY DEF Drain, portVars, armVars, workerVars
<1>2. /\ io[i] \in Requests /\ Fits(i, io[i])
      /\ io[i].ctx \in [Levels -> Ops \cup {None}]
  BY RequestFacts
<1>3. /\ o \in Live /\ ~ op[o].released /\ op[o].data = i /\ op[o].level = l
  BY <1>1, <1>2 DEF Fits, Carries
<1>4. o \notin Undone /\ (wpc = "finish" => wop # o)
  BY <1>1, CarriedIsItsOwn
<1>5. io' = [io EXCEPT ![i] = r]
  BY DEF IInv, TypeOK, Drain
<1>6. /\ x \in [Levels -> Ops \cup {None}] /\ x[l] = None
      /\ \A k \in Levels : k # l => x[k] = io[i].ctx[k]
  BY <1>2
<1> HIDE DEF x
<1>7. /\ r \in Requests /\ r.phase = io[i].phase /\ r.level = io[i].level
      /\ r.ctx = x /\ r.proc = io[i].proc /\ r.cur = io[i].cur
      /\ r.pinned = io[i].pinned
  BY <1>2, <1>6 DEF Requests
<1> HIDE DEF r
<1>8. Fits(i, r)
  <2>1. \A k \in Levels : r.ctx[k] # None => Carries(i, k, r.ctx[k])
    BY <1>2, <1>6, <1>7 DEF Fits
  <2>2. r.level = "upper" => r.ctx["lower"] = None
    BY <1>2, <1>6, <1>7 DEF Fits, Levels
  <2>3. r.phase = "post" => r.ctx[r.level] # None
    BY <1>1, <1>2, <1>6, <1>7 DEF Fits, Requests
  <2>4. r.phase \in {"pre", "admitted", "pended", "leaving"} => r.ctx[r.level] = None
    BY <1>2, <1>6, <1>7 DEF Fits, Requests
  <2>5. QED
    BY <1>2, <1>7, <2>1, <2>2, <2>3, <2>4 DEF Fits
<1>9. \A k \in Levels : r.ctx[k] \in {None, io[i].ctx[k]} /\ r.ctx[k] # o
  <2>1. ASSUME NEW k \in Levels, k # l, io[i].ctx[k] = o PROVE FALSE
    BY <1>1, <1>2, <1>3, <2>1 DEF Fits, Carries
  <2>2. QED
    BY <1>1, <1>6, <1>7, <2>1
<1>10. r.phase = "admitted" => r.cur # o
  <2>1. ASSUME io[i].phase = "admitted", io[i].cur = o PROVE FALSE
    <3>1. io[i].level = l
      BY <1>2, <1>3, <2>1 DEF Fits, Carries
    <3>2. QED
      BY <1>1, <1>2, <2>1, <3>1 DEF Fits
  <2>2. QED
    BY <1>7, <2>1
<1>11. /\ l \in Threads \ {"worker"}
       /\ l \in Ios => l = i /\ r.phase = "leaving"
       /\ l \notin Ios => r.phase = io[i].phase
       /\ r.phase \in {io[i].phase, "leaving"}
       /\ (r.phase = "pended" <=> io[i].phase = "pended")
  BY <1>7, ThreadsDiffer
<1> HIDE DEF o
<1>12. MayRelease(l, o, i, r)
  BY <1>1, <1>3, <1>4, <1>5, <1>7, <1>8, <1>9, <1>10, <1>11 DEF MayRelease
<1>13. QED
  BY <1>1, <1>3, <1>4, <1>5, <1>7, <1>8, <1>9, <1>10, <1>11, <1>12, Released

\* An operation that is not freed keeps what the request it belongs to needs.
LEMMA SlotsStay ==
  ASSUME SlotsOk, io' = io,
         \A o \in Live : ~ op[o].released => /\ o \in Live'
                                             /\ op'[o].released = op[o].released
                                             /\ op'[o].level = op[o].level
                                             /\ op'[o].data = op[o].data
  PROVE  SlotsOk'
BY DEF SlotsOk, Fits, Carries

\* A thread about to drop a reference has one.
LEMMA DropperHasOne ==
  ASSUME IInv, NEW t \in Threads, tail[t].at = "drop"
  PROVE  LET o == tail[t].op IN
         /\ o \in Live
         /\ DropsOwn(t) => WorkerHas(o) /\ wop = o
         /\ ~ DropsOwn(t) => Logical(o) /\ op[o].released
         /\ op[o].refs \in 1 .. 3
<1> DEFINE o == tail[t].op
<1>1. o \in Live
  BY DEF IInv, CoreOk, TailOk
<1>2. DropsOwn(t) => WorkerHas(o) /\ wop = o
  BY DEF IInv, CoreOk, TailOk, DropsOwn, WorkerHas, Holding, NoTail
<1>3. ~ DropsOwn(t) => Logical(o) /\ op[o].released
  BY DEF IInv, CoreOk, TailOk, Logical, LogicalDrop, Dropping
<1>4. op[o].refs = One(Logical(o)) + One(o \in Range(queue)) + One(WorkerHas(o))
  BY <1>1 DEF IInv, CoreOk, RefsOk
<1>5. Logical(o) \/ WorkerHas(o)
  BY <1>2, <1>3
<1>6. op[o].refs \in 1 .. 3
  BY <1>4, <1>5 DEF One
<1>7. QED
  BY <1>1, <1>2, <1>3, <1>6

\* A reference is dropped.
LEMMA DropReferenceKeeps ==
  ASSUME IInv, NEW t \in Threads, DropReference(t)
  PROVE  IInv'
<1>0. PICK o \in Live : o = tail[t].op
  BY DropperHasOne DEF DropReference
<1> DEFINE x == IF op[o].refs = 1 THEN [at |-> "unlink", op |-> o] ELSE NoTail
           r == [op[o] EXCEPT !.refs = op[o].refs - 1]
<1>1. TypeOK /\ SlotsOk /\ UndoneOk /\ RefsOk /\ TailOk /\ WorkerOk
      /\ SweepsAreFinal /\ ArmOk
  BY DEF IInv, CoreOk
<1>2. /\ UNCHANGED <<stage, control, process, client, owner, arm, topology,
                     instance, queue, io, wpc, wop, snapshot, available,
                     violations>>
      /\ tail[t].at = "drop" /\ op' = [op EXCEPT ![o] = r]
  BY <1>0 DEF DropReference, portVars, armVars, workerVars
<1>3. tail[t] \in Tails /\ tail[t] # NoTail
  BY <1>1, <1>2 DEF TypeOK, NoTail
<1>4. tail' = [tail EXCEPT ![t] = x]
  <2>1. tail[t] \in [at : {"drop", "unlink"}, op : Ops]
    BY <1>1, <1>3 DEF TypeOK, Tails
  <2>2. [tail[t] EXCEPT !.at = "unlink"] = [at |-> "unlink", op |-> o]
    BY <1>0, <2>1
  <2>3. tail' = [tail EXCEPT ![t] = IF op[o].refs = 1
                                    THEN [tail[t] EXCEPT !.at = "unlink"]
                                    ELSE NoTail]
    BY <1>0 DEF DropReference
  <2>4. QED
    BY <2>2, <2>3
<1>5. /\ o \in Live
      /\ DropsOwn(t) => WorkerHas(o) /\ wop = o
      /\ ~ DropsOwn(t) => Logical(o) /\ op[o].released
      /\ op[o].refs \in 1 .. 3
  BY <1>0, <1>2, DropperHasOne
<1>6. op[o] \in Operations
  BY <1>1, <1>5, LiveOps
<1>7. /\ r \in Operations /\ r.released = op[o].released /\ r.level = op[o].level
      /\ r.data = op[o].data /\ r.post = op[o].post /\ r.refs = op[o].refs - 1
      /\ r.wake = op[o].wake /\ r.owner = op[o].owner /\ r.gen = op[o].gen
      /\ r.target = op[o].target
  <2>1. op[o].refs - 1 \in 0 .. 3
    BY <1>5
  <2>2. QED
    BY <1>6, <2>1 DEF Operations
<1>8. x \in Tails /\ x.at \in {"none", "unlink"}
      /\ (x.at = "unlink" => x.op = o /\ op[o].refs = 1)
  BY <1>5 DEF Tails, NoTail, Live
<1> HIDE DEF r, x
<1>9. /\ op' \in [Ops -> Operations \cup {Free}]
      /\ Live' = Live /\ op'[o] = r
      /\ \A p \in Live : p # o => op'[p] = op[p]
  BY <1>1, <1>2, <1>5, <1>7, OneChanges
<1>10. \A p \in Live : Keeps(p) /\ Belongs(p) /\ op'[p].wake = op[p].wake
  BY <1>7, <1>9 DEF Keeps, Belongs
<1>11. /\ tail' \in [Threads -> Tails] /\ tail'[t] = x
       /\ \A s \in Threads : s # t => tail'[s] = tail[s]
  BY <1>1, <1>4, <1>8, TailChanges
<1>12. \A s \in Threads : DropsOwn(s)' = DropsOwn(s)
  BY <1>2 DEF DropsOwn
<1>13. \A s \in Threads : tail[s].at = "drop" /\ tail[s].op = o /\ s # t
                            => DropsOwn(s) \/ DropsOwn(t)
  BY <1>0, <1>1, <1>2 DEF TailOk
<1>14. \A s, u \in Threads : DropsOwn(s) /\ DropsOwn(u) => s = u
  BY DEF DropsOwn
<1>15. SlotsOk'
  BY <1>1, <1>2, <1>9, <1>10, SlotsStay DEF Keeps
<1>16. UndoneOk'
  <2>1. Undone' = Undone /\ Pended' = Pended /\ InHand' = InHand /\ Undone \subseteq Live
    BY <1>2, UndoneLive DEF Undone, Pended, InHand
  <2>2. \A p \in Undone : op'[p].live /\ op'[p].data = op[p].data /\ Keeps(p)
    BY <1>9, <1>10, <2>1 DEF Live, Keeps
  <2>3. HeldIsInHand'
    BY <1>1, <1>2, <2>1, <2>2 DEF UndoneOk, HeldIsInHand, Keeps
  <2>4. QED
    BY <1>1, <1>2, <2>1, <2>2, <2>3 DEF UndoneOk, Keeps
<1>17. RefsOk'
  <2>1. ASSUME NEW p \in Live, p # o
        PROVE  op'[p].refs = One(Logical(p)') + One(p \in Range(queue)')
                                + One(WorkerHas(p)')
    <3>1. \A s \in Threads : LogicalDrop(s, p)' <=> LogicalDrop(s, p)
      BY <1>0, <1>2, <1>8, <1>11, <1>12, <2>1 DEF LogicalDrop, Dropping
    <3>2. Logical(p)' <=> Logical(p)
      BY <1>9, <2>1, <3>1 DEF Logical
    <3>3. WorkerHas(p)' <=> WorkerHas(p)
      <4>1. CASE t = "worker"
        <5>1. wop = o
          BY <1>0, <1>1, <1>2, <1>3, <4>1 DEF TailOk
        <5>2. QED
          BY <1>2, <2>1, <5>1 DEF WorkerHas
      <4>2. CASE t # "worker"
        BY <1>2, <1>11, <4>2, ThreadsDiffer DEF WorkerHas
      <4>3. QED
        BY <4>1, <4>2
    <3>4. QED
      BY <1>1, <1>2, <1>9, <2>1, <3>2, <3>3 DEF RefsOk, One
  <2>2. op'[o].refs = One(Logical(o)') + One(o \in Range(queue)')
                         + One(WorkerHas(o)')
    <3>1. op[o].refs = One(Logical(o)) + One(o \in Range(queue)) + One(WorkerHas(o))
      BY <1>1, <1>5 DEF RefsOk
    <3>2. op'[o].refs = op[o].refs - 1 /\ op'[o].released = op[o].released
      BY <1>7, <1>9
    <3>3. CASE DropsOwn(t)
      <4>1. t = "worker" /\ WorkerHas(o) /\ ~ WorkerHas(o)'
        BY <1>2, <1>5, <1>8, <1>11, <3>3 DEF DropsOwn, WorkerHas
      <4>2. \A s \in Threads : LogicalDrop(s, o)' <=> LogicalDrop(s, o)
        BY <1>8, <1>11, <1>12, <3>3 DEF LogicalDrop, Dropping
      <4>3. Logical(o)' <=> Logical(o)
        BY <3>2, <4>2 DEF Logical
      <4>4. QED
        BY <1>2, <3>1, <3>2, <4>1, <4>3 DEF One
    <3>4. CASE ~ DropsOwn(t)
      <4>1. Logical(o) /\ op[o].released
        BY <1>5, <3>4
      <4>2. \A s \in Threads : ~ LogicalDrop(s, o)'
        BY <1>8, <1>11, <1>12, <1>13, <3>4 DEF LogicalDrop, Dropping
      <4>3. ~ Logical(o)'
        BY <3>2, <4>1, <4>2 DEF Logical
      <4>4. WorkerHas(o)' <=> WorkerHas(o)
        <5>1. CASE t = "worker"
          BY <1>2, <3>4, <5>1 DEF WorkerHas, DropsOwn
        <5>2. CASE t # "worker"
          BY <1>2, <1>11, <5>2, ThreadsDiffer DEF WorkerHas
        <5>3. QED
          BY <5>1, <5>2
      <4>5. QED
        BY <1>2, <3>1, <3>2, <4>1, <4>3, <4>4 DEF One
    <3>5. QED
      BY <3>3, <3>4
  <2>3. QED
    BY <1>9, <2>1, <2>2 DEF RefsOk
<1>18. TailOk'
  <2>1. \A s \in Threads : tail[s].at = "unlink" => tail[s].op # o
    BY <1>1, <1>5 DEF TailOk
  <2>2. ASSUME NEW s \in Threads
        PROVE  /\ tail'[s].at # "none" => tail'[s].op \in Live'
               /\ tail'[s].at = "drop" /\ ~ DropsOwn(s)' => op'[tail'[s].op].released
               /\ tail'[s].at = "unlink" => op'[tail'[s].op].refs = 0
    <3>1. CASE s = t
      BY <1>5, <1>7, <1>8, <1>9, <1>11, <3>1
    <3>2. CASE s # t
      <4>1. tail'[s] = tail[s] /\ tail[s].at \in {"none", "drop", "unlink"}
        BY <1>1, <1>11, <3>2 DEF TypeOK, Tails, NoTail
      <4>2. QED
        BY <1>1, <1>9, <1>10, <1>12, <2>1, <4>1 DEF TailOk, Keeps
    <3>3. QED
      BY <3>1, <3>2
  <2>3. ASSUME NEW s \in Threads, NEW u \in Threads,
               tail'[s].at = "drop", tail'[u].at = "drop", tail'[s].op = tail'[u].op
        PROVE  s = u \/ DropsOwn(s)' \/ DropsOwn(u)'
    BY <1>1, <1>8, <1>11, <1>12, <2>3 DEF TailOk
  <2>4. ASSUME NEW s \in Threads, NEW u \in Threads,
               tail'[s].at = "unlink", tail'[u].at = "unlink",
               tail'[s].op = tail'[u].op
        PROVE  s = u
    BY <1>1, <1>8, <1>11, <2>1, <2>4 DEF TailOk
  <2>5. ASSUME NEW j \in Ios, io'[j].phase # "leaving"
        PROVE  tail'[j] = NoTail
    <3>1. tail[j] = NoTail /\ j \in Threads
      BY <1>1, <1>2, <2>5, ThreadsDiffer DEF TailOk
    <3>2. j # t
      BY <1>3, <3>1
    <3>3. QED
      BY <1>11, <3>1, <3>2
  <2>6. tail'["worker"] # NoTail =>
          wpc' \in {"drop", "done"} /\ tail'["worker"].op = wop'
    <3>1. CASE t = "worker"
      <4>1. wpc \in {"drop", "done"} /\ wop = o
        BY <1>0, <1>1, <1>3, <3>1 DEF TailOk
      <4>2. x # NoTail => x.op = o
        BY <1>5 DEF x
      <4>3. QED
        BY <1>2, <1>11, <3>1, <4>1, <4>2
    <3>2. CASE t # "worker"
      BY <1>1, <1>2, <1>11, <3>2, ThreadsDiffer DEF TailOk
    <3>3. QED
      BY <3>1, <3>2
  <2>7. QED
    BY <2>2, <2>3, <2>4, <2>5, <2>6 DEF TailOk
<1>19. WorkerOk'
  <2>1. wpc = "finish" => wop \in Live
    BY <1>1 DEF WorkerOk, Holding
  <2>2. QED
    BY <1>1, <1>2, <1>9, <1>10, <2>1 DEF WorkerOk, Keeps
<1>20. SweepsAreFinal'
  <2>1. \A p \in Live : /\ op'[p].released \/ op'[p].released = op[p].released
                        /\ op'[p].level = op[p].level
                        /\ op'[p].wake = op[p].wake /\ op'[p].owner = op[p].owner
    BY <1>10 DEF Keeps, Belongs
  <2>2. QED
    BY <1>1, <1>2, <1>9, <2>1, SweepReleased
<1>21. ArmOk'
  BY <1>1, <1>2, <1>9, <1>10, ArmStays
<1>22. TypeOK'
  BY <1>1, <1>2, <1>9, <1>11 DEF TypeOK
<1>23. QED
  BY <1>15, <1>16, <1>17, <1>18, <1>19, <1>20, <1>21, <1>22 DEF IInv, CoreOk

\* Nobody has an operation that is unlinked.
LEMMA UnlinkedIsUnused ==
  ASSUME IInv, NEW t \in Threads, tail[t].at = "unlink"
  PROVE  LET o == tail[t].op IN
         /\ o \in Live /\ op[o].released
         /\ o \notin Range(queue) /\ ~ WorkerHas(o)
         /\ \A s \in Threads : s # t => tail[s].at = "none" \/ tail[s].op # o
<1> DEFINE o == tail[t].op
<1>1. TypeOK /\ RefsOk /\ TailOk
  BY DEF IInv, CoreOk
<1>2. o \in Live /\ op[o].refs = 0
  BY <1>1 DEF TailOk
<1>3. op[o].refs = One(Logical(o)) + One(o \in Range(queue)) + One(WorkerHas(o))
  BY <1>1, <1>2 DEF RefsOk
<1>4. ~ Logical(o) /\ o \notin Range(queue) /\ ~ WorkerHas(o)
  BY <1>2, <1>3 DEF One
<1>5. ASSUME NEW s \in Threads, s # t, tail[s].at # "none", tail[s].op = o
      PROVE  FALSE
  <2>1. tail[s].at \in {"drop", "unlink"}
    BY <1>1, <1>5 DEF TypeOK, Tails, NoTail
  <2>2. tail[s].at = "drop"
    BY <1>1, <1>5, <2>1 DEF TailOk
  <2>3. Logical(o) \/ WorkerHas(o)
    BY <1>5, <2>2, DropperHasOne
  <2>4. QED
    BY <1>4, <2>3
<1>6. QED
  BY <1>2, <1>4, <1>5 DEF Logical

\* An operation without references is freed.
LEMMA UnlinkKeeps ==
  ASSUME IInv, NEW t \in Threads, Unlink(t)
  PROVE  IInv'
<1>0. PICK o \in Live : o = tail[t].op
  BY UnlinkedIsUnused DEF Unlink
<1>1. TypeOK /\ SlotsOk /\ UndoneOk /\ RefsOk /\ TailOk /\ WorkerOk
      /\ SweepsAreFinal /\ ArmOk
  BY DEF IInv, CoreOk
<1>2. /\ UNCHANGED <<stage, control, process, client, owner, arm, topology,
                     instance, queue, io, wpc, wop, snapshot, available,
                     violations>>
      /\ tail[t].at = "unlink" /\ op' = [op EXCEPT ![o] = Free]
      /\ tail' = [tail EXCEPT ![t] = NoTail]
  BY <1>0 DEF Unlink, portVars, armVars, workerVars
<1>3. /\ o \in Live /\ op[o].released
      /\ o \notin Range(queue) /\ ~ WorkerHas(o)
      /\ \A s \in Threads : s # t => tail[s].at = "none" \/ tail[s].op # o
  BY <1>0, <1>2, UnlinkedIsUnused
<1>4. tail[t] # NoTail
  BY <1>2 DEF NoTail
<1>5. /\ op' \in [Ops -> Operations \cup {Free}]
      /\ op'[o] = Free /\ \A p \in Ops : p # o => op'[p] = op[p]
  BY <1>1, <1>2, <1>3 DEF TypeOK, Live
<1>6. Live' = Live \ {o} /\ \A p \in Live' : op'[p] = op[p] /\ p \in Live
  BY <1>5 DEF Live, Free
<1>7. /\ tail' \in [Threads -> Tails] /\ tail'[t] = NoTail
      /\ \A s \in Threads : s # t => tail'[s] = tail[s]
  BY <1>1, <1>2, TailChanges DEF Tails
<1>8. \A s \in Threads : DropsOwn(s)' = DropsOwn(s)
  BY <1>2 DEF DropsOwn
<1>9. SlotsOk'
  BY <1>1, <1>2, <1>3, <1>6, SlotsStay
<1>10. o \notin Undone
  BY <1>1, <1>3 DEF UndoneOk
<1>11. UndoneOk'
  <2>1. Undone' = Undone /\ Pended' = Pended /\ InHand' = InHand /\ Undone \subseteq Live
    BY <1>2, UndoneLive DEF Undone, Pended, InHand
  <2>2. \A p \in Undone : op'[p] = op[p] /\ op[p].live
    BY <1>6, <1>10, <2>1 DEF Live
  <2>3. HeldIsInHand'
    BY <1>1, <1>2, <2>1, <2>2 DEF UndoneOk, HeldIsInHand
  <2>4. QED
    BY <1>1, <1>2, <2>1, <2>2, <2>3 DEF UndoneOk
<1>12. RefsOk'
  <2> SUFFICES ASSUME NEW p \in Live'
               PROVE  op'[p].refs = One(Logical(p)') + One(p \in Range(queue)')
                                       + One(WorkerHas(p)')
    BY DEF RefsOk
  <2>1. op'[p] = op[p] /\ p \in Live /\ p # o
    BY <1>6
  <2>2. \A s \in Threads : LogicalDrop(s, p)' <=> LogicalDrop(s, p)
    BY <1>2, <1>7, <1>8 DEF LogicalDrop, Dropping, NoTail
  <2>3. Logical(p)' <=> Logical(p)
    BY <2>1, <2>2 DEF Logical
  <2>4. WorkerHas(p)' <=> WorkerHas(p)
    <3>1. CASE t = "worker"
      <4>1. wop = o
        BY <1>1, <1>2, <1>0, <1>4, <3>1 DEF TailOk
      <4>2. QED
        BY <1>2, <2>1, <4>1 DEF WorkerHas
    <3>2. CASE t # "worker"
      BY <1>2, <1>7, <3>2, ThreadsDiffer DEF WorkerHas
    <3>3. QED
      BY <3>1, <3>2
  <2>5. QED
    BY <1>1, <1>2, <2>1, <2>3, <2>4 DEF RefsOk, One
<1>13. TailOk'
  <2>1. ASSUME NEW s \in Threads
        PROVE  /\ tail'[s].at # "none" => tail'[s].op \in Live'
               /\ tail'[s].at = "drop" /\ ~ DropsOwn(s)' => op'[tail'[s].op].released
               /\ tail'[s].at = "unlink" => op'[tail'[s].op].refs = 0
    <3>1. CASE s = t
      BY <1>7, <3>1 DEF NoTail
    <3>2. CASE s # t
      <4>1. tail'[s] = tail[s] /\ tail[s].at \in {"none", "drop", "unlink"}
        BY <1>1, <1>7, <3>2 DEF TypeOK, Tails, NoTail
      <4>2. tail[s].at # "none" => tail[s].op \in Live'
        BY <1>1, <1>3, <1>6, <3>2 DEF TailOk
      <4>3. QED
        BY <1>1, <1>6, <1>8, <4>1, <4>2 DEF TailOk
    <3>3. QED
      BY <3>1, <3>2
  <2>2. ASSUME NEW s \in Threads, NEW u \in Threads,
               tail'[s].at = "drop", tail'[u].at = "drop", tail'[s].op = tail'[u].op
        PROVE  s = u \/ DropsOwn(s)' \/ DropsOwn(u)'
    BY <1>1, <1>7, <1>8, <2>2 DEF TailOk, NoTail
  <2>3. ASSUME NEW s \in Threads, NEW u \in Threads,
               tail'[s].at = "unlink", tail'[u].at = "unlink",
               tail'[s].op = tail'[u].op
        PROVE  s = u
    BY <1>1, <1>7, <2>3 DEF TailOk, NoTail
  <2>4. ASSUME NEW j \in Ios, io'[j].phase # "leaving"
        PROVE  tail'[j] = NoTail
    BY <1>1, <1>2, <1>7, <2>4, ThreadsDiffer DEF TailOk
  <2>5. tail'["worker"] # NoTail =>
          wpc' \in {"drop", "done"} /\ tail'["worker"].op = wop'
    BY <1>1, <1>2, <1>7, ThreadsDiffer DEF TailOk
  <2>6. QED
    BY <2>1, <2>2, <2>3, <2>4, <2>5 DEF TailOk
<1>14. WorkerOk'
  <2>1. wpc \in Holding \ {"done"} => wop # o
    BY <1>3 DEF WorkerHas
  <2>2. wpc \in Holding \ {"done"} => wop \in Live' /\ op'[wop] = op[wop]
    BY <1>1, <1>6, <2>1 DEF WorkerOk
  <2>3. wpc = "finish" => wpc \in Holding \ {"done"}
    BY DEF Holding
  <2>4. QED
    BY <1>1, <1>2, <2>2, <2>3 DEF WorkerOk
<1>15. SweepsAreFinal'
  BY <1>1, <1>2, <1>6 DEF SweepsAreFinal
<1>16. ArmOk'
  BY <1>1, <1>2, <1>6 DEF ArmOk
<1>17. TypeOK'
  BY <1>1, <1>2, <1>5, <1>7 DEF TypeOK
<1>18. QED
  BY <1>9, <1>11, <1>12, <1>13, <1>14, <1>15, <1>16, <1>17 DEF IInv, CoreOk

-------------------------------------------------------------------------------
(* The worker with an operation *)

\* The rest of the invariant, where the operations and the arm stay.
LEMMA WorkerSteps ==
  ASSUME IInv, CoreOk', io' \in [Ios -> Requests], tail' \in [Threads -> Tails],
         queue' \in Seq(Ops), wpc' \in WorkerPcs, wop' \in Ops \cup {None},
         violations' \in Nat,
         UNCHANGED <<stage, control, process, client, owner, arm, topology,
                     instance, op, snapshot, available>>
  PROVE  IInv'
<1>1. TypeOK'
  BY DEF IInv, TypeOK
<1>2. SweepsAreFinal'
  BY DEF IInv, SweepsAreFinal, Live
<1>3. ArmOk'
  BY DEF IInv, ArmOk, Live
<1>4. QED
  BY <1>1, <1>2, <1>3 DEF IInv

\* The worker takes the next operation, with the queue's reference.
LEMMA TakeKeeps ==
  ASSUME IInv, Take
  PROVE  IInv'
<1>1. TypeOK /\ SlotsOk /\ UndoneOk /\ RefsOk /\ TailOk /\ WorkerOk
  BY DEF IInv, CoreOk
<1>2. /\ UNCHANGED <<stage, control, process, client, owner, arm, topology,
                     instance, op, io, tail, snapshot, available, violations>>
      /\ wpc = "take" /\ wpc' = "taken" /\ queue # <<>>
      /\ wop' = Head(queue) /\ queue' = Tail(queue)
  BY DEF Take, portVars, armVars
<1>3. /\ wop' \in Ops /\ queue' \in Seq(Ops) /\ Once(queue')
      /\ Range(queue) = Range(queue') \cup {wop'} /\ wop' \notin Range(queue')
  BY <1>1, <1>2, QueueTail DEF TypeOK, UndoneOk, HeldIsInHand, Once
<1>4. Live' = Live /\ Pended' = Pended /\ Range(queue) \subseteq Live
  BY <1>2, UndoneLive DEF Live, Pended
<1>5. InHand' /\ ~ InHand /\ Undone' = Undone
  BY <1>2, <1>3 DEF InHand, Undone
<1>6. SlotsOk'
  BY <1>1, <1>2, <1>4, SlotsStay
<1>7. UndoneOk'
  <2>1. HeldIsInHand'
    BY <1>1, <1>2, <1>3, <1>4, <1>5 DEF UndoneOk, HeldIsInHand, Once
  <2>2. QED
    BY <1>1, <1>2, <1>5, <2>1 DEF UndoneOk
<1>8. \A t \in Threads : ~ DropsOwn(t) /\ ~ DropsOwn(t)'
  BY <1>2 DEF DropsOwn
<1>9. RefsOk'
  <2> SUFFICES ASSUME NEW o \in Live
               PROVE  op[o].refs = One(Logical(o)') + One(o \in Range(queue'))
                                      + One(WorkerHas(o)')
    BY <1>2, <1>4 DEF RefsOk
  <2>1. Logical(o)' <=> Logical(o)
    BY <1>2, <1>8 DEF Logical, LogicalDrop, Dropping
  <2>2. ~ WorkerHas(o) /\ (WorkerHas(o)' <=> o = wop')
    BY <1>2 DEF WorkerHas, Holding
  <2>3. op[o].refs = One(Logical(o)) + One(o \in Range(queue)) + One(WorkerHas(o))
    BY <1>1 DEF RefsOk
  <2>4. CASE o = wop'
    BY <1>3, <2>1, <2>2, <2>3, <2>4 DEF One
  <2>5. CASE o # wop'
    BY <1>3, <2>1, <2>2, <2>3, <2>5 DEF One
  <2>6. QED
    BY <2>4, <2>5
<1>10. TailOk'
  BY <1>1, <1>2, <1>4, <1>8 DEF TailOk
<1>11. WorkerOk'
  <2>1. wop' \in Live /\ wop' # None
    BY <1>3, <1>4, SetsAssumption
  <2>2. QED
    BY <1>2, <1>4, <2>1 DEF WorkerOk, Holding
<1>12. CoreOk'
  BY <1>6, <1>7, <1>9, <1>10, <1>11 DEF CoreOk
<1>13. /\ io' \in [Ios -> Requests] /\ tail' \in [Threads -> Tails]
       /\ wpc' \in WorkerPcs /\ wop' \in Ops \cup {None} /\ violations' \in Nat
  BY <1>1, <1>2, <1>3 DEF TypeOK, WorkerPcs, Holding
<1>14. QED
  BY <1>2, <1>3, <1>12, <1>13, WorkerSteps

\* The worker decides; the buffer it needs is there.
LEMMA DecideKeeps ==
  ASSUME IInv, Decide
  PROVE  IInv'
<1>1. TypeOK /\ SlotsOk /\ UndoneOk /\ RefsOk /\ TailOk /\ WorkerOk
  BY DEF IInv, CoreOk
<1>2. /\ UNCHANGED <<stage, control, process, client, owner, arm, topology,
                     instance, op, queue, io, tail, wop, snapshot, available>>
      /\ wpc = "taken" /\ wpc' \in {"post", "cancel", "pass"}
  BY DEF Decide, portVars, armVars
<1>3. wop \in Undone
  BY <1>2 DEF Undone, InHand
<1>4. violations' = violations
  <2>1. CASE op[wop].post
    BY <2>1 DEF Decide
  <2>2. CASE ~ op[wop].post
    <3>1. ~ MissingMdl
      BY <1>1, <1>3, <2>2 DEF UndoneOk, MissingMdl
    <3>2. violations' = violations + 0
      BY <2>2, <3>1 DEF Decide
    <3>3. QED
      BY <1>1, <3>2 DEF TypeOK
  <2>3. QED
    BY <2>1, <2>2
<1>5. Live' = Live /\ Pended' = Pended /\ InHand' = InHand /\ Undone' = Undone
  BY <1>2 DEF Live, Pended, InHand, Undone
<1>6. SlotsOk'
  BY <1>1, <1>2, <1>5, SlotsStay
<1>7. UndoneOk'
  <2>1. HeldIsInHand'
    BY <1>1, <1>2, <1>4, <1>5 DEF UndoneOk, HeldIsInHand
  <2>2. QED
    BY <1>1, <1>2, <1>5, <2>1 DEF UndoneOk
<1>8. \A t \in Threads : ~ DropsOwn(t) /\ ~ DropsOwn(t)'
  BY <1>2 DEF DropsOwn
<1>9. RefsOk'
  <2>1. \A o \in Live : /\ Logical(o)' <=> Logical(o)
                        /\ WorkerHas(o)' <=> WorkerHas(o)
    BY <1>2, <1>8 DEF Logical, LogicalDrop, Dropping, WorkerHas, Holding
  <2>2. QED
    BY <1>1, <1>2, <1>5, <2>1 DEF RefsOk, One
<1>10. TailOk'
  BY <1>1, <1>2, <1>5, <1>8 DEF TailOk
<1>11. WorkerOk'
  BY <1>1, <1>2, <1>5 DEF WorkerOk, Holding
<1>12. CoreOk'
  BY <1>6, <1>7, <1>9, <1>10, <1>11 DEF CoreOk
<1>13. /\ io' \in [Ios -> Requests] /\ tail' \in [Threads -> Tails]
       /\ queue' \in Seq(Ops)
       /\ wpc' \in WorkerPcs /\ wop' \in Ops \cup {None} /\ violations' \in Nat
  BY <1>1, <1>2, <1>4 DEF TypeOK, WorkerPcs, Holding
<1>14. QED
  BY <1>2, <1>12, <1>13, WorkerSteps

\* What the worker's request is, once it is given back.
GivenBack(i, o, r) ==
  /\ r \in Requests
  /\ Fits(i, r)
  /\ r.phase \notin {"pended", "admitted", "leaving"}
  /\ \/ /\ wpc \in {"post", "cancel"} /\ wpc' = "finish"
        /\ \A l \in Levels : r.ctx[l] \in {None, io[i].ctx[l]} /\ r.ctx[l] # o
     \/ wpc = "pass" /\ wpc' = "drop"

\* The worker's request is a held one, and given back it goes up or down.
LEMMA SettleGives ==
  ASSUME IInv, Settle
  PROVE  \E i \in Ios, r \in Requests :
           /\ wop \in Undone /\ op[wop].data = i
           /\ io' = [io EXCEPT ![i] = r]
           /\ GivenBack(i, wop, r)
<1> DEFINE i == op[wop].data
           l == op[wop].level
<1>1. wpc \in {"post", "cancel", "pass"} /\ wop \in Undone
  BY DEF Settle, Undone, InHand
<1>2. wop \in Live /\ Carries(i, l, wop) /\ l \in Levels
  <2>1. wop \in Live /\ op[wop] \in Operations
    BY <1>1, UndoneLive, LiveOps DEF IInv
  <2>2. ~ op[wop].released
    BY <1>1 DEF IInv, CoreOk, UndoneOk
  <2>3. QED
    BY <2>1, <2>2 DEF Carries, Operations
<1>3. i \in Ios /\ io[i].phase = "pended" /\ io[i].level = l
  BY <1>1 DEF IInv, CoreOk, UndoneOk, HeldIsInHand, Pended
<1>4. /\ io[i] \in Requests /\ Fits(i, io[i])
      /\ io[i].ctx \in [Levels -> Ops \cup {None}]
  BY <1>3, RequestFacts
<1>5. wop \in Ops /\ wop # None
  BY <1>2, SetsAssumption DEF Live
<1>6. \A k \in Levels : io[i].ctx[k] # wop
  <2>1. ASSUME NEW k \in Levels, io[i].ctx[k] = wop PROVE FALSE
    <3>1. k = l
      BY <1>2, <1>4, <1>5, <2>1 DEF Fits, Carries
    <3>2. io[i].ctx[l] = None
      BY <1>3, <1>4 DEF Fits
    <3>3. QED
      BY <1>5, <2>1, <3>1, <3>2
  <2>2. QED
    BY <2>1
<1>7. CASE wpc \in {"post", "cancel"}
  <2> DEFINE r == Up(io[i])
  <2>1. io' = [io EXCEPT ![i] = r] /\ wpc' = "finish"
    BY <1>7 DEF Settle
  <2>2. Fits(i, r)
    BY <1>3, <1>4, FitsUp DEF Fits
  <2>3. /\ r \in Requests
        /\ \/ r = Idle
           \/ /\ r.phase = "post" /\ r.ctx["upper"] = io[i].ctx["upper"]
              /\ r.ctx["lower"] = None
    BY <1>4, UpGives
  <2>4. r.phase \in {"post", "idle"}
    BY <2>3 DEF Idle
  <2>5. \A k \in Levels : r.ctx[k] \in {None, io[i].ctx[k]}
    BY <2>3 DEF Idle, NoContext, Levels
  <2>6. \A k \in Levels : r.ctx[k] # wop
    BY <1>5, <1>6, <2>5
  <2> HIDE DEF r
  <2>7. GivenBack(i, wop, r)
    BY <1>7, <2>1, <2>2, <2>3, <2>4, <2>5, <2>6 DEF GivenBack
  <2>8. QED
    BY <1>1, <1>3, <2>1, <2>3, <2>7
<1>8. CASE wpc = "pass"
  <2> DEFINE x == [io[i].ctx EXCEPT ![l] = wop]
             q == [io[i] EXCEPT !.ctx = x]
             r == Down(i, q)
  <2>1. io' = [io EXCEPT ![i] = r] /\ wpc' = "drop"
    BY <1>8 DEF Settle
  <2>2. /\ x \in [Levels -> Ops \cup {None}] /\ x[l] = wop
        /\ \A k \in Levels : k # l => x[k] = io[i].ctx[k]
    BY <1>2, <1>4, <1>5
  <2> HIDE DEF x
  <2>3. q \in Requests /\ q.ctx = x /\ q.level = l /\ q.proc = io[i].proc
    BY <1>3, <1>4, <2>2 DEF Requests
  <2> HIDE DEF q
  <2>4. r \in Requests /\ r.phase \in {"pre", "device"}
    BY <1>3, <2>3, DownGives
  <2>5. Fits(i, r)
    <3>1. \A k \in Levels : q.ctx[k] # None => Carries(i, k, q.ctx[k])
      BY <1>2, <1>4, <2>2, <2>3 DEF Fits
    <3>2. q.level = "upper" => q.ctx["lower"] = None
      BY <1>3, <1>4, <2>2, <2>3 DEF Fits, Levels
    <3>3. q.proc # None
      BY <1>3, <1>4, <2>3 DEF Fits
    <3>4. QED
      BY <1>3, <2>3, <3>1, <3>2, <3>3, FitsDown
  <2> HIDE DEF r
  <2>6. GivenBack(i, wop, r)
    BY <1>8, <2>1, <2>4, <2>5 DEF GivenBack
  <2>7. QED
    BY <1>1, <1>3, <2>1, <2>4, <2>6
<1>9. QED
  BY <1>1, <1>7, <1>8

\* The worker gives a request back.
LEMMA SettleKeeps ==
  ASSUME IInv, Settle
  PROVE  IInv'
<1>1. TypeOK /\ SlotsOk /\ UndoneOk /\ RefsOk /\ TailOk /\ WorkerOk
  BY DEF IInv, CoreOk
<1>2. PICK i \in Ios, r \in Requests :
        /\ wop \in Undone /\ op[wop].data = i
        /\ io' = [io EXCEPT ![i] = r]
        /\ GivenBack(i, wop, r)
  BY SettleGives
<1>3. UNCHANGED <<stage, control, process, client, owner, arm, topology,
                  instance, op, queue, tail, wop, snapshot, available, violations>>
  BY DEF Settle, portVars, armVars
<1>4. /\ io' \in [Ios -> Requests] /\ io'[i] = r
      /\ \A j \in Ios : j # i => io'[j] = io[j]
  BY <1>1, <1>2, OneRequest
<1>5. /\ Fits(i, r) /\ r.phase \notin {"pended", "admitted", "leaving"}
      /\ wpc \in {"post", "cancel", "pass"} /\ wpc' \in {"finish", "drop"}
  BY <1>2 DEF GivenBack
<1>6. /\ Live' = Live /\ Pended' = Pended \ {i} /\ i \in Pended
      /\ Undone \subseteq Live
  BY <1>1, <1>2, <1>3, <1>4, <1>5, UndoneLive
     DEF Live, Pended, UndoneOk, HeldIsInHand
<1>7. InHand /\ ~ InHand' /\ Undone = Undone' \cup {wop} /\ wop \notin Undone'
      /\ Undone' = Range(queue)
  <2>1. InHand /\ ~ InHand'
    BY <1>5 DEF InHand
  <2>2. Undone = Range(queue) \cup {wop} /\ Undone' = Range(queue)
    BY <1>3, <2>1 DEF Undone
  <2>3. wop \notin Range(queue)
    BY <1>1, <2>1 DEF UndoneOk, HeldIsInHand
  <2>4. QED
    BY <2>1, <2>2, <2>3
<1>8. SlotsOk'
  <2>1. Fits(i, r)'
    BY <1>3, <1>5, <1>6 DEF Fits, Carries
  <2>2. Fits(i, io[i])'
    BY <1>4, <2>1
  <2>3. QED
    BY <1>1, <1>3, <1>4, <1>6, <2>2, SlotsChange
<1>9. UndoneOk'
  <2>1. ASSUME NEW p \in Undone'
        PROVE  /\ p \in Undone /\ op[p].data \in Pended' /\ op'[p] = op[p]
               /\ io'[op[p].data] = io[op[p].data]
    <3>1. p \in Undone /\ p # wop
      BY <1>7
    <3>2. op[p].data \in Pended /\ op[p].data # i
      BY <1>1, <1>2, <3>1 DEF UndoneOk, HeldIsInHand
    <3>3. QED
      BY <1>3, <1>4, <1>6, <3>1, <3>2 DEF Pended
  <2>2. HeldIsInHand'
    <3>1. ASSUME NEW j \in Pended'
          PROVE  \E p \in Undone' : op'[p].live /\ op'[p].data = j
      <4>1. j \in Pended /\ j # i
        BY <1>6
      <4>2. PICK p \in Undone : op[p].live /\ op[p].data = j
        BY <1>1, <4>1 DEF UndoneOk, HeldIsInHand
      <4>3. p # wop
        BY <1>2, <4>1, <4>2
      <4>4. QED
        BY <1>3, <1>7, <4>2, <4>3
    <3>2. \A p \in Undone' : /\ op'[p].live
                             /\ op'[p].data \in Pended'
                             /\ io'[op'[p].data].level = op'[p].level
      BY <1>1, <2>1 DEF UndoneOk, HeldIsInHand
    <3>3. \A p, q \in Undone' : op'[p].data = op'[q].data => p = q
      BY <1>1, <2>1 DEF UndoneOk, HeldIsInHand
    <3>4. QED
      BY <1>1, <1>3, <1>7, <3>1, <3>2, <3>3 DEF UndoneOk, HeldIsInHand
  <2>3. QED
    BY <1>1, <2>1, <2>2 DEF UndoneOk
<1>10. \A t \in Threads : ~ DropsOwn(t) /\ ~ DropsOwn(t)'
  BY <1>5 DEF DropsOwn
<1>11. RefsOk'
  <2>1. \A o \in Live : /\ Logical(o)' <=> Logical(o)
                        /\ WorkerHas(o)' <=> WorkerHas(o)
    BY <1>3, <1>5, <1>10 DEF Logical, LogicalDrop, Dropping, WorkerHas, Holding
  <2>2. QED
    BY <1>1, <1>3, <1>6, <2>1 DEF RefsOk, One
<1>12. TailOk'
  <2>1. \A j \in Ios : io'[j].phase # "leaving" => tail[j] = NoTail
    BY <1>1, <1>4, <1>6 DEF TailOk, Pended
  <2>2. tail["worker"] = NoTail
    BY <1>1, <1>5 DEF TailOk
  <2>3. QED
    BY <1>1, <1>3, <1>6, <1>10, <2>1, <2>2 DEF TailOk
<1>13. WorkerOk'
  <2>1. wop \in Live /\ wop # None /\ ~ op[wop].released
    BY <1>1, <1>2, <1>6, SetsAssumption DEF UndoneOk, Live
  <2>2. ASSUME wpc' = "finish", NEW j \in Ios
        PROVE  /\ io'[j].phase = "admitted" => io'[j].cur # wop
               /\ \A l \in Levels : io'[j].ctx[l] # wop
    <3>1. CASE j = i
      BY <1>2, <1>4, <1>5, <2>2, <3>1 DEF GivenBack
    <3>2. CASE j # i
      <4>1. io'[j] = io[j] /\ Fits(j, io[j])
        BY <1>1, <1>4, <3>2 DEF SlotsOk
      <4>2. QED
        BY <1>2, <2>1, <3>2, <4>1 DEF Fits, Carries
    <3>3. QED
      BY <3>1, <3>2
  <2>3. QED
    BY <1>3, <1>5, <1>6, <1>7, <2>1, <2>2 DEF WorkerOk, Holding
<1>14. CoreOk'
  BY <1>8, <1>9, <1>11, <1>12, <1>13 DEF CoreOk
<1>15. /\ io' \in [Ios -> Requests] /\ tail' \in [Threads -> Tails]
       /\ queue' \in Seq(Ops)
       /\ wpc' \in WorkerPcs /\ wop' \in Ops \cup {None} /\ violations' \in Nat
  BY <1>1, <1>3, <1>4, <1>5 DEF TypeOK, WorkerPcs, Holding
<1>16. QED
  BY <1>3, <1>14, <1>15, WorkerSteps

\* The worker releases its operation; the last reference is its own.
LEMMA FinishKeeps ==
  ASSUME IInv, Finish
  PROVE  IInv'
<1> DEFINE x == [at |-> "drop", op |-> wop]
<1>1. TypeOK /\ SlotsOk /\ UndoneOk /\ RefsOk /\ TailOk /\ WorkerOk
      /\ SweepsAreFinal /\ ArmOk
  BY DEF IInv, CoreOk
<1>2. /\ UNCHANGED <<stage, control, process, client, owner, arm, topology,
                     instance, queue, io, wop, snapshot, available>>
      /\ wpc = "finish" /\ wpc' = "drop" /\ FinishLogical("worker", wop)
  BY DEF Finish, portVars, armVars
<1>3. /\ wop \in Live /\ ~ op[wop].released /\ wop \notin Range(queue)
      /\ \A i \in Ios : /\ io[i].phase = "admitted" => io[i].cur # wop
                        /\ \A l \in Levels : io[i].ctx[l] # wop
  BY <1>1, <1>2 DEF WorkerOk, Holding
<1>4. /\ op' = [op EXCEPT ![wop].released = TRUE]
      /\ tail' = [tail EXCEPT !["worker"] = x] /\ violations' = violations
  BY <1>2, <1>3 DEF FinishLogical
<1>5. /\ op' \in [Ops -> Operations \cup {Free}]
      /\ Live' = Live
      /\ op'[wop].released
      /\ \A p \in Live :
           /\ p # wop => op'[p] = op[p]
           /\ op'[p].level = op[p].level /\ op'[p].data = op[p].data
           /\ op'[p].post = op[p].post /\ op'[p].refs = op[p].refs
           /\ op'[p].wake = op[p].wake /\ Belongs(p)
  BY <1>1, <1>3, <1>4, Releases
<1>6. x \in Tails /\ x.at = "drop" /\ x.op = wop /\ tail["worker"] = NoTail
  BY <1>1, <1>2, <1>3 DEF Tails, Live, TailOk
<1> HIDE DEF x
<1>7. /\ tail' \in [Threads -> Tails] /\ tail'["worker"] = x
      /\ \A s \in Threads : s # "worker" => tail'[s] = tail[s]
  BY <1>1, <1>4, <1>6, TailChanges, ThreadsDiffer
<1>8. \A s \in Threads : ~ DropsOwn(s) /\ ~ DropsOwn(s)'
  BY <1>2 DEF DropsOwn
<1>9. /\ Pended' = Pended /\ Undone' = Undone /\ InHand' = InHand
      /\ Undone = Range(queue) /\ Undone \subseteq Live
  BY <1>2, UndoneLive DEF Pended, Undone, InHand
<1>10. SlotsOk'
  <2>1. ASSUME NEW i \in Ios, NEW l \in Levels, NEW o, o # wop, Carries(i, l, o)
        PROVE  Carries(i, l, o)'
    BY <1>5, <2>1 DEF Carries
  <2>2. ASSUME NEW i \in Ios PROVE Fits(i, io[i])'
    <3>1. Fits(i, io[i]) /\ io[i].level \in Levels /\ io'[i] = io[i]
      BY <1>2, RequestFacts
    <3>2. \A l \in Levels : io[i].ctx[l] # None => Carries(i, l, io[i].ctx[l])'
      BY <1>3, <2>1, <3>1 DEF Fits
    <3>3. io[i].phase = "admitted" => Carries(i, io[i].level, io[i].cur)'
      BY <1>3, <2>1, <3>1 DEF Fits
    <3>4. QED
      BY <3>1, <3>2, <3>3 DEF Fits, Carries
  <2>3. QED
    BY <2>2 DEF SlotsOk
<1>11. UndoneOk'
  <2>1. \A p \in Undone : p \in Live /\ op'[p] = op[p]
    BY <1>3, <1>5, <1>9
  <2>2. HeldIsInHand'
    BY <1>1, <1>2, <1>4, <1>9, <2>1 DEF UndoneOk, HeldIsInHand
  <2>3. QED
    BY <1>1, <1>2, <1>9, <2>1, <2>2 DEF UndoneOk
<1>12. RefsOk'
  <2>1. \A p \in Live : WorkerHas(p)' <=> WorkerHas(p)
    BY <1>2 DEF WorkerHas, Holding
  <2>2. ASSUME NEW p \in Live PROVE Logical(p)' <=> Logical(p)
    <3>1. CASE p = wop
      <4>1. LogicalDrop("worker", wop)'
        BY <1>2, <1>6, <1>7, <1>8, ThreadsDiffer DEF LogicalDrop, Dropping
      <4>2. QED
        BY <1>2, <1>3, <3>1, <4>1, ThreadsDiffer DEF Logical
    <3>2. CASE p # wop
      <4>1. \A s \in Threads : LogicalDrop(s, p)' <=> LogicalDrop(s, p)
        BY <1>6, <1>7, <1>8, <3>2 DEF LogicalDrop, Dropping, NoTail
      <4>2. op'[p] = op[p]
        BY <1>5, <3>2
      <4>3. QED
        BY <4>1, <4>2 DEF Logical
    <3>3. QED
      BY <3>1, <3>2
  <2>3. QED
    BY <1>1, <1>2, <1>5, <2>1, <2>2 DEF RefsOk, One
<1>13. TailOk'
  <2>1. ASSUME NEW s \in Threads
        PROVE  /\ tail'[s].at # "none" => tail'[s].op \in Live'
               /\ tail'[s].at = "drop" /\ ~ DropsOwn(s)' => op'[tail'[s].op].released
               /\ tail'[s].at = "unlink" => op'[tail'[s].op].refs = 0
    <3>1. CASE s = "worker"
      BY <1>3, <1>5, <1>6, <1>7, <3>1
    <3>2. CASE s # "worker"
      <4>1. tail'[s] = tail[s] /\ tail[s].at \in {"none", "drop", "unlink"}
        BY <1>1, <1>7, <3>2 DEF TypeOK, Tails, NoTail
      <4>2. QED
        BY <1>1, <1>5, <1>8, <4>1 DEF TailOk
    <3>3. QED
      BY <3>1, <3>2
  <2>2. \A s \in Threads : tail[s].at = "drop" => tail[s].op # wop
    BY <1>1, <1>3, <1>8 DEF TailOk
  <2>3. ASSUME NEW s \in Threads, NEW u \in Threads,
               tail'[s].at = "drop", tail'[u].at = "drop", tail'[s].op = tail'[u].op
        PROVE  s = u
    BY <1>1, <1>6, <1>7, <1>8, <2>2, <2>3 DEF TailOk
  <2>4. ASSUME NEW s \in Threads, NEW u \in Threads,
               tail'[s].at = "unlink", tail'[u].at = "unlink",
               tail'[s].op = tail'[u].op
        PROVE  s = u
    BY <1>1, <1>6, <1>7, <2>4 DEF TailOk
  <2>5. \A j \in Ios : io'[j].phase # "leaving" => tail'[j] = NoTail
    BY <1>1, <1>2, <1>7, ThreadsDiffer DEF TailOk
  <2>6. QED
    BY <1>2, <1>6, <1>7, <2>1, <2>3, <2>4, <2>5 DEF TailOk
<1>14. WorkerOk'
  BY <1>1, <1>2, <1>3, <1>5 DEF WorkerOk, Holding
<1>15. SweepsAreFinal'
  <2>1. \A p \in Live : /\ op'[p].released \/ op'[p].released = op[p].released
                        /\ op'[p].level = op[p].level
                        /\ op'[p].wake = op[p].wake /\ op'[p].owner = op[p].owner
    BY <1>5 DEF Belongs
  <2>2. QED
    BY <1>1, <1>2, <1>5, <2>1, SweepReleased
<1>16. ArmOk'
  BY <1>1, <1>2, <1>5, ArmStays
<1>17. TypeOK'
  BY <1>1, <1>2, <1>4, <1>5, <1>7 DEF TypeOK, WorkerPcs, Holding
<1>18. QED
  BY <1>10, <1>11, <1>12, <1>13, <1>14, <1>15, <1>16, <1>17 DEF IInv, CoreOk

\* The worker begins to drop its own reference.
LEMMA WorkerDropKeeps ==
  ASSUME IInv, WorkerDrop
  PROVE  IInv'
<1> DEFINE x == [at |-> "drop", op |-> wop]
<1>1. TypeOK /\ SlotsOk /\ UndoneOk /\ RefsOk /\ TailOk /\ WorkerOk
  BY DEF IInv, CoreOk
<1>2. /\ UNCHANGED <<stage, control, process, client, owner, arm, topology,
                     instance, op, queue, io, wop, snapshot, available, violations>>
      /\ wpc = "drop" /\ wpc' = "done" /\ tail["worker"] = NoTail
      /\ tail' = [tail EXCEPT !["worker"] = x]
  BY DEF WorkerDrop, portVars, armVars
<1>3. wop \in Live
  BY <1>1, <1>2 DEF WorkerOk, Holding
<1>4. x \in Tails /\ x.at = "drop" /\ x.op = wop
  BY <1>3 DEF Tails, Live
<1> HIDE DEF x
<1>5. /\ tail' \in [Threads -> Tails] /\ tail'["worker"] = x
      /\ \A s \in Threads : s # "worker" => tail'[s] = tail[s]
  BY <1>1, <1>2, <1>4, TailChanges, ThreadsDiffer
<1>6. \A s \in Threads : ~ DropsOwn(s) /\ (DropsOwn(s)' <=> s = "worker")
  BY <1>2 DEF DropsOwn
<1>7. /\ Live' = Live /\ Pended' = Pended /\ Undone' = Undone /\ InHand' = InHand
  BY <1>2 DEF Live, Pended, Undone, InHand
<1>8. SlotsOk'
  BY <1>1, <1>2, <1>7, SlotsStay
<1>9. UndoneOk'
  <2>1. HeldIsInHand'
    BY <1>1, <1>2, <1>7 DEF UndoneOk, HeldIsInHand
  <2>2. QED
    BY <1>1, <1>2, <1>7, <2>1 DEF UndoneOk
<1>10. RefsOk'
  <2>1. ASSUME NEW p \in Live PROVE Logical(p)' <=> Logical(p)
    <3>1. \A s \in Threads : LogicalDrop(s, p)' <=> LogicalDrop(s, p)
      BY <1>2, <1>5, <1>6 DEF LogicalDrop, Dropping, NoTail
    <3>2. QED
      BY <1>2, <3>1 DEF Logical
  <2>2. \A p \in Live : WorkerHas(p)' <=> WorkerHas(p)
    BY <1>2, <1>4, <1>5 DEF WorkerHas, Holding
  <2>3. QED
    BY <1>1, <1>2, <1>7, <2>1, <2>2 DEF RefsOk, One
<1>11. TailOk'
  <2>1. ASSUME NEW s \in Threads
        PROVE  /\ tail'[s].at # "none" => tail'[s].op \in Live'
               /\ tail'[s].at = "drop" /\ ~ DropsOwn(s)' => op'[tail'[s].op].released
               /\ tail'[s].at = "unlink" => op'[tail'[s].op].refs = 0
    <3>1. CASE s = "worker"
      BY <1>3, <1>4, <1>5, <1>6, <1>7, <3>1
    <3>2. CASE s # "worker"
      BY <1>1, <1>2, <1>5, <1>6, <1>7, <3>2 DEF TailOk
    <3>3. QED
      BY <3>1, <3>2
  <2>2. ASSUME NEW s \in Threads, NEW u \in Threads,
               tail'[s].at = "drop", tail'[u].at = "drop", tail'[s].op = tail'[u].op
        PROVE  s = u \/ DropsOwn(s)' \/ DropsOwn(u)'
    BY <1>1, <1>5, <1>6, <2>2 DEF TailOk
  <2>3. ASSUME NEW s \in Threads, NEW u \in Threads,
               tail'[s].at = "unlink", tail'[u].at = "unlink",
               tail'[s].op = tail'[u].op
        PROVE  s = u
    BY <1>1, <1>4, <1>5, <2>3 DEF TailOk
  <2>4. \A j \in Ios : io'[j].phase # "leaving" => tail'[j] = NoTail
    BY <1>1, <1>2, <1>5, ThreadsDiffer DEF TailOk
  <2>5. QED
    BY <1>2, <1>4, <1>5, <2>1, <2>2, <2>3, <2>4 DEF TailOk
<1>12. WorkerOk'
  BY <1>1, <1>2, <1>7 DEF WorkerOk, Holding
<1>13. CoreOk'
  BY <1>8, <1>9, <1>10, <1>11, <1>12 DEF CoreOk
<1>14. /\ io' \in [Ios -> Requests] /\ queue' \in Seq(Ops)
       /\ wpc' \in WorkerPcs /\ wop' \in Ops \cup {None} /\ violations' \in Nat
  BY <1>1, <1>2 DEF TypeOK, WorkerPcs, Holding
<1>15. QED
  BY <1>2, <1>5, <1>13, <1>14, WorkerSteps

\* The worker is done with its operation.
LEMMA DoneKeeps ==
  ASSUME IInv, Done
  PROVE  IInv'
<1>1. TypeOK /\ SlotsOk /\ UndoneOk /\ RefsOk /\ TailOk /\ WorkerOk
  BY DEF IInv, CoreOk
<1>2. /\ UNCHANGED <<stage, control, process, client, owner, arm, topology,
                     instance, op, queue, io, tail, snapshot, available, violations>>
      /\ wpc = "done" /\ wpc' = "take" /\ wop' = None /\ tail["worker"] = NoTail
  BY DEF Done, portVars, armVars
<1>3. /\ Live' = Live /\ Pended' = Pended /\ InHand' = InHand /\ Undone' = Undone
  BY <1>2 DEF Live, Pended, Undone, InHand
<1>4. SlotsOk'
  BY <1>1, <1>2, <1>3, SlotsStay
<1>5. UndoneOk'
  <2>1. HeldIsInHand'
    BY <1>1, <1>2, <1>3 DEF UndoneOk, HeldIsInHand, InHand
  <2>2. QED
    BY <1>1, <1>2, <1>3, <2>1 DEF UndoneOk
<1>6. \A s \in Threads, p \in Ops : LogicalDrop(s, p)' <=> LogicalDrop(s, p)
  BY <1>2 DEF LogicalDrop, Dropping, DropsOwn, NoTail
<1>7. RefsOk'
  <2>1. \A p \in Live : Logical(p)' <=> Logical(p)
    BY <1>2, <1>6 DEF Logical, Live
  <2>2. \A p \in Live : ~ WorkerHas(p)' /\ ~ WorkerHas(p)
    BY <1>2 DEF WorkerHas, Holding, NoTail
  <2>3. QED
    BY <1>1, <1>2, <1>3, <2>1, <2>2 DEF RefsOk, One
<1>8. TailOk'
  <2>1. \A s \in Threads : tail[s].at = "drop" => ~ DropsOwn(s) /\ ~ DropsOwn(s)'
    BY <1>2 DEF DropsOwn, NoTail
  <2>2. QED
    BY <1>1, <1>2, <1>3, <2>1 DEF TailOk
<1>9. WorkerOk'
  BY <1>2 DEF WorkerOk, Holding
<1>10. CoreOk'
  BY <1>4, <1>5, <1>7, <1>8, <1>9 DEF CoreOk
<1>11. /\ io' \in [Ios -> Requests] /\ tail' \in [Threads -> Tails]
       /\ queue' \in Seq(Ops)
       /\ wpc' \in WorkerPcs /\ wop' \in Ops \cup {None} /\ violations' \in Nat
  BY <1>1, <1>2 DEF TypeOK, WorkerPcs
<1>12. QED
  BY <1>2, <1>10, <1>11, WorkerSteps

-------------------------------------------------------------------------------
(* The theorems *)

\* The invariant holds at the start.
LEMMA Start == Init => IInv
<1> SUFFICES ASSUME Init PROVE IInv
  OBVIOUS
<1>1. Live = {} /\ Pended = {} /\ ~ InHand
  BY DEF Init, Live, Free, Pended, Idle, InHand
<1>2. Range(queue) = {} /\ Once(queue) /\ Undone = {}
  BY <1>1, QueueEmpty DEF Init, Undone
<1>3. TypeOK
  <2>1. Idle \in Requests
    BY DEF Idle, Requests, NoContext, Phases, Levels
  <2>2. <<>> \in Seq(Ops)
    OBVIOUS
  <2>3. QED
    BY <2>1, <2>2 DEF Init, TypeOK, Tails, WorkerPcs
<1>4. SlotsOk
  BY DEF Init, SlotsOk, Fits, Idle, NoContext, Levels
<1>5. UndoneOk
  BY <1>1, <1>2 DEF Init, UndoneOk, HeldIsInHand, Once
<1>6. RefsOk /\ SweepsAreFinal /\ ArmOk
  BY <1>1 DEF Init, RefsOk, SweepsAreFinal, ArmOk
<1>7. TailOk
  BY ThreadsDiffer DEF Init, TailOk, NoTail
<1>8. WorkerOk
  BY DEF Init, WorkerOk, Holding
<1>9. QED
  BY <1>3, <1>4, <1>5, <1>6, <1>7, <1>8 DEF IInv, CoreOk

\* Nothing happens.
LEMMA StutterKeeps == IInv /\ UNCHANGED vars => IInv'
<1> SUFFICES ASSUME IInv, UNCHANGED vars PROVE IInv'
  OBVIOUS
<1>1. UNCHANGED <<stage, control, process, client, owner, arm, topology, instance,
                  op, queue, io, tail, wpc, wop, snapshot, available, violations>>
  BY DEF vars, portVars, armVars, workerVars
<1>2. wpc' = "exited" => queue = <<>> /\ stage' # "loaded"
  BY <1>1 DEF IInv, CoreOk, WorkerOk
<1>3. CoreOk' /\ SweepsAreFinal' /\ ArmOk'
  BY <1>1, <1>2, OpsStay
<1>4. TypeOK'
  BY <1>1 DEF IInv, TypeOK
<1>5. QED
  BY <1>3, <1>4 DEF IInv

\* A client's calls, for any of its modes and batches.
LEMMA PortKeeps ==
  ASSUME IInv, NEW c \in ClientIds, Port(c)
  PROVE  IInv'
<1>1. Modes \subseteq AllModes /\ "DRAIN_PAIR" \in AllModes
  BY ModesAssumption DEF AllModes, PairModes
<1>2. ASSUME NEW t \in Targets, NEW m \in Modes, ArmOne(c, t, m)
      PROVE  IInv'
  BY <1>1, <1>2, ArmKeeps DEF ArmOne
<1>3. ASSUME NEW t \in Targets, NEW n \in Batches, ArmBatch(c, t, n)
      PROVE  IInv'
  <2>1. n \in 1 .. 8
    BY BatchesAssumption
  <2>2. QED
    BY <1>1, <1>3, <2>1, ArmKeeps DEF ArmBatch
<1>4. QED
  BY <1>2, <1>3, ConnectKeeps, DisconnectKeeps, ResumeKeeps, ReleaseKeeps,
     ClientExitKeeps DEF Port

\* A request's steps.
LEMMA RequestKeeps ==
  ASSUME IInv, NEW i \in Ios, Request(i)
  PROVE  IInv'
BY AdmitUpperKeeps, AdmitLowerKeeps, AdmitFailsKeeps, PassByKeeps, QueuePreKeeps,
   LockFailsKeeps, GoOnKeeps, CompleteKeeps, QueuePostKeeps, FinishPostKeeps,
   LeaveKeeps DEF Request

\* The worker's steps.
LEMMA WorkerKeeps ==
  ASSUME IInv, Worker
  PROVE  IInv'
BY RetireKeeps, WorkerIdles, TakeKeeps, DecideKeeps, SettleKeeps, FinishKeeps,
   WorkerDropKeeps, DoneKeeps DEF Worker

\* Every step keeps the invariant.
LEMMA StepKeeps == IInv /\ [Next]_vars => IInv'
<1> SUFFICES ASSUME IInv, [Next]_vars PROVE IInv'
  OBVIOUS
<1>1. ASSUME NEW c \in ClientIds, Port(c) \/ Reply(c) PROVE IInv'
  BY <1>1, PortKeeps, ReplyKeeps
<1>2. ASSUME NEW t \in Targets, TargetExit(t) \/ Signal(t) PROVE IInv'
  BY <1>2, TargetExitKeeps, SignalKeeps
<1>3. ASSUME NEW l \in Levels, Setup(l) \/ TeardownStart(l) \/ TeardownComplete(l)
      PROVE  IInv'
  BY <1>3, SetupKeeps, TeardownStartKeeps, TeardownCompleteKeeps
<1>4. ASSUME NEW l \in Levels, NEW i \in Ios, Drain(l, i) PROVE IInv'
  BY <1>4, DrainKeeps
<1>5. ASSUME NEW i \in Ios, Request(i) \/ \E t \in Targets : Issue(i, t)
      PROVE  IInv'
  BY <1>5, RequestKeeps, IssueKeeps
<1>6. ASSUME NEW thread \in Threads, LetGo(thread) PROVE IInv'
  BY <1>6, DropReferenceKeeps, UnlinkKeeps DEF LetGo
<1>7. CASE Watch \/ Worker
  BY <1>7, WorkerIdles, WorkerKeeps
<1>8. CASE Stop \/ Join \/ Unregister
  BY <1>8, StopKeeps, EndKeeps
<1>9. CASE UNCHANGED vars
  BY <1>9, StutterKeeps
<1>10. QED
  BY <1>1, <1>2, <1>3, <1>4, <1>5, <1>6, <1>7, <1>8, <1>9 DEF Next

\* The inductive invariant holds for any number of operations, requests,
\* processes and clients.
THEOREM Invariance == Spec => []IInv
<1>1. QED
  BY Start, StepKeeps, PTL DEF Spec

\* The state stays in its types: no reference count leaves 0 .. 3.
THEOREM TypeCorrect == Spec => []TypeOK
<1>1. IInv => TypeOK
  BY DEF IInv
<1>2. QED
  BY <1>1, Invariance, PTL

\* No held request is lost by a stop, teardown or release, and none is completed
\* twice (PendingIo.cpp's queue and its worker).
THEOREM HeldStaysInHand == Spec => []HeldIsInHand
<1>1. IInv => HeldIsInHand
  BY DEF IInv, CoreOk, UndoneOk
<1>2. QED
  BY <1>1, Invariance, PTL

\* No thread uses an operation DropReference has freed.
THEOREM FreedIsUnused == Spec => []NobodyUsesFreed
<1>1. IInv => NobodyUsesFreed
  <2> SUFFICES ASSUME IInv PROVE NobodyUsesFreed
    OBVIOUS
  <2>1. TypeOK /\ SlotsOk /\ TailOk /\ WorkerOk
    BY DEF IInv, CoreOk
  <2>2. \A i \in Ios : /\ io[i].phase = "admitted" => io[i].cur \in Live
                       /\ \A l \in Levels : io[i].ctx[l] # None => io[i].ctx[l] \in Live
    BY <2>1 DEF SlotsOk, Fits, Carries
  <2>3. \A t \in Threads : tail[t].op # None => tail[t].op \in Live
    <3>1. ASSUME NEW t \in Threads, tail[t].op # None PROVE tail[t].op \in Live
      <4>1. tail[t] \in Tails /\ tail[t] # NoTail
        BY <2>1, <3>1 DEF TypeOK, NoTail
      <4>2. tail[t].at # "none"
        BY <4>1 DEF Tails
      <4>3. QED
        BY <2>1, <4>2 DEF TailOk
    <3>2. QED
      BY <3>1
  <2>4. Range(queue) \subseteq Live
    BY UndoneLive
  <2>5. wpc \in Holding \ {"done"} => wop \in Live
    BY <2>1 DEF WorkerOk
  <2>6. QED
    BY <2>2, <2>3, <2>4, <2>5 DEF NobodyUsesFreed, Used
<1>2. QED
  BY <1>1, Invariance, PTL

\* Every sweep reaches every operation (stop, teardown, release, exits).
THEOREM SweepsReachAll == Spec => []SweepsAreFinal
<1>1. IInv => SweepsAreFinal
  BY DEF IInv
<1>2. QED
  BY <1>1, Invariance, PTL

\* Only the admission of a request publishes an operation.
LEMMA OnlyAdmitsPublish ==
  ASSUME IInv, Next, NEW o \in Ops, ~ op[o].live, op'[o].live
  PROVE  \E i \in Ios : AdmitUpper(i, o) \/ \E u \in Ops : AdmitLower(i, u, o)
<1> SUFFICES ASSUME ~ \E i \in Ios : AdmitUpper(i, o)
                                     \/ \E u \in Ops : AdmitLower(i, u, o)
             PROVE  op'[o] = op[o]
  OBVIOUS
<1>1. op \in [Ops -> Operations \cup {Free}] /\ o \notin Live
  BY DEF IInv, TypeOK, Live
<1>2. \A S \in SUBSET Live, n \in 1 .. 3 : op' = Wake(S, n) => op'[o] = op[o]
  BY <1>1 DEF Wake
<1>3. ReleaseOwner => op'[o] = op[o]
  BY <1>2 DEF ReleaseOwner
<1>4. \A u \in Live : \A r : op' = [op EXCEPT ![u] = r] => op'[o] = op[o]
  BY <1>1
<1>5. \A t \in Threads, u \in Live : FinishLogical(t, u) => op'[o] = op[o]
  BY <1>4 DEF FinishLogical
<1>6. ASSUME NEW post \in BOOLEAN, NEW u \in Live, Enqueue(u, post)
      PROVE  op'[o] = op[o]
  <2>1. op' = [op EXCEPT ![u] = [op[u] EXCEPT !.refs = op[u].refs + 1,
                                              !.post = post,
                                              !.wake = IF post THEN 0
                                                       ELSE op[u].wake]]
    BY <1>6 DEF Enqueue
  <2>2. QED
    BY <1>4, <2>1
<1>7. ASSUME NEW c \in ClientIds, Port(c) \/ Reply(c) PROVE op'[o] = op[o]
  BY <1>2, <1>3, <1>7 DEF Port, Reply, Connect, Disconnect, Resume, Release,
     ClientExit, ArmOne, ArmBatch, Arm
<1>8. ASSUME NEW t \in Targets, TargetExit(t) \/ Signal(t) PROVE op'[o] = op[o]
  BY <1>2, <1>8 DEF TargetExit, Signal
<1>9. ASSUME NEW l \in Levels, Setup(l) \/ TeardownStart(l) \/ TeardownComplete(l)
      PROVE  op'[o] = op[o]
  BY <1>2, <1>9 DEF Setup, TeardownStart, TeardownComplete
<1>10. ASSUME NEW l \in Levels, NEW i \in Ios, Drain(l, i) PROVE op'[o] = op[o]
  <2>1. io[i].ctx[l] \in Live
    BY <1>10, RequestFacts DEF Drain, Fits, Carries
  <2>2. QED
    BY <1>5, <1>10, <2>1, ThreadsDiffer DEF Drain
<1>11. ASSUME NEW i \in Ios, Request(i) \/ \E t \in Targets : Issue(i, t)
       PROVE  op'[o] = op[o]
  <2>1. io[i].phase = "admitted" => io[i].cur \in Live
    BY RequestFacts DEF Fits, Carries
  <2>2. io[i].phase = "post" => io[i].ctx[io[i].level] \in Live
    BY RequestFacts DEF Fits, Carries
  <2>3. CASE QueuePre(i) \/ QueuePost(i)
    BY <1>6, <2>1, <2>2, <2>3 DEF QueuePre, QueuePost
  <2>4. CASE LockFails(i) \/ FinishPost(i)
    BY <1>5, <2>1, <2>2, <2>4, ThreadsDiffer DEF LockFails, FinishPost
  <2>5. CASE AdmitFails(i)
    BY <1>4, <2>5 DEF AdmitFails
  <2>6. CASE PassBy(i) \/ GoOn(i) \/ Complete(i) \/ Leave(i)
             \/ \E t \in Targets : Issue(i, t)
    BY <2>6 DEF PassBy, GoOn, Complete, Leave, Issue
  <2>7. ASSUME NEW p \in Ops, NEW u \in Ops, AdmitUpper(i, p) \/ AdmitLower(i, u, p)
        PROVE  op'[o] = op[o]
    <3>1. p # o
      BY <2>7
    <3>2. AdmitLower(i, u, p) => u # o
      BY <1>1 DEF AdmitLower
    <3>3. QED
      BY <1>1, <2>7, <3>1, <3>2 DEF AdmitUpper, AdmitLower
  <2>8. QED
    BY <1>11, <2>3, <2>4, <2>5, <2>6, <2>7 DEF Request
<1>12. ASSUME NEW t \in Threads, LetGo(t) PROVE op'[o] = op[o]
  <2>1. CASE DropReference(t)
    BY <1>4, <2>1, DropperHasOne DEF DropReference
  <2>2. CASE Unlink(t)
    BY <1>4, <2>2, UnlinkedIsUnused DEF Unlink
  <2>3. QED
    BY <1>12, <2>1, <2>2 DEF LetGo
<1>13. CASE Watch \/ Worker
  <2>1. CASE Retire
    BY <1>2, <2>1 DEF Retire
  <2>2. CASE Finish
    <3>1. wop \in Live
      BY <2>2 DEF Finish, IInv, CoreOk, WorkerOk, Holding
    <3>2. QED
      BY <1>5, <2>2, <3>1, ThreadsDiffer DEF Finish
  <2>3. CASE \/ Watch \/ Sense \/ WaitEnds \/ Take \/ NoWork \/ Decide \/ Settle
             \/ WorkerDrop \/ Done
    BY <2>3 DEF Watch, Sense, WaitEnds, Take, NoWork, Decide, Settle, WorkerDrop,
       Done
  <2>4. QED
    BY <1>13, <2>1, <2>2, <2>3 DEF Worker
<1>14. CASE Stop \/ Join \/ Unregister
  BY <1>2, <1>14 DEF Stop, Join, Unregister
<1>15. QED
  BY <1>7, <1>8, <1>9, <1>10, <1>11, <1>12, <1>13, <1>14 DEF Next

\* An operation is published for the present owner, topology and arm
\* (AllocateUpper, AllocateLower).
THEOREM PublishedIsCurrent == Spec => NewWorkIsCurrent
<1>1. IInv /\ [Next]_vars => [NewIsCurrent]_vars
  <2> SUFFICES ASSUME IInv, Next, NEW o \in Ops, ~ op[o].live, op'[o].live
               PROVE  /\ op'[o].owner = owner /\ op'[o].gen = topology
                      /\ Open(op'[o].level)
                      /\ \A p \in Live : /\ op[p].owner = owner
                                         /\ op[p].gen = topology
                                         /\ op[p].target = op'[o].target
    BY DEF NewIsCurrent
  <2>1. op \in [Ops -> Operations \cup {Free}] /\ ArmOk
    BY DEF IInv, TypeOK
  <2>2. ASSUME NEW i \in Ios, AdmitUpper(i, o)
        PROVE  /\ op'[o].owner = owner /\ op'[o].gen = topology
               /\ Open(op'[o].level)
               /\ \A p \in Live : /\ op[p].owner = owner
                                  /\ op[p].gen = topology
                                  /\ op[p].target = op'[o].target
    <3>1. op'[o] = Operation("upper", i, arm.target, arm.mode, owner, arm.gen)
      BY <2>1, <2>2 DEF AdmitUpper
    <3>2. arm # NoArm /\ Open("upper")
      BY <2>2, ArmedIs DEF AdmitUpper, Entered, Armed
    <3>3. QED
      BY <2>1, <3>1, <3>2 DEF Operation, ArmOk
  <2>3. ASSUME NEW i \in Ios, NEW u \in Ops, AdmitLower(i, u, o)
        PROVE  /\ op'[o].owner = owner /\ op'[o].gen = topology
               /\ Open(op'[o].level)
               /\ \A p \in Live : /\ op[p].owner = owner
                                  /\ op[p].gen = topology
                                  /\ op[p].target = op'[o].target
    <3>1. op'[o] = Operation("lower", i, io[i].proc, LowerMode(op[u].mode),
                             op[u].owner, op[u].gen)
      BY <2>1, <2>3 DEF AdmitLower
    <3>2. /\ u \in Live /\ op[u].owner = owner /\ op[u].gen = topology
          /\ op[u].target = io[i].proc /\ Open("lower")
      BY <2>3 DEF AdmitLower, Claims
    <3>3. QED
      BY <2>1, <3>1, <3>2 DEF Operation, ArmOk
  <2>4. QED
    BY <2>2, <2>3, OnlyAdmitsPublish
<1>2. QED
  BY <1>1, Invariance, PTL DEF Spec, NewWorkIsCurrent

\* One request's change, as the file system sees it.
LEMMA HeldChange ==
  ASSUME NEW i \in Ios, \A j \in Ios : j # i => io'[j].phase = io[j].phase
  PROVE  Pended' = IF io'[i].phase = "pended" THEN Pended \cup {i} ELSE Pended \ {i}
BY DEF Pended

\* A request is held, or not, as it was.
LEMMA HeldStays ==
  ASSUME \A j \in Ios : io'[j].phase = "pended" <=> io[j].phase = "pended"
  PROVE  Pended' = Pended
BY DEF Pended

\* A request's own steps hold it back, or nothing changes.
LEMMA RequestRefines ==
  ASSUME IInv, NEW i \in Ios, Request(i) \/ \E t \in Targets : Issue(i, t)
  PROVE  \/ Pended' = Pended
         \/ stage = "loaded" /\ i \notin Pended /\ Pended' = Pended \cup {i}
<1>1. io \in [Ios -> Requests]
  BY DEF IInv, TypeOK
<1>2. io[i] \in Requests
  BY <1>1
<1>3. CASE QueuePre(i) \/ QueuePost(i)
  <2>1. io[i].phase \in {"admitted", "post"} /\ stage = "loaded"
    BY <1>3 DEF QueuePre, QueuePost, Queueable, Open
  <2>2. CASE QueuePre(i)
    <3> DEFINE b == i \in Reads
               r == [io[i] EXCEPT !.phase = "pended", !.pinned = b]
    <3>1. io' = [io EXCEPT ![i] = r]
      BY <2>2 DEF QueuePre, IInv, TypeOK
    <3>2. r.phase = "pended"
      <4> HIDE DEF b
      <4>1. QED
        BY <1>2 DEF Requests
    <3> HIDE DEF r
    <3>3. QED
      BY <1>1, <2>1, <3>1, <3>2, HeldChange DEF Pended
  <2>3. CASE QueuePost(i)
    <3> DEFINE x == [io[i].ctx EXCEPT ![io[i].level] = None]
               r == [io[i] EXCEPT !.phase = "pended", !.ctx = x]
    <3>1. io' = [io EXCEPT ![i] = r]
      BY <2>3 DEF QueuePost, IInv, TypeOK
    <3>2. r.phase = "pended"
      <4> HIDE DEF x
      <4>1. QED
        BY <1>2 DEF Requests
    <3> HIDE DEF r
    <3>3. QED
      BY <1>1, <2>1, <3>1, <3>2, HeldChange DEF Pended
  <2>4. QED
    BY <1>3, <2>2, <2>3
<1>4. ASSUME io[i].phase # "pended", io'[i].phase # "pended",
             \A j \in Ios : j # i => io'[j] = io[j]
      PROVE  Pended' = Pended
  <2>1. \A j \in Ios : io'[j].phase = "pended" <=> io[j].phase = "pended"
    BY <1>4
  <2>2. QED
    BY <2>1, HeldStays
<1>5. CASE LockFails(i) \/ FinishPost(i)
  BY <1>1, <1>2, <1>4, <1>5 DEF LockFails, FinishPost, Requests
<1>6. CASE \E o \in Ops : AdmitUpper(i, o) \/ \E u \in Ops : AdmitLower(i, u, o)
  BY <1>1, <1>2, <1>4, <1>6 DEF AdmitUpper, AdmitLower, Entered, Requests
<1>7. CASE PassBy(i) \/ AdmitFails(i)
  <2>1. io[i].phase = "pre" /\ io' = [io EXCEPT ![i] = Down(i, io[i])]
    BY <1>7 DEF PassBy, AdmitFails, Entered
  <2>2. Down(i, io[i]).phase # "pended"
    BY <1>2, DownGives
  <2>3. QED
    BY <1>1, <1>4, <2>1, <2>2
<1>8. CASE GoOn(i)
  <2> DEFINE q == [io[i] EXCEPT !.ctx[io[i].level] = io[i].cur]
  <2>1. io[i].phase = "admitted" /\ io' = [io EXCEPT ![i] = Down(i, q)]
    BY <1>8 DEF GoOn
  <2>2. Down(i, q).phase \in {"pre", "device"}
    BY <1>2 DEF Down, Requests
  <2>3. QED
    BY <1>1, <1>4, <2>1, <2>2
<1>9. CASE Leave(i)
  <2>1. io[i].phase = "leaving" /\ io' = [io EXCEPT ![i] = Up(io[i])]
    BY <1>9 DEF Leave
  <2>2. Up(io[i]).phase # "pended"
    BY <1>2, UpGives DEF Idle
  <2>3. QED
    BY <1>1, <1>4, <2>1, <2>2
<1>10. CASE Complete(i)
  <2> DEFINE p == [io[i] EXCEPT !.phase = "post"]
  <2>1. /\ io[i].phase = "device"
        /\ io' = [io EXCEPT ![i] = p] \/ io' = [io EXCEPT ![i] = Up(io[i])]
    BY <1>10 DEF Complete
  <2>2. Up(io[i]).phase # "pended" /\ p.phase = "post"
    BY <1>2, UpGives DEF Idle, Requests
  <2> HIDE DEF p
  <2>3. QED
    BY <1>1, <1>4, <2>1, <2>2
<1>11. CASE \E t \in Targets : Issue(i, t)
  <2>1. PICK t \in Targets, l \in Levels :
          io' = [io EXCEPT ![i] = [Idle EXCEPT !.phase = "pre", !.level = l,
                                               !.proc = t]]
    BY <1>11 DEF Issue
  <2>2. io'[i].phase = "pre" /\ \A j \in Ios : j # i => io'[j] = io[j]
    BY <1>1, <2>1 DEF Idle
  <2>3. io[i].phase = "idle"
    BY <1>11 DEF Issue
  <2>4. QED
    BY <1>4, <2>2, <2>3
<1>12. QED
  BY <1>3, <1>5, <1>6, <1>7, <1>8, <1>9, <1>10, <1>11 DEF Request

\* The worker gives one request back, or nothing changes.
LEMMA SettleRefines ==
  ASSUME IInv, Settle
  PROVE  \E i \in Pended : Pended' = Pended \ {i}
<1>1. PICK i \in Ios, r \in Requests :
        /\ wop \in Undone /\ op[wop].data = i
        /\ io' = [io EXCEPT ![i] = r]
        /\ GivenBack(i, wop, r)
  BY SettleGives
<1>2. i \in Pended
  BY <1>1 DEF IInv, CoreOk, UndoneOk, HeldIsInHand
<1>3. io'[i] = r /\ \A j \in Ios : j # i => io'[j] = io[j]
  BY <1>1, OneRequest DEF IInv
<1>4. r.phase # "pended"
  BY <1>1 DEF GivenBack
<1>5. QED
  BY <1>2, <1>3, <1>4, HeldChange

\* With the worker gone nothing is held.
LEMMA JoinedHoldsNothing == IInv /\ wpc = "exited" => Pended = {}
<1> SUFFICES ASSUME IInv, wpc = "exited" PROVE Pended = {}
  OBVIOUS
<1>1. queue = <<>> /\ ~ InHand
  BY DEF IInv, CoreOk, WorkerOk, InHand
<1>2. Undone = {}
  BY <1>1, QueueEmpty DEF Undone
<1>3. QED
  BY <1>2 DEF IInv, CoreOk, UndoneOk, HeldIsInHand

\* The fixture implements the promise of HeldRequests: each request is held at
\* most once at a time, none after the stop, and the worker is joined only when
\* every one has been given back.
THEOREM KeepsPromise == Spec => ImplementsHeldRequests
<1>1. Init => Promise!Init
  BY DEF Init, Promise!Init, Pended, Idle
<1>2. IInv /\ [Next]_vars => [Promise!Next]_(Promise!heldVars)
  <2> SUFFICES ASSUME IInv, [Next]_vars
               PROVE  Promise!Next \/ UNCHANGED Promise!heldVars
    OBVIOUS
  <2>1. ASSUME Pended' = Pended, stage' = stage
        PROVE  UNCHANGED Promise!heldVars
    BY <2>1 DEF Promise!heldVars
  <2>2. ASSUME UNCHANGED <<io, stage>>
        PROVE  UNCHANGED Promise!heldVars
    BY <2>1, <2>2 DEF Pended
  <2>3. ASSUME NEW c \in ClientIds, Port(c) \/ Reply(c)
        PROVE  UNCHANGED Promise!heldVars
    BY <2>2, <2>3 DEF Port, Reply, Connect, Disconnect, Resume, Release,
       ClientExit, ArmOne, ArmBatch, Arm
  <2>4. ASSUME NEW t \in Targets, TargetExit(t) \/ Signal(t)
        PROVE  UNCHANGED Promise!heldVars
    BY <2>2, <2>4 DEF TargetExit, Signal
  <2>5. ASSUME NEW l \in Levels, Setup(l) \/ TeardownStart(l) \/ TeardownComplete(l)
        PROVE  UNCHANGED Promise!heldVars
    BY <2>2, <2>5 DEF Setup, TeardownStart, TeardownComplete
  <2>6. ASSUME NEW l \in Levels, NEW i \in Ios, Drain(l, i)
        PROVE  UNCHANGED Promise!heldVars
    <3>1. \A j \in Ios : io'[j].phase = io[j].phase
      BY <2>6 DEF Drain, IInv, TypeOK, Requests
    <3>2. QED
      BY <2>1, <2>6, <3>1, HeldStays DEF Drain
  <2>7. ASSUME NEW i \in Ios, Request(i) \/ \E t \in Targets : Issue(i, t)
        PROVE  Promise!Next \/ UNCHANGED Promise!heldVars
    <3>1. stage' = stage
      BY <2>7 DEF Request, Issue, AdmitUpper, AdmitLower, AdmitFails, PassBy,
         QueuePre, LockFails, GoOn, Complete, QueuePost, FinishPost, Leave
    <3>2. CASE Pended' = Pended
      BY <2>1, <3>1, <3>2
    <3>3. CASE stage = "loaded" /\ i \notin Pended /\ Pended' = Pended \cup {i}
      BY <3>1, <3>3 DEF Promise!Next, Promise!Hold
    <3>4. QED
      BY <2>7, <3>2, <3>3, RequestRefines
  <2>8. ASSUME NEW t \in Threads, LetGo(t) PROVE UNCHANGED Promise!heldVars
    BY <2>2, <2>8 DEF LetGo, DropReference, Unlink
  <2>9. CASE Settle
    <3>1. PICK i \in Pended : Pended' = Pended \ {i}
      BY <2>9, SettleRefines
    <3>2. stage' = stage /\ i \in Ios
      BY <2>9, <3>1 DEF Settle, Pended
    <3>3. QED
      BY <3>1, <3>2 DEF Promise!Next, Promise!GiveBack
  <2>10. CASE \/ Watch \/ Retire \/ Sense \/ WaitEnds \/ Take \/ NoWork \/ Decide
              \/ Finish \/ WorkerDrop \/ Done
    BY <2>2, <2>10 DEF Watch, Retire, Sense, WaitEnds, Take, NoWork, Decide, Finish,
       WorkerDrop, Done
  <2>11. CASE Stop
    <3>1. Pended' = Pended
      BY <2>11 DEF Stop, Pended
    <3>2. QED
      BY <2>11, <3>1 DEF Stop, Promise!Next, Promise!Stop
  <2>12. CASE Join
    <3>1. Pended = {} /\ Pended' = Pended
      BY <2>12, JoinedHoldsNothing DEF Join, Pended
    <3>2. QED
      BY <2>12, <3>1 DEF Join, Promise!Next, Promise!End
  <2>13. CASE Unregister
    <3>1. Pended' = Pended
      BY <2>13 DEF Unregister, Pended
    <3>2. QED
      BY <2>13, <3>1 DEF Unregister, Promise!heldVars
  <2>14. CASE UNCHANGED vars
    BY <2>2, <2>14 DEF vars
  <2>15. QED
    BY <2>3, <2>4, <2>5, <2>6, <2>7, <2>8, <2>9, <2>10, <2>11, <2>12, <2>13, <2>14
       DEF Next, Worker
<1>3. QED
  BY <1>1, <1>2, Invariance, PTL DEF Spec, ImplementsHeldRequests, Promise!Spec

-------------------------------------------------------------------------------
(* Unload leaves nothing behind *)

\* The requests stay: what the worker has, and what is being freed, is all that
\* changes.
LEMMA IoStaysKept ==
  ASSUME KeptOk, io' = io,
         \A p \in Live' : ~ op'[p].released =>
           /\ p \in Live /\ ~ op[p].released
           /\ AtWorker(p) => AtWorker(p)',
         \A p \in Live' : op'[p].refs = 0 => BeingFreed(p)'
  PROVE  KeptOk'
<1> SUFFICES ASSUME NEW p \in Live', ~ op'[p].released PROVE Kept(p)'
  BY DEF KeptOk
<1>1. Kept(p)
  BY DEF KeptOk
<1>2. QED
  BY <1>1 DEF Kept, Has

\* The operations change only what their being kept does not depend on.
LEMMA OpsStayKept ==
  ASSUME KeptOk, UNCHANGED <<io, tail>>, Live' = Live,
         \A p \in Live : op'[p].released = op[p].released /\ op'[p].refs = op[p].refs,
         \A p \in Live : AtWorker(p) => AtWorker(p)'
  PROVE  KeptOk'
<1>1. \A p \in Live' : op'[p].refs = 0 => BeingFreed(p)'
  BY DEF KeptOk, BeingFreed
<1>2. QED
  BY <1>1, IoStaysKept

\* A request that is r is in no instance that is not there, and carries nothing
\* when it has ended.
Outside(r) ==
  \A l \in Levels : instance[l] = "absent" =>
    /\ r.ctx[l] = None
    /\ r.phase \in {"pre", "admitted", "pended", "post", "leaving"} => r.level # l
Ended(r) == r.phase = "idle" => \A l \in Levels : r.ctx[l] = None

\* A request changes to r: instances that are not there stay empty, ...
LEMMA RequestStaysOut ==
  ASSUME TypeOK, AbsentOk, NEW i \in Ios, NEW r \in Requests,
         io' = [io EXCEPT ![i] = r], instance' = instance, Outside(r),
         \A l \in Levels : instance[l] = "absent" => tail'[l] = tail[l]
  PROVE  AbsentOk'
<1>1. io'[i] = r /\ \A j \in Ios : j # i => io'[j] = io[j]
  BY OneRequest
<1>2. QED
  BY <1>1 DEF AbsentOk, NotIn, Outside

\* ... and what it had, it still has, or the worker has it, or it was released.
LEMMA RequestKeepsKept ==
  ASSUME TypeOK, KeptOk, NEW i \in Ios, NEW r \in Requests,
         io' = [io EXCEPT ![i] = r], Ended(r),
         \A p \in Live' : ~ op'[p].released =>
           \/ Has(r, p) \/ AtWorker(p)'
           \/ /\ p \in Live /\ ~ op[p].released
              /\ ~ Has(io[i], p) /\ ~ AtWorker(p),
         \A p \in Live' : op'[p].refs = 0 => p \in Live /\ op[p].refs = 0,
         \A t \in Threads : tail[t].at = "unlink" => tail'[t] = tail[t]
  PROVE  KeptOk'
<1>1. io'[i] = r /\ \A j \in Ios : j # i => io'[j] = io[j]
  BY OneRequest
<1>2. ASSUME NEW p \in Live', ~ op'[p].released PROVE Kept(p)'
  <2>1. CASE Has(r, p)
    <3>1. Has(io'[i], p)
      BY <1>1, <2>1
    <3>2. Has(io[i], p)'
      BY <3>1 DEF Has
    <3>3. QED
      BY <3>2 DEF Kept
  <2>2. CASE AtWorker(p)'
    BY <2>2 DEF Kept
  <2>3. CASE /\ p \in Live /\ ~ op[p].released
             /\ ~ Has(io[i], p) /\ ~ AtWorker(p)
    <3>1. PICK j \in Ios : Has(io[j], p)
      BY <2>3 DEF KeptOk, Kept
    <3>2. Has(io[j], p)'
      BY <1>1, <2>3, <3>1 DEF Has
    <3>3. QED
      BY <3>2 DEF Kept
  <2>4. QED
    BY <1>2, <2>1, <2>2, <2>3
<1>3. ASSUME NEW p \in Live', op'[p].refs = 0 PROVE BeingFreed(p)'
  <2>1. PICK t \in Threads : tail[t].at = "unlink" /\ tail[t].op = p
    BY <1>3 DEF KeptOk, BeingFreed
  <2>2. QED
    BY <2>1 DEF BeingFreed
<1>4. \A j \in Ios : io'[j].phase = "idle" => \A l \in Levels : io'[j].ctx[l] = None
  BY <1>1 DEF KeptOk, Ended
<1>5. QED
  BY <1>2, <1>3, <1>4 DEF KeptOk

\* A request goes on with all that it has.
LEMMA RequestPasses ==
  ASSUME IInv, AbsentOk, KeptOk, NEW i \in Ios, NEW r \in Requests,
         io' = [io EXCEPT ![i] = r], Outside(r), Ended(r),
         \A p \in Ops : Has(io[i], p) => Has(r, p),
         UNCHANGED <<instance, queue, tail, wpc, wop>>, Live' = Live,
         \A p \in Live : op'[p].released = op[p].released /\ op'[p].refs = op[p].refs
  PROVE  AbsentOk' /\ KeptOk'
<1>1. TypeOK /\ Live \subseteq Ops
  BY LiveOps DEF IInv
<1>2. AbsentOk'
  BY <1>1, RequestStaysOut
<1>3. \A p \in Ops : AtWorker(p)' = AtWorker(p)
  BY DEF AtWorker, Undone, InHand
<1>4. KeptOk'
  <2>1. \A p \in Live' : ~ op'[p].released =>
          \/ Has(r, p) \/ AtWorker(p)'
          \/ /\ p \in Live /\ ~ op[p].released
             /\ ~ Has(io[i], p) /\ ~ AtWorker(p)
    BY <1>1, <1>3
  <2>2. QED
    BY <1>1, <2>1, RequestKeepsKept
<1>5. QED
  BY <1>2, <1>4

\* Down and up, a request keeps what it has, and keeps out.
LEMMA DownPasses ==
  ASSUME AbsentOk, NEW i \in Ios, NEW r \in Requests, r.phase # "admitted",
         \A l \in Levels : instance[l] = "absent" => r.ctx[l] = None
  PROVE  /\ Outside(Down(i, r)) /\ Ended(Down(i, r))
         /\ \A p \in Ops : Has(r, p) => Has(Down(i, r), p)
<1> DEFINE d == Down(i, r)
<1>1. /\ d.phase \in {"pre", "device"} /\ d.level = "lower" /\ d.ctx = r.ctx
  BY DownGives
<1>2. d.phase = "pre" => instance["lower"] = "attached"
  BY DEF Down, Requests
<1> HIDE DEF d
<1>3. Outside(d) /\ Ended(d)
  BY <1>1, <1>2 DEF Outside, Ended, Levels
<1>4. \A p \in Ops : Has(r, p) => Has(d, p)
  BY <1>1 DEF Has
<1>5. QED
  BY <1>3, <1>4 DEF d

\* A request on its way up keeps what it has, and keeps out, too.
LEMMA UpPasses ==
  ASSUME NEW r \in Requests, r.phase # "admitted",
         r.ctx["lower"] = None, r.level = "upper" => r.ctx["upper"] = None,
         \A l \in Levels : instance[l] = "absent" => r.ctx[l] = None
  PROVE  /\ Outside(Up(r)) /\ Ended(Up(r))
         /\ \A p \in Ops : Has(r, p) => Has(Up(r), p)
<1> DEFINE u == Up(r)
<1>1. \/ u = Idle /\ ~ (r.level = "lower" /\ r.ctx["upper"] # None)
      \/ /\ u.phase = "post" /\ u.level = "upper" /\ r.ctx["upper"] # None
         /\ u.ctx["upper"] = r.ctx["upper"] /\ u.ctx["lower"] = None
  <2>1. CASE r.level = "lower" /\ r.ctx["upper"] # None
    <3>1. u # Idle
      BY <2>1 DEF Up, Requests, Idle
    <3>2. QED
      BY <3>1, UpGives
  <2>2. CASE ~ (r.level = "lower" /\ r.ctx["upper"] # None)
    BY <2>2 DEF Up
  <2>3. QED
    BY <2>1, <2>2
<1>2. r.level \in Levels
  BY DEF Requests
<1> HIDE DEF u
<1>3. Outside(u) /\ Ended(u)
  BY <1>1 DEF Outside, Ended, Idle, NoContext, Levels
<1>4. ASSUME NEW p \in Ops, Has(r, p) PROVE Has(u, p)
  <2>1. p # None
    BY SetsAssumption
  <2>2. r.ctx["upper"] = p
    BY <1>4, <2>1 DEF Has, Levels
  <2>3. u.ctx["upper"] = p
    BY <1>1, <1>2, <2>1, <2>2 DEF Levels
  <2>4. QED
    BY <2>3 DEF Has, Levels
<1>5. QED
  BY <1>3, <1>4 DEF u

\* What unload relies on stays when nothing of it moves.
RestOfUnload == UNCHANGED <<instance, queue, tail, wpc, wop>>

\* Steps of a request that leave the operations as they are.
LEMMA RequestMovesUnload ==
  ASSUME IInv, AbsentOk, KeptOk, NEW i \in Ios,
         \/ PassBy(i) \/ AdmitFails(i) \/ GoOn(i) \/ Complete(i) \/ Leave(i)
         \/ \E t \in Targets : Issue(i, t)
  PROVE  AbsentOk' /\ KeptOk'
<1>1. /\ io[i] \in Requests /\ Fits(i, io[i]) /\ io[i].level \in Levels
      /\ io[i].ctx \in [Levels -> Ops \cup {None}]
  BY RequestFacts
<1>2. \A l \in Levels : instance[l] = "absent" =>
        /\ io[i].ctx[l] = None
        /\ io[i].phase \in {"pre", "admitted", "pended", "post", "leaving"}
             => io[i].level # l
  BY DEF AbsentOk, NotIn
<1>3. CASE PassBy(i) \/ AdmitFails(i)
  <2>1. io[i].phase = "pre" /\ io' = [io EXCEPT ![i] = Down(i, io[i])] /\ RestOfUnload
    BY <1>3 DEF PassBy, AdmitFails, Entered, RestOfUnload, armVars, workerVars
  <2>2. Live' = Live /\ \A p \in Live : op'[p].released = op[p].released
                                     /\ op'[p].refs = op[p].refs
    <3>1. CASE op' = op
      BY <3>1 DEF Live
    <3>2. ASSUME NEW u \in Live, op' = [op EXCEPT ![u].claimed = TRUE]
          PROVE  Live' = Live /\ \A p \in Live : op'[p].released = op[p].released
                                              /\ op'[p].refs = op[p].refs
      <4>1. Live' = Live /\ \A p \in Live : Keeps(p) /\ op'[p].refs = op[p].refs
        BY <3>2, ClaimChanges DEF IInv
      <4>2. QED
        BY <4>1 DEF Keeps
    <3>3. QED
      BY <1>3, <3>1, <3>2 DEF PassBy, AdmitFails
  <2>3. Down(i, io[i]) \in Requests
    BY <1>1, DownGives
  <2>4. /\ Outside(Down(i, io[i])) /\ Ended(Down(i, io[i]))
        /\ \A p \in Ops : Has(io[i], p) => Has(Down(i, io[i]), p)
    BY <1>1, <1>2, <2>1, DownPasses
  <2>5. QED
    BY <2>1, <2>2, <2>3, <2>4, RequestPasses DEF RestOfUnload
<1>4. ASSUME GoOn(i) PROVE AbsentOk' /\ KeptOk'
  <2> DEFINE x == [io[i].ctx EXCEPT ![io[i].level] = io[i].cur]
             q == [io[i] EXCEPT !.ctx[io[i].level] = io[i].cur]
  <2>1. /\ io[i].phase = "admitted" /\ RestOfUnload /\ UNCHANGED op
        /\ io' = [io EXCEPT ![i] = Down(i, q)]
    BY <1>4 DEF GoOn, RestOfUnload, armVars, workerVars
  <2>2. io[i].cur \in Ops
    BY <1>1, <2>1 DEF Fits, Carries, Live
  <2>3. /\ x \in [Levels -> Ops \cup {None}] /\ x[io[i].level] = io[i].cur
        /\ \A l \in Levels : l # io[i].level => x[l] = io[i].ctx[l]
    BY <1>1, <2>2
  <2>4. q = [io[i] EXCEPT !.ctx = x]
    BY <1>1 DEF Requests
  <2> HIDE DEF x
  <2>5. q \in Requests /\ q.ctx = x /\ q.level = io[i].level /\ q.phase = "admitted"
    BY <1>1, <2>1, <2>3, <2>4 DEF Requests
  <2> HIDE DEF q
  <2> DEFINE d == Down(i, q)
  <2>6. /\ d \in Requests /\ d.phase \in {"pre", "device"} /\ d.level = "lower"
        /\ d.ctx = x
    BY <2>5, DownGives
  <2>7. d.phase = "pre" => instance["lower"] = "attached"
    BY <2>5 DEF Down, Requests
  <2> HIDE DEF d
  <2>8. Outside(d) /\ Ended(d)
    BY <1>2, <2>1, <2>3, <2>6, <2>7 DEF Outside, Ended, Levels
  <2>9. ASSUME NEW o \in Ops, Has(io[i], o) PROVE Has(d, o)
    <3>1. io[i].ctx[io[i].level] = None /\ o # None
      BY <1>1, <2>1, SetsAssumption DEF Fits
    <3>2. \/ io[i].cur = o
          \/ \E l \in Levels : l # io[i].level /\ io[i].ctx[l] = o
      BY <2>9, <3>1 DEF Has
    <3>3. QED
      BY <1>1, <2>3, <2>6, <3>2 DEF Has
  <2>10. Live' = Live /\ \A o \in Live : op'[o].released = op[o].released
                                      /\ op'[o].refs = op[o].refs
    BY <2>1 DEF Live
  <2>11. io' = [io EXCEPT ![i] = d]
    BY <2>1 DEF d
  <2>12. QED
    BY <2>1, <2>6, <2>8, <2>9, <2>10, <2>11, RequestPasses DEF RestOfUnload
<1>5. ASSUME io[i].phase \in {"device", "leaving"},
             io' = [io EXCEPT ![i] = Up(io[i])], RestOfUnload, UNCHANGED op,
             io[i].phase = "device" => io[i].ctx["lower"] = None
      PROVE  AbsentOk' /\ KeptOk'
  <2>1. io[i].ctx["lower"] = None /\ (io[i].level = "upper" => io[i].ctx["upper"] = None)
    BY <1>1, <1>5 DEF Fits, Levels
  <2>2. /\ Outside(Up(io[i])) /\ Ended(Up(io[i]))
        /\ \A o \in Ops : Has(io[i], o) => Has(Up(io[i]), o)
    BY <1>1, <1>2, <1>5, <2>1, UpPasses
  <2>3. Up(io[i]) \in Requests
    BY <1>1, UpGives
  <2>4. Live' = Live /\ \A o \in Live : op'[o].released = op[o].released
                                     /\ op'[o].refs = op[o].refs
    BY <1>5 DEF Live
  <2>5. QED
    BY <1>5, <2>2, <2>3, <2>4, RequestPasses DEF RestOfUnload
<1>6. ASSUME Leave(i) PROVE AbsentOk' /\ KeptOk'
  BY <1>5, <1>6 DEF Leave, RestOfUnload, armVars, workerVars
<1>7. ASSUME Complete(i) PROVE AbsentOk' /\ KeptOk'
  <2>1. CASE io[i].ctx["lower"] = None
    BY <1>5, <1>7, <2>1 DEF Complete, RestOfUnload, armVars, workerVars
  <2>2. CASE io[i].ctx["lower"] # None
    <3> DEFINE r == [io[i] EXCEPT !.phase = "post"]
    <3>1. /\ io[i].phase = "device" /\ io' = [io EXCEPT ![i] = r]
          /\ RestOfUnload /\ UNCHANGED op
      BY <1>7, <2>2 DEF Complete, RestOfUnload, armVars, workerVars
    <3>2. /\ r \in Requests /\ r.phase = "post" /\ r.ctx = io[i].ctx
          /\ r.level = "lower"
      BY <1>1, <3>1 DEF Requests, Phases, Fits
    <3> HIDE DEF r
    <3>3. Outside(r) /\ Ended(r)
      BY <1>2, <2>2, <3>2 DEF Outside, Ended, Levels
    <3>4. \A o \in Ops : Has(io[i], o) => Has(r, o)
      BY <3>1, <3>2 DEF Has
    <3>5. Live' = Live /\ \A o \in Live : op'[o].released = op[o].released
                                       /\ op'[o].refs = op[o].refs
      BY <3>1 DEF Live
    <3>6. QED
      BY <3>1, <3>2, <3>3, <3>4, <3>5, RequestPasses DEF RestOfUnload
  <2>3. QED
    BY <2>1, <2>2
<1>8. ASSUME NEW t \in Targets, Issue(i, t) PROVE AbsentOk' /\ KeptOk'
  <2>1. PICK l \in Levels :
          /\ instance[l] = "attached"
          /\ io' = [io EXCEPT ![i] = [Idle EXCEPT !.phase = "pre", !.level = l,
                                                  !.proc = t]]
    BY <1>8 DEF Issue
  <2> DEFINE r == [Idle EXCEPT !.phase = "pre", !.level = l, !.proc = t]
  <2>2. /\ r \in Requests /\ r.phase = "pre" /\ r.level = l
        /\ \A k \in Levels : r.ctx[k] = None
    BY DEF Idle, Requests, NoContext, Phases, Levels
  <2>3. /\ io[i].phase = "idle" /\ RestOfUnload /\ UNCHANGED op
    BY <1>8 DEF Issue, RestOfUnload, armVars, workerVars
  <2> HIDE DEF r
  <2>4. Outside(r) /\ Ended(r)
    BY <2>1, <2>2 DEF Outside, Ended
  <2>5. \A o \in Ops : ~ Has(io[i], o)
    BY <2>3, SetsAssumption DEF Has, KeptOk
  <2>6. Live' = Live /\ \A o \in Live : op'[o].released = op[o].released
                                     /\ op'[o].refs = op[o].refs
    BY <2>3 DEF Live
  <2>7. io' = [io EXCEPT ![i] = r]
    BY <2>1 DEF r
  <2>8. QED
    BY <2>2, <2>3, <2>4, <2>5, <2>6, <2>7, RequestPasses DEF RestOfUnload
<1>9. QED
  BY <1>3, <1>4, <1>6, <1>7, <1>8

\* An operation is published for a request, which has it.
LEMMA AdmitUnload ==
  ASSUME IInv, AbsentOk, KeptOk, NEW i \in Ios, NEW o \in Ops, o \notin Live,
         io[i].phase = "pre",
         io' = [io EXCEPT ![i].phase = "admitted", ![i].cur = o],
         RestOfUnload, Live' = Live \cup {o}, op'[o].refs = 1,
         \A p \in Live : op'[p].released = op[p].released /\ op'[p].refs = op[p].refs
  PROVE  AbsentOk' /\ KeptOk'
<1>1. TypeOK
  BY DEF IInv
<1> DEFINE r == [io[i] EXCEPT !.phase = "admitted", !.cur = o]
<1>2. /\ io' = [io EXCEPT ![i] = r] /\ r \in Requests
      /\ r.phase = "admitted" /\ r.cur = o
      /\ r.level = io[i].level /\ r.ctx = io[i].ctx
  <2>1. io[i] \in Requests /\ io' = [io EXCEPT ![i] = r]
    BY <1>1 DEF TypeOK
  <2>2. QED
    BY <2>1 DEF Requests, Phases
<1> HIDE DEF r
<1>3. Outside(r) /\ Ended(r)
  BY <1>2 DEF Outside, Ended, AbsentOk, NotIn
<1>4. AbsentOk'
  BY <1>1, <1>2, <1>3, RequestStaysOut DEF RestOfUnload
<1>5. Has(r, o) /\ \A p \in Ops : Has(io[i], p) => Has(r, p)
  BY <1>2 DEF Has
<1>6. \A p \in Ops : AtWorker(p)' = AtWorker(p)
  BY DEF AtWorker, Undone, InHand, RestOfUnload
<1>7. \A p \in Live' : ~ op'[p].released =>
        \/ Has(r, p) \/ AtWorker(p)'
        \/ /\ p \in Live /\ ~ op[p].released
           /\ ~ Has(io[i], p) /\ ~ AtWorker(p)
  BY <1>1, <1>5, <1>6, LiveOps
<1>8. \A p \in Live' : op'[p].refs = 0 => p \in Live /\ op[p].refs = 0
  OBVIOUS
<1>9. \A t \in Threads : tail[t].at = "unlink" => tail'[t] = tail[t]
  BY DEF RestOfUnload
<1>10. KeptOk'
  BY <1>1, <1>2, <1>3, <1>7, <1>8, <1>9, RequestKeepsKept
<1>11. QED
  BY <1>4, <1>10

\* Both instances publish their operations like that.
LEMMA AdmitsUnload ==
  ASSUME IInv, AbsentOk, KeptOk, NEW i \in Ios, NEW o \in Ops,
         AdmitUpper(i, o) \/ \E u \in Ops : AdmitLower(i, u, o)
  PROVE  AbsentOk' /\ KeptOk'
<1>1. TypeOK
  BY DEF IInv
<1>2. CASE AdmitUpper(i, o)
  <2> DEFINE x == Operation("upper", i, arm.target, arm.mode, owner, arm.gen)
  <2>1. /\ io[i].phase = "pre" /\ o \in Ops \ Live /\ RestOfUnload
        /\ io' = [io EXCEPT ![i].phase = "admitted", ![i].cur = o]
        /\ op' = [op EXCEPT ![o] = x]
    BY <1>2 DEF AdmitUpper, Entered, RestOfUnload, workerVars
  <2>2. x.live /\ x.refs = 1
    BY DEF Operation
  <2> HIDE DEF x
  <2>3. op'[o] = x /\ \A p \in Ops : p # o => op'[p] = op[p]
    BY <1>1, <2>1 DEF TypeOK
  <2>4. /\ Live' = Live \cup {o} /\ op'[o].refs = 1
        /\ \A p \in Live : op'[p].released = op[p].released /\ op'[p].refs = op[p].refs
    BY <2>1, <2>2, <2>3 DEF Live
  <2>5. QED
    BY <2>1, <2>4, AdmitUnload
<1>3. ASSUME NEW u \in Ops, AdmitLower(i, u, o) PROVE AbsentOk' /\ KeptOk'
  <2> DEFINE x == Operation("lower", i, io[i].proc, LowerMode(op[u].mode),
                            op[u].owner, op[u].gen)
             c == [op[u] EXCEPT !.claimed = TRUE]
  <2>1. /\ io[i].phase = "pre" /\ u \in Live /\ o \in Ops \ Live /\ RestOfUnload
        /\ io' = [io EXCEPT ![i].phase = "admitted", ![i].cur = o]
        /\ op' = [op EXCEPT ![u].claimed = TRUE, ![o] = x]
    BY <1>3 DEF AdmitLower, Entered, RestOfUnload, armVars, workerVars
  <2>2. x.live /\ x.refs = 1
    BY DEF Operation
  <2>3. op[u] \in Operations /\ u # o
    BY <1>1, <2>1, LiveOps
  <2>4. c.live /\ c.released = op[u].released /\ c.refs = op[u].refs
    BY <2>3 DEF Operations
  <2> HIDE DEF x
  <2>5. op'[u] = c /\ op'[o] = x
        /\ \A p \in Ops : p # o /\ p # u => op'[p] = op[p]
    BY <1>1, <2>1, <2>3 DEF TypeOK
  <2> HIDE DEF c
  <2>6. /\ Live' = Live \cup {o} /\ op'[o].refs = 1
        /\ \A p \in Live : op'[p].released = op[p].released /\ op'[p].refs = op[p].refs
    <3>1. Live' = Live \cup {o}
      BY <2>1, <2>2, <2>4, <2>5 DEF Live
    <3>2. QED
      BY <1>1, <2>1, <2>2, <2>4, <2>5, <3>1, LiveOps
  <2>7. QED
    BY <2>1, <2>6, AdmitUnload
<1>4. QED
  BY <1>2, <1>3

\* A request is held: the worker has its operation.
LEMMA QueuesUnload ==
  ASSUME IInv, AbsentOk, KeptOk, NEW i \in Ios, QueuePre(i) \/ QueuePost(i)
  PROVE  AbsentOk' /\ KeptOk'
<1>1. /\ io[i] \in Requests /\ Fits(i, io[i]) /\ io[i].level \in Levels
      /\ io[i].ctx \in [Levels -> Ops \cup {None}] /\ TypeOK
  BY RequestFacts DEF IInv
<1>2. \A l \in Levels : instance[l] = "absent" =>
        /\ io[i].ctx[l] = None
        /\ io[i].phase \in {"pre", "admitted", "pended", "post", "leaving"}
             => io[i].level # l
  BY DEF AbsentOk, NotIn
<1>3. ASSUME NEW o \in Live, NEW post \in BOOLEAN, Enqueue(o, post),
             NEW r \in Requests, io' = [io EXCEPT ![i] = r],
             io[i].phase \in {"admitted", "post"}, r.phase = "pended",
             r.level = io[i].level,
             \A l \in Levels : r.ctx[l] \in {None, io[i].ctx[l]},
             \A p \in Ops : Has(io[i], p) => p = o \/ Has(r, p),
             UNCHANGED <<instance, tail, wpc, wop>>
      PROVE  AbsentOk' /\ KeptOk'
  <2>1. Outside(r) /\ Ended(r)
    BY <1>2, <1>3 DEF Outside, Ended
  <2>2. AbsentOk'
    BY <1>1, <1>3, <2>1, RequestStaysOut
  <2>3. op[o] \in Operations /\ o \in Ops /\ Live \subseteq Ops
    BY <1>1, LiveOps
  <2> DEFINE q == [op[o] EXCEPT !.refs = @ + 1, !.post = post,
                                !.wake = IF post THEN 0 ELSE @]
  <2>41. op' = [op EXCEPT ![o] = q]
    BY <1>1, <1>3 DEF Enqueue, TypeOK
  <2>42. q.live = op[o].live /\ q.released = op[o].released /\ q.refs = op[o].refs + 1
    BY <2>3 DEF Operations
  <2> HIDE DEF q
  <2>4. /\ op'[o].live = op[o].live /\ op'[o].released = op[o].released
        /\ op'[o].refs = op[o].refs + 1
        /\ \A p \in Ops : p # o => op'[p] = op[p]
    BY <1>1, <2>3, <2>41, <2>42 DEF TypeOK
  <2>5. Live' = Live
    BY <2>3, <2>4 DEF Live
  <2>6. op[o].refs + 1 # 0
    <3>1. op[o].refs \in 0 .. 3
      BY <2>3 DEF Operations
    <3>2. QED
      BY <3>1
  <2>7. Range(queue)' = Range(queue) \cup {o}
    BY <1>1, <1>3, <2>3, QueueAppend DEF TypeOK, Enqueue
  <2>8. AtWorker(o)' /\ \A p \in Ops : AtWorker(p) => AtWorker(p)'
    BY <1>3, <2>7 DEF AtWorker, Undone, InHand
  <2>9. \A p \in Live' : ~ op'[p].released =>
          \/ Has(r, p) \/ AtWorker(p)'
          \/ /\ p \in Live /\ ~ op[p].released
             /\ ~ Has(io[i], p) /\ ~ AtWorker(p)
    BY <1>3, <2>3, <2>4, <2>5, <2>8
  <2>10. \A p \in Live' : op'[p].refs = 0 => p \in Live /\ op[p].refs = 0
    BY <2>3, <2>4, <2>5, <2>6
  <2>11. KeptOk'
    BY <1>1, <1>3, <2>1, <2>9, <2>10, RequestKeepsKept
  <2>12. QED
    BY <2>2, <2>11
<1>4. CASE QueuePre(i)
  <2> DEFINE o == io[i].cur
             b == i \in Reads
             r == [io[i] EXCEPT !.phase = "pended", !.pinned = b]
  <2>1. /\ io[i].phase = "admitted" /\ Enqueue(o, FALSE)
        /\ UNCHANGED <<instance, tail, wpc, wop>>
    BY <1>4 DEF QueuePre, armVars, workerVars
  <2>2. o \in Live
    BY <1>1, <2>1 DEF Fits, Carries
  <2>3. io' = [io EXCEPT ![i] = r]
    BY <1>4 DEF IInv, TypeOK, QueuePre
  <2>4. b \in BOOLEAN
    OBVIOUS
  <2> HIDE DEF b
  <2>5. /\ r \in Requests /\ r.phase = "pended" /\ r.level = io[i].level
        /\ r.ctx = io[i].ctx
    BY <1>1, <2>4 DEF Requests, Phases
  <2> HIDE DEF r
  <2>6. \A p \in Ops : Has(io[i], p) => p = o \/ Has(r, p)
    BY <2>5 DEF Has
  <2>7. \A l \in Levels : r.ctx[l] \in {None, io[i].ctx[l]}
    BY <2>5
  <2>8. io[i].phase \in {"admitted", "post"} /\ FALSE \in BOOLEAN
    BY <2>1
  <2> HIDE DEF o
  <2>9. QED
    BY <1>3, <2>1, <2>2, <2>3, <2>5, <2>6, <2>7, <2>8
<1>5. CASE QueuePost(i)
  <2> DEFINE l == io[i].level
             o == io[i].ctx[l]
             x == [io[i].ctx EXCEPT ![l] = None]
             r == [io[i] EXCEPT !.phase = "pended", !.ctx = x]
  <2>1. /\ io[i].phase = "post" /\ Enqueue(o, TRUE)
        /\ UNCHANGED <<instance, tail, wpc, wop>>
    BY <1>5 DEF QueuePost, armVars, workerVars
  <2>2. o \in Live
    BY <1>1, <2>1 DEF Fits, Carries
  <2>3. io' = [io EXCEPT ![i] = r]
    BY <1>5 DEF IInv, TypeOK, QueuePost
  <2>4. /\ x \in [Levels -> Ops \cup {None}] /\ x[l] = None
        /\ \A k \in Levels : k # l => x[k] = io[i].ctx[k]
    BY <1>1
  <2> HIDE DEF x
  <2>5. /\ r \in Requests /\ r.phase = "pended" /\ r.level = l /\ r.ctx = x
    BY <1>1, <2>4 DEF Requests, Phases
  <2> HIDE DEF r
  <2>6. \A p \in Ops : Has(io[i], p) => p = o \/ Has(r, p)
    BY <2>1, <2>4, <2>5 DEF Has
  <2>7. \A k \in Levels : r.ctx[k] \in {None, io[i].ctx[k]}
    BY <2>4, <2>5
  <2>8. io[i].phase \in {"admitted", "post"} /\ TRUE \in BOOLEAN
        /\ r.level = io[i].level
    BY <2>1, <2>5
  <2> HIDE DEF o, l
  <2>9. QED
    BY <1>3, <2>1, <2>2, <2>3, <2>5, <2>6, <2>7, <2>8
<1>6. QED
  BY <1>4, <1>5

\* A request's operation is released: nobody has it any more.
LEMMA ReleasesUnload ==
  ASSUME IInv, AbsentOk, KeptOk, NEW i \in Ios,
         LockFails(i) \/ FinishPost(i) \/ \E l \in Levels : Drain(l, i)
  PROVE  AbsentOk' /\ KeptOk'
<1>1. /\ io[i] \in Requests /\ Fits(i, io[i]) /\ io[i].level \in Levels
      /\ io[i].ctx \in [Levels -> Ops \cup {None}] /\ TypeOK
      /\ io[i].phase # "leaving" => tail[i] = NoTail
  BY RequestFacts DEF IInv
<1>2. \A l \in Levels : instance[l] = "absent" =>
        /\ io[i].ctx[l] = None
        /\ io[i].phase \in {"pre", "admitted", "pended", "post", "leaving"}
             => io[i].level # l
  BY DEF AbsentOk, NotIn
<1>3. ASSUME NEW t \in Threads, NEW o \in Live, ~ op[o].released,
             FinishLogical(t, o), tail[t] = NoTail,
             t \in Levels => instance[t] # "absent",
             NEW r \in Requests, io' = [io EXCEPT ![i] = r],
             r.phase \in {io[i].phase, "leaving"}, io[i].phase # "idle",
             r.phase = "leaving" => io[i].phase \in {"admitted", "post", "leaving"},
             r.level = io[i].level,
             \A l \in Levels : r.ctx[l] \in {None, io[i].ctx[l]},
             \A p \in Ops : Has(io[i], p) => p = o \/ Has(r, p),
             UNCHANGED <<instance, queue, wpc, wop>>
      PROVE  AbsentOk' /\ KeptOk'
  <2>1. Outside(r) /\ Ended(r)
    BY <1>2, <1>3 DEF Outside, Ended
  <2>2. /\ op' = [op EXCEPT ![o].released = TRUE]
        /\ tail' = [tail EXCEPT ![t] = [at |-> "drop", op |-> o]]
    BY <1>3 DEF FinishLogical
  <2>3. /\ Live' = Live /\ op'[o].released
        /\ \A p \in Live : p # o => op'[p] = op[p]
        /\ \A p \in Live : op'[p].refs = op[p].refs
    BY <1>1, <2>2, Releases
  <2>4. \A s \in Threads : s # t => tail'[s] = tail[s]
    BY <1>1, <2>2 DEF TypeOK
  <2>5. \A s \in Threads : tail[s].at = "unlink" => tail'[s] = tail[s]
    BY <1>3, <2>4 DEF NoTail
  <2>6. \A l \in Levels : instance[l] = "absent" => tail'[l] = tail[l]
    BY <1>3, <2>4, ThreadsDiffer
  <2>7. AbsentOk'
    BY <1>1, <1>3, <2>1, <2>6, RequestStaysOut
  <2>8. \A p \in Ops : AtWorker(p)' = AtWorker(p)
    BY <1>3 DEF AtWorker, Undone, InHand
  <2>9. \A p \in Live' : ~ op'[p].released =>
          \/ Has(r, p) \/ AtWorker(p)'
          \/ /\ p \in Live /\ ~ op[p].released
             /\ ~ Has(io[i], p) /\ ~ AtWorker(p)
    BY <1>1, <1>3, <2>3, <2>8, LiveOps
  <2>10. \A p \in Live' : op'[p].refs = 0 => p \in Live /\ op[p].refs = 0
    BY <2>3
  <2>11. KeptOk'
    BY <1>1, <1>3, <2>1, <2>5, <2>9, <2>10, RequestKeepsKept
  <2>12. QED
    BY <2>7, <2>11
<1>4. CASE LockFails(i)
  <2> DEFINE o == io[i].cur
             r == [io[i] EXCEPT !.phase = "leaving"]
  <2>1. /\ io[i].phase = "admitted" /\ FinishLogical(i, o)
        /\ io' = [io EXCEPT ![i] = r] /\ UNCHANGED <<instance, queue, wpc, wop>>
    BY <1>4 DEF LockFails, armVars, workerVars
  <2>2. o \in Live /\ ~ op[o].released /\ tail[i] = NoTail
    BY <1>1, <2>1 DEF Fits, Carries
  <2>3. /\ r \in Requests /\ r.phase = "leaving" /\ r.level = io[i].level
        /\ r.ctx = io[i].ctx
    BY <1>1 DEF Requests, Phases
  <2> HIDE DEF r
  <2>4. \A p \in Ops : Has(io[i], p) => p = o \/ Has(r, p)
    BY <2>3 DEF Has
  <2>5. \A l \in Levels : r.ctx[l] \in {None, io[i].ctx[l]}
    BY <2>3
  <2>6. i \in Threads /\ i \notin Levels
    BY SetsAssumption DEF Threads, Levels
  <2>7. /\ r.phase \in {io[i].phase, "leaving"} /\ io[i].phase # "idle"
        /\ io[i].phase \in {"admitted", "post", "leaving"}
    BY <2>1, <2>3
  <2> HIDE DEF o
  <2>8. QED
    BY <1>3, <2>1, <2>2, <2>3, <2>4, <2>5, <2>6, <2>7
<1>5. CASE FinishPost(i)
  <2> DEFINE l == io[i].level
             o == io[i].ctx[l]
             x == [io[i].ctx EXCEPT ![l] = None]
             r == [io[i] EXCEPT !.phase = "leaving", !.ctx = x]
  <2>1. /\ io[i].phase = "post" /\ FinishLogical(i, o)
        /\ UNCHANGED <<instance, queue, wpc, wop>>
    BY <1>5 DEF FinishPost, armVars, workerVars
  <2>2. o \in Live /\ ~ op[o].released /\ tail[i] = NoTail
    BY <1>1, <2>1 DEF Fits, Carries
  <2>3. io' = [io EXCEPT ![i] = r]
    BY <1>5 DEF IInv, TypeOK, FinishPost
  <2>4. /\ x \in [Levels -> Ops \cup {None}] /\ x[l] = None
        /\ \A k \in Levels : k # l => x[k] = io[i].ctx[k]
    BY <1>1
  <2> HIDE DEF x
  <2>5. /\ r \in Requests /\ r.phase = "leaving" /\ r.level = l /\ r.ctx = x
    BY <1>1, <2>4 DEF Requests, Phases
  <2> HIDE DEF r
  <2>6. \A p \in Ops : Has(io[i], p) => p = o \/ Has(r, p)
    BY <2>1, <2>4, <2>5 DEF Has
  <2>7. \A k \in Levels : r.ctx[k] \in {None, io[i].ctx[k]}
    BY <2>4, <2>5
  <2>8. i \in Threads /\ i \notin Levels
    BY SetsAssumption DEF Threads, Levels
  <2>9. /\ r.phase \in {io[i].phase, "leaving"} /\ io[i].phase # "idle"
        /\ io[i].phase \in {"admitted", "post", "leaving"}
        /\ r.level = io[i].level
    BY <2>1, <2>5
  <2> HIDE DEF o, l
  <2>10. QED
    BY <1>3, <2>1, <2>2, <2>3, <2>5, <2>6, <2>7, <2>8, <2>9
<1>6. ASSUME NEW l \in Levels, Drain(l, i) PROVE AbsentOk' /\ KeptOk'
  <2> DEFINE o == io[i].ctx[l]
             x == [io[i].ctx EXCEPT ![l] = None]
             r == [io[i] EXCEPT !.ctx = x]
  <2>1. /\ instance[l] = "stopping" /\ tail[l] = NoTail /\ o # None
        /\ FinishLogical(l, o) /\ UNCHANGED <<instance, queue, wpc, wop>>
    BY <1>6 DEF Drain, armVars, workerVars
  <2>2. o \in Live /\ ~ op[o].released /\ io[i].phase # "idle"
    BY <1>1, <2>1 DEF Fits, Carries, KeptOk
  <2>3. io' = [io EXCEPT ![i] = r]
    BY <1>6 DEF IInv, TypeOK, Drain
  <2>4. /\ x \in [Levels -> Ops \cup {None}] /\ x[l] = None
        /\ \A k \in Levels : k # l => x[k] = io[i].ctx[k]
    BY <1>1
  <2> HIDE DEF x
  <2>5. /\ r \in Requests /\ r.phase = io[i].phase /\ r.level = io[i].level
        /\ r.ctx = x /\ r.cur = io[i].cur
    BY <1>1, <2>4 DEF Requests
  <2> HIDE DEF r
  <2>6. \A p \in Ops : Has(io[i], p) => p = o \/ Has(r, p)
    BY <2>4, <2>5 DEF Has
  <2>7. \A k \in Levels : r.ctx[k] \in {None, io[i].ctx[k]}
    BY <2>4, <2>5
  <2>8. l \in Threads /\ instance[l] # "absent"
    BY <2>1, ThreadsDiffer
  <2>9. /\ r.phase \in {io[i].phase, "leaving"}
        /\ r.phase = "leaving" => io[i].phase \in {"admitted", "post", "leaving"}
    BY <2>5
  <2> HIDE DEF o
  <2>10. QED
    BY <1>3, <2>1, <2>2, <2>3, <2>5, <2>6, <2>7, <2>8, <2>9
<1>7. QED
  BY <1>4, <1>5, <1>6

\* The requests and tails stay; operations are at most woken.
LEMMA QuietUnload ==
  ASSUME IInv, AbsentOk, KeptOk, UNCHANGED <<io, tail>>, Live' = Live,
         \A p \in Live : op'[p].released = op[p].released /\ op'[p].refs = op[p].refs,
         \A p \in Live : AtWorker(p) => AtWorker(p)',
         \A l \in Levels : instance'[l] = "absent" =>
           \/ instance[l] = "absent"
           \/ tail[l] = NoTail /\ \A i \in Ios : NotIn(i, l)
  PROVE  AbsentOk' /\ KeptOk'
<1>1. AbsentOk'
  BY DEF AbsentOk, NotIn
<1>2. KeptOk'
  BY OpsStayKept
<1>3. QED
  BY <1>1, <1>2

\* Operations are woken (by a port call, an exit, a teardown, the stop).
LEMMA WakesUnload ==
  ASSUME IInv, AbsentOk, KeptOk, NEW S \in SUBSET Live, NEW n \in 1 .. 3,
         op' = Wake(S, n), UNCHANGED <<io, tail, queue, wop>>,
         wpc' = wpc \/ wpc \notin {"taken", "post", "cancel", "pass", "finish"},
         \A l \in Levels : instance'[l] = "absent" => instance[l] = "absent"
  PROVE  AbsentOk' /\ KeptOk'
<1>1. /\ Live' = Live
      /\ \A p \in Live : op'[p].released = op[p].released /\ op'[p].refs = op[p].refs
  <2>1. Live' = Live /\ \A p \in Live : Keeps(p) /\ op'[p].refs = op[p].refs
    BY WakeChanges DEF IInv
  <2>2. QED
    BY <2>1 DEF Keeps
<1>2. \A p \in Live : AtWorker(p) => AtWorker(p)'
  BY DEF AtWorker, Undone, InHand
<1>3. QED
  BY <1>1, <1>2, QuietUnload

\* The operations, requests and tails stay.
LEMMA SameUnload ==
  ASSUME IInv, AbsentOk, KeptOk, UNCHANGED <<op, io, tail>>,
         \A p \in Live : AtWorker(p) => AtWorker(p)',
         \A l \in Levels : instance'[l] = "absent" =>
           \/ instance[l] = "absent"
           \/ tail[l] = NoTail /\ \A i \in Ios : NotIn(i, l)
  PROVE  AbsentOk' /\ KeptOk'
<1>1. /\ Live' = Live
      /\ \A p \in Live : op'[p].released = op[p].released /\ op'[p].refs = op[p].refs
  BY DEF Live
<1>2. QED
  BY <1>1, QuietUnload

\* The port, exits, instances and stages.
LEMMA OutsideUnload ==
  ASSUME IInv, AbsentOk, KeptOk,
         \/ \E c \in ClientIds : Port(c) \/ Reply(c)
         \/ \E t \in Targets : TargetExit(t) \/ Signal(t)
         \/ \E l \in Levels : Setup(l) \/ TeardownStart(l) \/ TeardownComplete(l)
         \/ Stop \/ Join \/ Unregister \/ UNCHANGED vars
  PROVE  AbsentOk' /\ KeptOk'
<1> DEFINE Same == UNCHANGED <<queue, wpc, wop>>
           Told == \E S \in SUBSET Live, n \in 1 .. 3 : op' = Wake(S, n)
           Calm == UNCHANGED <<io, tail>> /\ Same
<1>1. ASSUME Calm, Told \/ op' = op,
             \A l \in Levels : instance'[l] = "absent" => instance[l] = "absent"
      PROVE  AbsentOk' /\ KeptOk'
  <2>1. CASE Told
    <3>1. PICK S \in SUBSET Live, n \in 1 .. 3 : op' = Wake(S, n)
      BY <2>1
    <3>2. QED
      BY <1>1, <3>1, WakesUnload
  <2>2. CASE op' = op
    <3>1. \A p \in Live : AtWorker(p) => AtWorker(p)'
      BY <1>1 DEF AtWorker, Undone, InHand
    <3>2. QED
      BY <1>1, <2>2, <3>1, SameUnload
  <2>3. QED
    BY <1>1, <2>1, <2>2
<1>2. ReleaseOwner => Told
  <2>1. {o \in Live : op[o].owner = owner} \in SUBSET Live /\ 2 \in 1 .. 3
    OBVIOUS
  <2>2. QED
    BY <2>1 DEF ReleaseOwner
<1>3. ASSUME NEW c \in ClientIds, Port(c) \/ Reply(c) PROVE AbsentOk' /\ KeptOk'
  <2>1. CASE Connect(c) \/ \E t \in Targets : \/ \E m \in Modes : ArmOne(c, t, m)
                                             \/ \E n \in Batches : ArmBatch(c, t, n)
    <3>1. UNCHANGED <<io, tail, op, instance, queue, wpc, wop>>
      BY <2>1 DEF Connect, ArmOne, ArmBatch, Arm, armVars, workerVars
    <3>2. QED
      BY <1>1, <3>1
  <2>2. CASE Disconnect(c) \/ Release(c) \/ ClientExit(c) \/ Reply(c)
    <3>1. UNCHANGED <<io, tail, instance, queue, wpc, wop>>
      BY <2>2 DEF Disconnect, Release, ClientExit, Reply, workerVars
    <3>2. ReleaseOwner \/ op' = op
      BY <2>2 DEF Disconnect, Release, ClientExit, Reply
    <3>3. QED
      BY <1>1, <1>2, <3>1, <3>2
  <2>3. CASE Resume(c)
    <3>1. UNCHANGED <<io, tail, instance, queue, wpc, wop>>
      BY <2>3 DEF Resume, armVars, workerVars
    <3>2. {o \in Live : op[o].owner = c} \in SUBSET Live /\ 1 \in 1 .. 3
      OBVIOUS
    <3>3. Told
      BY <2>3, <3>2 DEF Resume
    <3>4. QED
      BY <1>1, <3>1, <3>3
  <2>4. QED
    BY <1>3, <2>1, <2>2, <2>3 DEF Port
<1>4. ASSUME NEW t \in Targets, TargetExit(t) PROVE AbsentOk' /\ KeptOk'
  <2>1. UNCHANGED <<io, tail, instance, queue, wpc, wop>>
    BY <1>4 DEF TargetExit, workerVars
  <2>2. {o \in Live : op[o].target = t} \in SUBSET Live /\ 2 \in 1 .. 3
    OBVIOUS
  <2>3. Told
    BY <1>4, <2>2 DEF TargetExit
  <2>4. QED
    BY <1>1, <2>1, <2>3
<1>5. ASSUME NEW t \in Targets, Signal(t) PROVE AbsentOk' /\ KeptOk'
  BY <1>1, <1>5 DEF Signal, armVars, workerVars
<1>6. ASSUME NEW l \in Levels, Setup(l) PROVE AbsentOk' /\ KeptOk'
  <2>1. UNCHANGED <<io, tail, op, queue, wpc, wop>>
        /\ instance' = [instance EXCEPT ![l] = "attached"]
    BY <1>6 DEF Setup, workerVars
  <2>2. \A k \in Levels : instance'[k] = "absent" => instance[k] = "absent"
    BY <2>1 DEF IInv, TypeOK
  <2>3. QED
    BY <1>1, <2>1, <2>2
<1>7. ASSUME NEW l \in Levels, TeardownStart(l) PROVE AbsentOk' /\ KeptOk'
  <2>1. UNCHANGED <<io, tail, queue, wpc, wop>>
        /\ instance' = [instance EXCEPT ![l] = "stopping"]
    BY <1>7 DEF TeardownStart, workerVars
  <2>2. \A k \in Levels : instance'[k] = "absent" => instance[k] = "absent"
    BY <2>1 DEF IInv, TypeOK
  <2>3. {o \in Live : op[o].level = l} \in SUBSET Live /\ 3 \in 1 .. 3
    OBVIOUS
  <2>4. Told
    BY <1>7, <2>3 DEF TeardownStart
  <2>5. QED
    BY <1>1, <2>1, <2>2, <2>4
<1>8. ASSUME NEW l \in Levels, TeardownComplete(l) PROVE AbsentOk' /\ KeptOk'
  <2>1. UNCHANGED <<op, io, tail, queue, wpc, wop>>
        /\ instance' = [instance EXCEPT ![l] = "absent"]
        /\ tail[l] = NoTail /\ \A i \in Ios : NotIn(i, l)
    BY <1>8 DEF TeardownComplete, workerVars
  <2>2. \A k \in Levels : k # l => instance'[k] = instance[k]
    BY <2>1 DEF IInv, TypeOK
  <2>3. \A p \in Live : AtWorker(p) => AtWorker(p)'
    BY <2>1 DEF AtWorker, Undone, InHand
  <2>4. \A k \in Levels : instance'[k] = "absent" =>
          \/ instance[k] = "absent"
          \/ tail[k] = NoTail /\ \A i \in Ios : NotIn(i, k)
    BY <2>1, <2>2
  <2>5. QED
    BY <2>1, <2>3, <2>4, SameUnload
<1>9. CASE Stop
  <2>1. UNCHANGED <<io, tail, instance, queue, wpc, wop>>
    BY <1>9 DEF Stop, workerVars
  <2>2. Live \in SUBSET Live /\ 3 \in 1 .. 3
    OBVIOUS
  <2>3. Told
    BY <1>9, <2>2 DEF Stop
  <2>4. QED
    BY <1>1, <2>1, <2>3
<1>10. CASE Join \/ Unregister \/ UNCHANGED vars
  BY <1>1, <1>10 DEF Join, Unregister, vars, armVars, workerVars
<1>11. QED
  BY <1>3, <1>4, <1>5, <1>6, <1>7, <1>8, <1>9, <1>10

\* The worker gives a request back, with all that it had; of the operation it
\* has itself, it is the worker's or the request's to the end.
LEMMA SettleUnload ==
  ASSUME IInv, AbsentOk, KeptOk, Settle
  PROVE  AbsentOk' /\ KeptOk'
<1> DEFINE i == op[wop].data
           l == op[wop].level
<1>1. /\ wpc \in {"post", "cancel", "pass"} /\ wop \in Undone
      /\ UNCHANGED <<instance, op, queue, tail, wop>>
  BY DEF Settle, Undone, InHand, armVars
<1>2. TypeOK /\ wop \in Live /\ wop \in Ops /\ l \in Levels
  <2>1. TypeOK /\ wop \in Live
    BY <1>1, UndoneLive DEF IInv
  <2>2. QED
    BY <2>1, LiveOps DEF Operations
<1>3. i \in Ios /\ io[i].phase = "pended" /\ io[i].level = l
  BY <1>1 DEF IInv, CoreOk, UndoneOk, HeldIsInHand, Pended
<1>4. /\ io[i] \in Requests /\ Fits(i, io[i])
      /\ io[i].ctx \in [Levels -> Ops \cup {None}]
  BY <1>3, RequestFacts
<1>5. /\ instance[l] # "absent" /\ io[i].ctx[l] = None
      /\ \A k \in Levels : instance[k] = "absent" => io[i].ctx[k] = None
  BY <1>2, <1>3, <1>4 DEF AbsentOk, NotIn, Fits
<1>6. Live' = Live
  BY <1>1 DEF Live
<1> HIDE DEF i, l
<1>7. ASSUME NEW r \in Requests, io' = [io EXCEPT ![i] = r], Outside(r), Ended(r),
             \A p \in Ops : Has(io[i], p) => Has(r, p),
             Has(r, wop) \/ wpc' = "finish"
      PROVE  AbsentOk' /\ KeptOk'
  <2>1. AbsentOk'
    BY <1>1, <1>2, <1>3, <1>7, RequestStaysOut
  <2>2. \A p \in Ops : AtWorker(p) => Has(r, p) \/ AtWorker(p)'
    BY <1>1, <1>7 DEF AtWorker, Undone, InHand
  <2>3. \A p \in Live' : ~ op'[p].released =>
          \/ Has(r, p) \/ AtWorker(p)'
          \/ /\ p \in Live /\ ~ op[p].released
             /\ ~ Has(io[i], p) /\ ~ AtWorker(p)
    BY <1>1, <1>2, <1>6, <1>7, <2>2, LiveOps
  <2>4. \A p \in Live' : op'[p].refs = 0 => p \in Live /\ op[p].refs = 0
    BY <1>1, <1>6
  <2>5. \A t \in Threads : tail[t].at = "unlink" => tail'[t] = tail[t]
    BY <1>1
  <2>6. KeptOk'
    BY <1>2, <1>3, <1>7, <2>3, <2>4, <2>5, RequestKeepsKept
  <2>7. QED
    BY <2>1, <2>6
<1>8. CASE wpc \in {"post", "cancel"}
  <2>1. io' = [io EXCEPT ![i] = Up(io[i])] /\ wpc' = "finish"
    BY <1>8 DEF Settle, i
  <2>2. io[i].ctx["lower"] = None /\ (io[i].level = "upper" => io[i].ctx["upper"] = None)
    BY <1>2, <1>3, <1>4, <1>5 DEF Fits, Levels
  <2>3. /\ Outside(Up(io[i])) /\ Ended(Up(io[i]))
        /\ \A p \in Ops : Has(io[i], p) => Has(Up(io[i]), p)
    BY <1>3, <1>4, <1>5, <2>2, UpPasses
  <2>4. Up(io[i]) \in Requests
    BY <1>4, UpGives
  <2>5. QED
    BY <1>7, <2>1, <2>3, <2>4
<1>9. CASE wpc = "pass"
  <2> DEFINE x == [io[i].ctx EXCEPT ![l] = wop]
             q == [io[i] EXCEPT !.ctx = x]
  <2>1. io' = [io EXCEPT ![i] = Down(i, q)]
    BY <1>9 DEF Settle, i, l
  <2>2. /\ x \in [Levels -> Ops \cup {None}] /\ x[l] = wop
        /\ \A k \in Levels : k # l => x[k] = io[i].ctx[k]
    BY <1>2, <1>4
  <2> HIDE DEF x
  <2>3. q \in Requests /\ q.ctx = x /\ q.phase = "pended"
    BY <1>3, <1>4, <2>2 DEF Requests
  <2>4. Has(q, wop) /\ \A p \in Ops : Has(io[i], p) => Has(q, p)
    <3>1. Has(q, wop)
      BY <1>2, <2>2, <2>3 DEF Has
    <3>2. ASSUME NEW p \in Ops, Has(io[i], p) PROVE Has(q, p)
      <4>1. p # None
        BY SetsAssumption
      <4>2. PICK k \in Levels : io[i].ctx[k] = p
        BY <1>3, <3>2 DEF Has
      <4>3. k # l
        BY <1>5, <4>1, <4>2
      <4>4. QED
        BY <2>2, <2>3, <4>2, <4>3 DEF Has
    <3>3. QED
      BY <3>1, <3>2
  <2> HIDE DEF q
  <2>5. \A k \in Levels : instance[k] = "absent" => q.ctx[k] = None
    BY <1>5, <2>2, <2>3
  <2>6. /\ Outside(Down(i, q)) /\ Ended(Down(i, q))
        /\ \A p \in Ops : Has(q, p) => Has(Down(i, q), p)
    BY <1>3, <2>3, <2>5, DownPasses
  <2>7. Down(i, q) \in Requests
    BY <1>3, <2>3, DownGives
  <2>8. Has(Down(i, q), wop) /\ \A p \in Ops : Has(io[i], p) => Has(Down(i, q), p)
    BY <1>2, <2>4, <2>6
  <2>9. QED
    BY <1>7, <2>1, <2>6, <2>7, <2>8
<1>10. QED
  BY <1>1, <1>8, <1>9

\* The worker's other steps.
LEMMA WorkersUnload ==
  ASSUME IInv, AbsentOk, KeptOk, Watch \/ Worker
  PROVE  AbsentOk' /\ KeptOk'
<1>1. TypeOK /\ \A l \in Levels : l # "worker" /\ l \in Threads
  BY ThreadsDiffer DEF IInv
<1>2. CASE Watch \/ Sense \/ WaitEnds \/ NoWork \/ Done \/ Decide
  <2>1. UNCHANGED <<op, io, tail, instance, queue>>
    BY <1>2 DEF Watch, Sense, WaitEnds, NoWork, Done, Decide, armVars
  <2>2. \/ /\ wpc \notin {"taken", "post", "cancel", "pass", "finish"}
        \/ /\ wpc = "taken" /\ wop' = wop
           /\ wpc' \in {"post", "cancel", "pass"}
    BY <1>2 DEF Watch, Sense, WaitEnds, NoWork, Done, Decide
  <2>3. \A p \in Live : AtWorker(p) => AtWorker(p)'
    BY <2>1, <2>2 DEF AtWorker, Undone, InHand
  <2>4. QED
    BY <2>1, <2>3, SameUnload
<1>3. CASE Retire
  <2>1. UNCHANGED <<io, tail, instance, queue, wop>> /\ wpc \in {"alive", "dead"}
    BY <1>3 DEF Retire
  <2>2. {o \in Live : op[o].target = snapshot} \in SUBSET Live /\ 2 \in 1 .. 3
    OBVIOUS
  <2>3. CASE op' = op
    <3>1. \A p \in Live : AtWorker(p) => AtWorker(p)'
      BY <2>1 DEF AtWorker, Undone, InHand
    <3>2. QED
      BY <2>1, <2>3, <3>1, SameUnload
  <2>4. CASE op' = Wake({o \in Live : op[o].target = snapshot}, 2)
    BY <2>1, <2>2, <2>4, WakesUnload
  <2>5. QED
    BY <1>3, <2>3, <2>4 DEF Retire
<1>4. CASE Take
  <2>1. /\ UNCHANGED <<op, io, tail, instance>> /\ wpc = "take" /\ wpc' = "taken"
        /\ queue # <<>> /\ wop' = Head(queue) /\ queue' = Tail(queue)
    BY <1>4 DEF Take, armVars
  <2>2. queue \in Seq(Ops) /\ Once(queue)
    BY <1>1 DEF TypeOK, IInv, CoreOk, UndoneOk, HeldIsInHand, Once
  <2>3. Range(queue) = Range(queue)' \cup {wop'}
    BY <2>1, <2>2, QueueTail
  <2>4. \A p \in Live : AtWorker(p) => AtWorker(p)'
    BY <2>1, <2>3 DEF AtWorker, Undone, InHand
  <2>5. QED
    BY <2>1, <2>4, SameUnload
<1>5. CASE Finish
  <2>1. /\ UNCHANGED <<io, instance, queue, wop>>
        /\ wpc = "finish" /\ wpc' = "drop" /\ FinishLogical("worker", wop)
    BY <1>5 DEF Finish, armVars
  <2>2. wop \in Live /\ ~ op[wop].released /\ tail["worker"] = NoTail
    BY <2>1 DEF IInv, CoreOk, WorkerOk, TailOk, Holding
  <2>3. /\ op' = [op EXCEPT ![wop].released = TRUE]
        /\ tail' = [tail EXCEPT !["worker"] = [at |-> "drop", op |-> wop]]
    BY <2>1, <2>2 DEF FinishLogical
  <2>4. /\ Live' = Live /\ op'[wop].released
        /\ \A p \in Live : /\ p # wop => op'[p] = op[p]
                           /\ op'[p].refs = op[p].refs
    BY <1>1, <2>2, <2>3, Releases
  <2>5. \A t \in Threads : t # "worker" => tail'[t] = tail[t]
    BY <1>1, <2>3 DEF TypeOK
  <2>6. AbsentOk'
    BY <1>1, <2>1, <2>5 DEF AbsentOk, NotIn
  <2>7. \A p \in Live' : ~ op'[p].released =>
          /\ p \in Live /\ ~ op[p].released
          /\ AtWorker(p) => AtWorker(p)'
    BY <2>1, <2>4 DEF AtWorker, Undone, InHand
  <2>8. ASSUME NEW p \in Live', op'[p].refs = 0 PROVE BeingFreed(p)'
    <3>1. PICK t \in Threads : tail[t].at = "unlink" /\ tail[t].op = p
      BY <2>4, <2>8 DEF KeptOk, BeingFreed
    <3>2. t # "worker"
      BY <2>2, <3>1 DEF NoTail
    <3>3. QED
      BY <2>5, <3>1, <3>2 DEF BeingFreed
  <2>9. KeptOk'
    BY <2>1, <2>7, <2>8, IoStaysKept
  <2>10. QED
    BY <2>6, <2>9
<1>6. CASE WorkerDrop
  <2>1. /\ UNCHANGED <<op, io, instance, queue, wop>> /\ tail["worker"] = NoTail
        /\ wpc = "drop" /\ tail' = [tail EXCEPT !["worker"] = [at |-> "drop", op |-> wop]]
    BY <1>6 DEF WorkerDrop, armVars
  <2>2. \A t \in Threads : t # "worker" => tail'[t] = tail[t]
    BY <1>1, <2>1 DEF TypeOK
  <2>3. AbsentOk'
    BY <1>1, <2>1, <2>2 DEF AbsentOk, NotIn
  <2>4. \A p \in Live' : ~ op'[p].released =>
          /\ p \in Live /\ ~ op[p].released
          /\ AtWorker(p) => AtWorker(p)'
    BY <2>1 DEF Live, AtWorker, Undone, InHand
  <2>5. ASSUME NEW p \in Live', op'[p].refs = 0 PROVE BeingFreed(p)'
    <3>1. p \in Live /\ op[p].refs = 0
      BY <2>1, <2>5 DEF Live
    <3>2. PICK t \in Threads : tail[t].at = "unlink" /\ tail[t].op = p
      BY <3>1 DEF KeptOk, BeingFreed
    <3>3. t # "worker"
      BY <2>1, <3>2 DEF NoTail
    <3>4. QED
      BY <2>2, <3>2, <3>3 DEF BeingFreed
  <2>6. KeptOk'
    BY <2>1, <2>4, <2>5, IoStaysKept
  <2>7. QED
    BY <2>3, <2>6
<1>7. CASE Settle
  BY <1>7, SettleUnload
<1>8. QED
  BY <1>2, <1>3, <1>4, <1>5, <1>6, <1>7 DEF Worker

\* A reference is dropped, and an operation freed.
LEMMA LetGoUnload ==
  ASSUME IInv, AbsentOk, KeptOk, NEW t \in Threads, LetGo(t)
  PROVE  AbsentOk' /\ KeptOk'
<1> DEFINE o == tail[t].op
<1>1. /\ UNCHANGED <<io, instance, queue, wpc, wop>>
      /\ tail[t] # NoTail /\ o \in Live
      /\ TypeOK /\ o \in Ops
  <2>1. UNCHANGED <<io, instance, queue, wpc, wop>> /\ tail[t].at \in {"drop", "unlink"}
    BY DEF LetGo, DropReference, Unlink, armVars, workerVars
  <2>2. o \in Live
    BY <2>1 DEF IInv, CoreOk, TailOk
  <2>3. QED
    BY <2>1, <2>2 DEF IInv, NoTail, Live
<1>2. \A p \in Ops : AtWorker(p) => AtWorker(p)'
  BY <1>1 DEF AtWorker, Undone, InHand
<1>3. ASSUME \A s \in Threads : s # t => tail'[s] = tail[s] PROVE AbsentOk'
  BY <1>1, <1>3, ThreadsDiffer DEF AbsentOk, NotIn
<1>4. CASE DropReference(t)
  <2> DEFINE x == IF op[o].refs = 1 THEN [tail[t] EXCEPT !.at = "unlink"] ELSE NoTail
             q == [op[o] EXCEPT !.refs = @ - 1]
  <2>1. /\ tail[t].at = "drop" /\ tail' = [tail EXCEPT ![t] = x]
        /\ op' = [op EXCEPT ![o] = q]
    BY <1>1, <1>4 DEF DropReference, TypeOK
  <2>2. op[o].refs \in 1 .. 3 /\ op[o] \in Operations
    BY <1>1, <2>1, DropperHasOne, LiveOps
  <2>3. q.refs = op[o].refs - 1 /\ q.released = op[o].released /\ q.live
    BY <2>2 DEF Operations
  <2>4. op[o].refs = 1 => x.at = "unlink" /\ x.op = o
    <3>1. tail[t] \in [at : {"drop", "unlink"}, op : Ops]
      BY <1>1, <2>1 DEF TypeOK, Tails, NoTail
    <3>2. QED
      BY <3>1
  <2> HIDE DEF x, q
  <2>5. /\ tail'[t] = x /\ \A s \in Threads : s # t => tail'[s] = tail[s]
        /\ op'[o] = q /\ \A p \in Ops : p # o => op'[p] = op[p]
    BY <1>1, <2>1 DEF TypeOK
  <2> HIDE DEF o
  <2>6. Live' = Live
    BY <1>1, <2>3, <2>5 DEF Live
  <2>7. \A p \in Live' : ~ op'[p].released =>
          /\ p \in Live /\ ~ op[p].released
          /\ AtWorker(p) => AtWorker(p)'
    BY <1>1, <1>2, <2>3, <2>5, <2>6, LiveOps
  <2>8. ASSUME NEW p \in Live', op'[p].refs = 0 PROVE BeingFreed(p)'
    <3>1. CASE p = o
      <4>1. op[o].refs = 1
        BY <2>2, <2>3, <2>5, <2>8, <3>1
      <4>2. QED
        BY <2>4, <2>5, <3>1, <4>1 DEF BeingFreed
    <3>2. CASE p # o
      <4>1. p \in Live /\ op[p].refs = 0
        BY <1>1, <2>5, <2>6, <2>8, <3>2, LiveOps
      <4>2. PICK s \in Threads : tail[s].at = "unlink" /\ tail[s].op = p
        BY <4>1 DEF KeptOk, BeingFreed
      <4>3. s # t
        BY <2>1, <4>2
      <4>4. QED
        BY <2>5, <4>2, <4>3 DEF BeingFreed
    <3>3. QED
      BY <3>1, <3>2
  <2>9. KeptOk'
    BY <1>1, <2>7, <2>8, IoStaysKept
  <2>10. QED
    BY <1>3, <2>5, <2>9
<1>5. CASE Unlink(t)
  <2>1. tail' = [tail EXCEPT ![t] = NoTail] /\ op' = [op EXCEPT ![o] = Free]
    BY <1>5 DEF Unlink
  <2>2. /\ \A s \in Threads : s # t => tail'[s] = tail[s]
        /\ op'[o] = Free /\ \A p \in Ops : p # o => op'[p] = op[p]
    BY <1>1, <2>1 DEF TypeOK
  <2> HIDE DEF o
  <2>3. Live' = Live \ {o}
    BY <1>1, <2>2 DEF Live, Free
  <2>4. \A p \in Live' : ~ op'[p].released =>
          /\ p \in Live /\ ~ op[p].released
          /\ AtWorker(p) => AtWorker(p)'
    BY <1>1, <1>2, <2>2, <2>3, LiveOps
  <2>5. ASSUME NEW p \in Live', op'[p].refs = 0 PROVE BeingFreed(p)'
    <3>1. p \in Live /\ p # o /\ op[p].refs = 0
      BY <1>1, <2>2, <2>3, <2>5, LiveOps
    <3>2. PICK s \in Threads : tail[s].at = "unlink" /\ tail[s].op = p
      BY <3>1 DEF KeptOk, BeingFreed
    <3>3. s # t
      BY <3>1, <3>2 DEF o
    <3>4. QED
      BY <2>2, <3>2, <3>3 DEF BeingFreed
  <2>6. KeptOk'
    BY <1>1, <2>4, <2>5, IoStaysKept
  <2>7. QED
    BY <1>3, <2>2, <2>6
<1>6. QED
  BY <1>4, <1>5 DEF LetGo

\* The stages, the signal and g_Control.
LEMMA StepStage == IInv /\ StageOk /\ [Next]_vars => StageOk'
<1> SUFFICES ASSUME IInv, StageOk, [Next]_vars PROVE StageOk'
  OBVIOUS
<1> DEFINE Told == UNCHANGED <<stage, wpc, instance>> /\ (available => available')
<1>1. ASSUME Told, control' \in {control, None} \cup ClientIds
      PROVE  StageOk'
  BY <1>1 DEF StageOk
<1>2. instance \in [Levels -> {"attached", "stopping", "absent"}]
  BY DEF IInv, TypeOK
<1>3. ASSUME NEW c \in ClientIds, Port(c) \/ Reply(c) PROVE StageOk'
  <2>1. CASE Connect(c) \/ Disconnect(c) \/ ClientExit(c)
    <3>1. Told /\ control' = control
      BY <2>1 DEF Connect, Disconnect, ClientExit, armVars, workerVars
    <3>2. QED
      BY <1>1, <1>2, <3>1
  <2>2. CASE Resume(c) \/ Release(c) \/ Reply(c)
    <3>1. Told /\ control' \in {control, None, c}
      BY <2>2 DEF Resume, Release, Reply, armVars, workerVars
    <3>2. QED
      BY <1>1, <1>2, <3>1
  <2>3. CASE \E t \in Targets : \/ \E m \in Modes : ArmOne(c, t, m)
                                \/ \E n \in Batches : ArmBatch(c, t, n)
    <3>1. Told /\ control' = c
      BY <2>3 DEF ArmOne, ArmBatch, Arm, workerVars
    <3>2. QED
      BY <1>1, <1>2, <3>1
  <2>4. QED
    BY <1>3, <2>1, <2>2, <2>3 DEF Port
<1>4. ASSUME NEW t \in Targets, TargetExit(t) \/ Signal(t) PROVE StageOk'
  <2>1. Told /\ control' = control
    BY <1>4 DEF TargetExit, Signal, armVars, workerVars
  <2>2. QED
    BY <1>1, <1>2, <2>1
<1>5. ASSUME NEW l \in Levels, Setup(l) \/ TeardownStart(l) \/ TeardownComplete(l)
      PROVE  StageOk'
  <2>1. /\ UNCHANGED <<stage, wpc, control, available>>
        /\ \/ stage # "gone"
           \/ instance' = [instance EXCEPT ![l] = "absent"]
    BY <1>5 DEF Setup, TeardownStart, TeardownComplete, workerVars
  <2>2. QED
    BY <1>2, <2>1 DEF StageOk
<1>6. ASSUME NEW i \in Ios, Request(i) \/ (\E t \in Targets : Issue(i, t))
                            \/ \E l \in Levels : Drain(l, i)
      PROVE  StageOk'
  <2>1. CASE PassBy(i)
    <3>1. Told /\ control' = control
      BY <2>1 DEF PassBy, armVars, workerVars
    <3>2. QED
      BY <1>1, <1>2, <3>1
  <2>2. CASE AdmitFails(i)
    <3>1. Told /\ control' = control
      BY <2>2 DEF AdmitFails, armVars, workerVars
    <3>2. QED
      BY <1>1, <1>2, <3>1
  <2>3. CASE GoOn(i)
    <3>1. Told /\ control' = control
      BY <2>3 DEF GoOn, armVars, workerVars
    <3>2. QED
      BY <1>1, <1>2, <3>1
  <2>4. CASE Complete(i)
    <3>1. Told /\ control' = control
      BY <2>4 DEF Complete, armVars, workerVars
    <3>2. QED
      BY <1>1, <1>2, <3>1
  <2>5. CASE Leave(i)
    <3>1. Told /\ control' = control
      BY <2>5 DEF Leave, armVars, workerVars
    <3>2. QED
      BY <1>1, <1>2, <3>1
  <2>6. CASE QueuePre(i)
    <3>1. Told /\ control' = control
      BY <2>6 DEF QueuePre, Enqueue, armVars, workerVars
    <3>2. QED
      BY <1>1, <1>2, <3>1
  <2>7. CASE QueuePost(i)
    <3>1. Told /\ control' = control
      BY <2>7 DEF QueuePost, Enqueue, armVars, workerVars
    <3>2. QED
      BY <1>1, <1>2, <3>1
  <2>8. CASE LockFails(i)
    <3>1. Told /\ control' = control
      BY <2>8 DEF LockFails, armVars, workerVars
    <3>2. QED
      BY <1>1, <1>2, <3>1
  <2>9. CASE FinishPost(i)
    <3>1. Told /\ control' = control
      BY <2>9 DEF FinishPost, armVars, workerVars
    <3>2. QED
      BY <1>1, <1>2, <3>1
  <2>10. ASSUME NEW t \in Targets, Issue(i, t) PROVE StageOk'
    <3>1. Told /\ control' = control
      BY <2>10 DEF Issue, armVars, workerVars
    <3>2. QED
      BY <1>1, <1>2, <3>1
  <2>11. ASSUME NEW o \in Ops, AdmitUpper(i, o) PROVE StageOk'
    <3>1. Told /\ control' = control
      BY <2>11 DEF AdmitUpper, armVars, workerVars
    <3>2. QED
      BY <1>1, <1>2, <3>1
  <2>12. ASSUME NEW o \in Ops, NEW u \in Ops, AdmitLower(i, u, o) PROVE StageOk'
    <3>1. Told /\ control' = control
      BY <2>12 DEF AdmitLower, armVars, workerVars
    <3>2. QED
      BY <1>1, <1>2, <3>1
  <2>13. ASSUME NEW l \in Levels, Drain(l, i) PROVE StageOk'
    <3>1. Told /\ control' = control
      BY <2>13 DEF Drain, armVars, workerVars
    <3>2. QED
      BY <1>1, <1>2, <3>1
  <2>14. QED
    BY <1>6, <2>1, <2>2, <2>3, <2>4, <2>5, <2>6, <2>7, <2>8, <2>9, <2>10, <2>11,
       <2>12, <2>13 DEF Request
<1>7. ASSUME NEW t \in Threads, LetGo(t) PROVE StageOk'
  <2>1. Told /\ control' = control
    BY <1>7 DEF LetGo, DropReference, Unlink, armVars, workerVars
  <2>2. QED
    BY <1>1, <1>2, <2>1
<1>8. CASE Watch \/ Retire
  <2>1. UNCHANGED <<stage, instance, available>>
    BY <1>8 DEF Watch, Retire, armVars
  <2>2. /\ wpc \in {"retire", "alive", "dead"} /\ wpc' \in {"sense", "alive", "dead"}
        /\ control' = None \/ wpc' \in {"alive", "dead"}
    BY <1>8 DEF Watch, Retire
  <2>3. QED
    BY <2>1, <2>2 DEF StageOk
<1>9. CASE Sense \/ WaitEnds \/ NoWork
  <2>1. UNCHANGED <<stage, instance, control>>
    BY <1>9 DEF Sense, WaitEnds, NoWork, armVars
  <2>2. \/ wpc = "sense" /\ wpc' \in {"poll", "wait"} /\ available' = available
        \/ wpc \in {"wait", "poll"} /\ wpc' = "take"
        \/ wpc = "take" /\ wpc' = "exited"
        \/ wpc = "take" /\ wpc' = "retire" /\ stage = "loaded"
    BY <1>9 DEF Sense, WaitEnds, NoWork
  <2>3. QED
    BY <2>1, <2>2 DEF StageOk
<1>10. CASE Take \/ Decide \/ Settle \/ Finish \/ WorkerDrop \/ Done
  <2>1. UNCHANGED <<stage, instance, control>>
    BY <1>10 DEF Take, Decide, Settle, Finish, WorkerDrop, Done, armVars
  <2>2. /\ wpc \in {"take", "taken", "post", "cancel", "pass", "finish", "drop", "done"}
        /\ wpc' \in {"take", "taken", "post", "cancel", "pass", "finish", "drop", "done"}
    BY <1>10 DEF Take, Decide, Settle, Finish, WorkerDrop, Done
  <2>3. QED
    BY <2>1, <2>2 DEF StageOk
<1>11. CASE Stop
  BY <1>11 DEF Stop, workerVars, StageOk
<1>12. CASE Join
  BY <1>12 DEF Join, armVars, workerVars, StageOk
<1>13. CASE Unregister
  BY <1>13 DEF Unregister, armVars, workerVars, StageOk
<1>14. CASE UNCHANGED vars
  BY <1>1, <1>2, <1>14 DEF vars, armVars, workerVars
<1>15. QED
  BY <1>3, <1>4, <1>5, <1>6, <1>7, <1>8, <1>9, <1>10, <1>11, <1>12, <1>13, <1>14
     DEF Next, Worker

\* What unload relies on holds at the start.
LEMMA StartUnload == Init => UnloadOk
<1> SUFFICES ASSUME Init PROVE UnloadOk
  OBVIOUS
<1>1. StageOk
  BY DEF Init, StageOk
<1>2. AbsentOk
  BY ThreadsDiffer DEF Init, AbsentOk, NotIn, Idle, NoContext
<1>3. KeptOk
  BY DEF Init, KeptOk, Live, Free, Idle, NoContext
<1>4. QED
  BY <1>1, <1>2, <1>3 DEF UnloadOk

\* Every step keeps what unload relies on.
LEMMA StepUnload == IInv /\ UnloadOk /\ [Next]_vars => UnloadOk'
<1> SUFFICES ASSUME IInv, UnloadOk, [Next]_vars PROVE UnloadOk'
  OBVIOUS
<1>1. StageOk'
  BY StepStage DEF UnloadOk
<1>2. AbsentOk /\ KeptOk
  BY DEF UnloadOk
<1>3. ASSUME NEW i \in Ios, Request(i) \/ (\E t \in Targets : Issue(i, t))
                            \/ \E l \in Levels : Drain(l, i)
      PROVE  AbsentOk' /\ KeptOk'
  <2>1. CASE \E o \in Ops : AdmitUpper(i, o) \/ \E u \in Ops : AdmitLower(i, u, o)
    BY <1>2, <2>1, AdmitsUnload
  <2>2. CASE AdmitFails(i) \/ PassBy(i) \/ GoOn(i) \/ Complete(i) \/ Leave(i)
             \/ \E t \in Targets : Issue(i, t)
    BY <1>2, <2>2, RequestMovesUnload
  <2>3. CASE QueuePre(i) \/ QueuePost(i)
    BY <1>2, <2>3, QueuesUnload
  <2>4. CASE LockFails(i) \/ FinishPost(i) \/ \E l \in Levels : Drain(l, i)
    BY <1>2, <2>4, ReleasesUnload
  <2>5. QED
    BY <1>3, <2>1, <2>2, <2>3, <2>4 DEF Request
<1>4. ASSUME NEW t \in Threads, LetGo(t) PROVE AbsentOk' /\ KeptOk'
  BY <1>2, <1>4, LetGoUnload
<1>5. ASSUME Watch \/ Worker PROVE AbsentOk' /\ KeptOk'
  BY <1>2, <1>5, WorkersUnload
<1>6. ASSUME \/ \E c \in ClientIds : Port(c) \/ Reply(c)
             \/ \E t \in Targets : TargetExit(t) \/ Signal(t)
             \/ \E l \in Levels : Setup(l) \/ TeardownStart(l) \/ TeardownComplete(l)
             \/ Stop \/ Join \/ Unregister \/ UNCHANGED vars
      PROVE  AbsentOk' /\ KeptOk'
  BY <1>2, <1>6, OutsideUnload
<1>7. AbsentOk' /\ KeptOk'
  BY <1>3, <1>4, <1>5, <1>6 DEF Next
<1>8. QED
  BY <1>1, <1>7 DEF UnloadOk

\* What unload relies on is invariant.
THEOREM UnloadCanRely == Spec => [](IInv /\ UnloadOk)
<1>1. Init => IInv /\ UnloadOk
  BY Start, StartUnload
<1>2. (IInv /\ UnloadOk) /\ [Next]_vars => (IInv /\ UnloadOk)'
  BY StepKeeps, StepUnload
<1>3. QED
  BY <1>1, <1>2, PTL DEF Spec

\* When the driver's code goes, the worker has ended, no thread is about to drop a
\* reference, and no operation is left allocated.
LEMMA EndIsClean == IInv /\ UnloadOk => GoneIsClean
<1> SUFFICES ASSUME IInv, UnloadOk, stage = "gone" PROVE Clean
  BY DEF GoneIsClean
<1>1. wpc = "exited" /\ queue = <<>> /\ Range(queue) = {}
  BY QueueEmpty DEF UnloadOk, StageOk, IInv, CoreOk, WorkerOk
<1>2. \A l \in Levels : tail[l] = NoTail /\ \A i \in Ios : NotIn(i, l)
  BY DEF UnloadOk, StageOk, AbsentOk
<1>3. \A i \in Ios :
        /\ io[i].phase \in {"idle", "device"} /\ tail[i] = NoTail
        /\ \A l \in Levels : io[i].ctx[l] = None
  <2> SUFFICES ASSUME NEW i \in Ios
               PROVE  /\ io[i].phase \in {"idle", "device"} /\ tail[i] = NoTail
                      /\ \A l \in Levels : io[i].ctx[l] = None
    OBVIOUS
  <2>1. io[i].phase \in Phases /\ io[i].level \in Levels
    BY RequestFacts DEF Requests
  <2>2. io[i].phase \in {"idle", "device"}
    BY <1>2, <2>1 DEF NotIn, Phases
  <2>3. QED
    BY <1>2, <2>2, RequestFacts DEF NotIn
<1>4. tail["worker"] = NoTail
  BY <1>1 DEF IInv, CoreOk, TailOk
<1>5. \A t \in Threads : tail[t] = NoTail
  BY <1>2, <1>3, <1>4 DEF Threads
<1>6. ASSUME NEW o \in Live PROVE FALSE
  <2>1. o # None /\ ~ AtWorker(o)
    BY <1>1, <1>6, SetsAssumption, LiveOps DEF AtWorker, Undone, InHand, IInv
  <2>2. \A i \in Ios : ~ Has(io[i], o)
    BY <1>3, <2>1 DEF Has
  <2>3. op[o].released
    BY <2>1, <2>2 DEF UnloadOk, KeptOk, Kept
  <2>4. ~ Logical(o) /\ ~ WorkerHas(o) /\ o \notin Range(queue)
    BY <1>1, <1>5, <2>3 DEF Logical, LogicalDrop, Dropping, WorkerHas, Holding, NoTail
  <2>5. op[o].refs = 0
    BY <2>4 DEF IInv, CoreOk, RefsOk, One
  <2>6. BeingFreed(o)
    BY <2>5 DEF UnloadOk, KeptOk
  <2>7. QED
    BY <1>5, <2>6 DEF BeingFreed, NoTail
<1>7. QED
  BY <1>1, <1>5, <1>6 DEF Clean

\* Unload leaves no operation and no thread behind (FltUnregisterFilter, then the
\* driver's image goes).
THEOREM UnloadLeavesNothing == Spec => []GoneIsClean
<1>1. QED
  BY UnloadCanRely, EndIsClean, PTL

\* While the worker is joined, it, its tail or the client that has g_Control can go
\* on; after that an instance, a request or such a client can, or the filter goes.
LEMMA UnloadMoves == IInv /\ UnloadOk => UnloadCanMove
<1> SUFFICES ASSUME IInv, UnloadOk PROVE UnloadCanMove
  OBVIOUS
<1>1. ASSUME stage = "stopping", wpc # "exited", ~ CanLetGo("worker"),
             control \notin ClientIds
      PROVE  WorkerCanMove
  <2>1. wpc \in WorkerPcs
    BY DEF IInv, TypeOK
  <2>2. tail["worker"] = NoTail
    BY <1>1 DEF CanLetGo
  <2>3. /\ wpc \in {"retire", "alive", "dead", "sense", "wait", "poll"} => available
        /\ control = None \/ wpc \in {"alive", "dead"}
    BY <1>1 DEF UnloadOk, StageOk
  <2>4. QED
    BY <1>1, <2>1, <2>2, <2>3 DEF WorkerCanMove, WorkerPcs, Holding
<1>2. ASSUME stage = "joined", control \notin ClientIds,
             \A l \in Levels : ~ InstanceCanMove(l) /\ ~ CanLetGo(l),
             \A i \in Ios : ~ RequestCanMove(i) /\ ~ CanLetGo(i)
      PROVE  (\A l \in Levels : instance[l] = "absent") /\ control = None
  <2>1. wpc = "exited" /\ control = None
    BY <1>2 DEF UnloadOk, StageOk
  <2>2. \A i \in Ios : io[i].phase = "idle"
    <3> SUFFICES ASSUME NEW i \in Ios PROVE io[i].phase = "idle"
      OBVIOUS
    <3>1. io[i].phase # "pended"
      BY <2>1, JoinedHoldsNothing DEF Pended
    <3>2. io[i].phase \in Phases
      BY RequestFacts DEF Requests
    <3>3. QED
      BY <1>2, <3>1, <3>2 DEF RequestCanMove, CanLetGo, Phases
  <2>3. \A l \in Levels : \A i \in Ios : NotIn(i, l)
    BY <2>2 DEF NotIn, UnloadOk, KeptOk
  <2>4. \A l \in Levels : instance[l] \in {"attached", "stopping", "absent"}
    BY DEF IInv, TypeOK
  <2>5. \A l \in Levels : instance[l] = "absent"
    BY <1>2, <2>3, <2>4 DEF InstanceCanMove, CanLetGo
  <2>6. QED
    BY <2>1, <2>5
<1>3. QED
  BY <1>1, <1>2 DEF UnloadCanMove

\* Unload is nowhere stuck.
THEOREM UnloadNeverStalls == Spec => []UnloadCanMove
<1>1. QED
  BY UnloadCanRely, UnloadMoves, PTL

===============================================================================
