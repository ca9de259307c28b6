-------------------------- MODULE McpServer_proofs --------------------------
(***************************************************************************)
(* Proofs about McpServer: IInv is inductive, and the safety properties    *)
(* follow from it for every set of operation ids, every ledger capacity    *)
(* and every queue bound.                                                  *)
(***************************************************************************)
EXTENDS McpServer, SequenceTheorems, TLAPS

(* The queue is empty or holds the job of the one waiter.                  *)
LEMMA OneJob ==
  ASSUME TypeOK, QueueInv
  PROVE  /\ waiting \in Queued <=> queue # <<>>
         /\ queue # <<>> => queue = <<waiting>> /\ Len(queue) = 1
         /\ \A id \in Queued : id = waiting
         /\ queue = <<>> => Queued = {}
<1>1. queue = <<>> => Queued = {}
  BY DEF Queued
<1>2. ASSUME queue # <<>> PROVE Len(queue) = 1 /\ queue = <<waiting>> /\ Queued = {waiting}
  <2>1. Len(queue) = 1
    <3>1. queue \in Seq(Ids) /\ Len(queue) \in Nat /\ Len(queue) <= 1
      BY DEF TypeOK, QueueInv
    <3>2. Len(queue) # 0
      BY <1>2, <3>1, EmptySeq, Zenon
    <3>3. Len(queue) \in Nat /\ Len(queue) <= 1
      BY <3>1
    <3>4. \A n \in Nat : n <= 1 /\ n # 0 => n = 1
      OBVIOUS
    <3> QED BY <3>2, <3>3, <3>4
  <2>2. queue = <<waiting>> BY <1>2, <2>1 DEF TypeOK, QueueInv
  <2> QED BY <2>1, <2>2 DEF Queued
<1> QED BY <1>1, <1>2

(* Three frames: what a step may leave alone to keep an invariant.         *)
LEMMA JobsFrame ==
  ASSUME LedgerInv, HistoryInv,
         UNCHANGED <<engineJob, waiting, queue, ledger, promise, historyVars>>
  PROVE  LedgerInv' /\ HistoryInv'
BY DEF LedgerInv, HistoryInv, LedgerOk, HistoryOk, Retained, historyVars

\* The listener's part.
LEMMA WaitFrame ==
  ASSUME QueueInv, WaiterInv,
         UNCHANGED <<listener, waiting, queue, ledger, kind, answer>>
  PROVE  QueueInv' /\ WaiterInv'
BY DEF QueueInv, WaiterInv, Pending, Retained

\* The engine's part.
LEMMA EngineFrame ==
  ASSUME EngineInv,
         UNCHANGED <<engineJob, ledger, promise, runs>>,
         enginePc' \in {"exec", "complete"} <=> enginePc \in {"exec", "complete"}
  PROVE  EngineInv'
BY DEF EngineInv, Retained

(* Steps of the console, the operator and the engine that leave the jobs   *)
(* alone: only the control invariants are at stake.                        *)
LEMMA QuietStep ==
  ASSUME IInv,
         \/ \E write \in BOOLEAN : LocalWriteMode(write)
         \/ Interrupt
         \/ Arm \/ ArmFails \/ EndpointFails \/ LoopOrLeave \/ PopNothing
         \/ CancelReader \/ JoinReader \/ Stop \/ JoinListener
         \/ Disarm \/ DisarmFails
         \/ Reader
  PROVE  IInv'
<1> USE DEF serverVars, gateVars, engineVars, jobVars, historyVars
<1>1. /\ UNCHANGED <<engineJob, listener, waiting, queue, ledger, promise, historyVars>>
      /\ enginePc' \in {"exec", "complete"} <=> enginePc \in {"exec", "complete"}
  BY DEF LocalWriteMode, Interrupt, Arm, ArmFails, EndpointFails, LoopOrLeave, PopNothing,
         CancelReader, JoinReader, Stop, JoinListener, Disarm, DisarmFails, Reader,
         ReaderCheck, ReaderEnters, ReadConsoleLine, RequestStop, RequestStopEnds
<1>2. QueueInv' /\ WaiterInv' /\ EngineInv' /\ LedgerInv' /\ HistoryInv'
  BY <1>1, JobsFrame, WaitFrame, EngineFrame DEF IInv
<1>3. TypeOK' /\ ThreadInv' /\ GateInv'
  <2> USE <1>1 DEF IInv, TypeOK, ThreadInv, GateInv, GateFollowsItsUser, EnginePcs, Serving, Leaving
  <2>1. CASE \E write \in BOOLEAN : LocalWriteMode(write)
    BY <2>1 DEF LocalWriteMode
  <2>2. CASE Interrupt
    BY <2>2 DEF Interrupt
  <2>3. CASE Arm
    BY <2>3 DEF Arm
  <2>4. CASE ArmFails
    BY <2>4 DEF ArmFails
  <2>5. CASE EndpointFails
    BY <2>5 DEF EndpointFails
  <2>6. CASE LoopOrLeave
    BY <2>6 DEF LoopOrLeave
  <2>7. CASE PopNothing
    BY <2>7 DEF PopNothing
  <2>8. CASE CancelReader
    BY <2>8 DEF CancelReader
  <2>9. CASE JoinReader
    BY <2>9 DEF JoinReader
  <2>10. CASE Stop
    BY <2>10 DEF Stop
  <2>11. CASE JoinListener
    BY <2>11 DEF JoinListener
  <2>12. CASE Disarm
    BY <2>12 DEF Disarm
  <2>13. CASE DisarmFails
    BY <2>13 DEF DisarmFails
  <2>14. CASE ReaderCheck
    BY <2>14 DEF ReaderCheck, ControlStop
  <2>15. CASE ReaderEnters
    BY <2>15 DEF ReaderEnters
  <2>16. CASE ReadConsoleLine
    BY <2>16 DEF ReadConsoleLine
  <2>17. CASE RequestStop
    BY <2>17 DEF RequestStop
  <2>18. CASE RequestStopEnds
    <3>1. TypeOK'
      <4>1. running' \in BOOLEAN /\ reader' = "none"
        BY <2>18 DEF RequestStopEnds
      <4> QED BY <2>18, <4>1 DEF RequestStopEnds
    <3>2. ThreadInv' /\ GateInv'
      BY <2>18 DEF RequestStopEnds
    <3> QED BY <3>1, <3>2
  <2> QED BY <2>1, <2>2, <2>3, <2>4, <2>5, <2>6, <2>7, <2>8, <2>9, <2>10, <2>11, <2>12, <2>13, <2>14, <2>15, <2>16, <2>17, <2>18 DEF Reader
<1> QED BY <1>2, <1>3 DEF IInv

(* Start finds no job anywhere, so the new ledger forgets none.            *)
LEMMA RestartStep ==
  ASSUME IInv, (\E write \in BOOLEAN : Start(write)) \/ StartFails
  PROVE  IInv'
<1> USE DEF serverVars, gateVars, engineVars, jobVars, historyVars
<1>1. /\ listener = "off" /\ waiting = NoJob /\ engineJob = NoJob /\ queue = <<>>
      /\ reader = "none"
  BY DEF IInv, ThreadInv, WaiterInv, EngineInv, QueueInv, Start, StartFails, Serving
<1>2. /\ ledger' = [id \in Ids |-> Absent]
      /\ order' = 0
      /\ session' = FALSE
      /\ listener' \in {"receive", "off"}
      /\ enginePc' \in {"arm", "repl"}
      /\ allowWrite' \in BOOLEAN
      /\ UNCHANGED <<engineJob, engineResult, disarms, waiting, reader, interrupted, gateVars, queue, promise, historyVars>>
  BY <1>1 DEF Start, StartFails
<1>3. TypeOK'
  <2>1. ledger' \in [Ids -> [state : States, order : Nat, dispatched : BOOLEAN, finished : BOOLEAN]]
    BY <1>2 DEF Absent, States
  <2>2. /\ running' \in BOOLEAN /\ stopRequested' \in BOOLEAN /\ events' \in BOOLEAN
    BY DEF IInv, TypeOK, Start, StartFails
  <2> QED BY <1>2, <2>1, <2>2 DEF IInv, TypeOK, EnginePcs
<1>4. QueueInv' /\ WaiterInv' /\ EngineInv'
  BY <1>1, <1>2, IdsAssumption DEF IInv, QueueInv, WaiterInv, EngineInv, NoJob
<1>5. LedgerInv'
  BY <1>2 DEF LedgerInv, LedgerOk, Retained, Absent
<1>6. HistoryInv'
  BY <1>2 DEF IInv, HistoryInv, HistoryOk, Retained, Absent
<1>7. ThreadInv' /\ GateInv'
  BY <1>1, <1>2 DEF IInv, ThreadInv, GateInv, GateFollowsItsUser, Start, StartFails, Serving
<1> QED BY <1>3, <1>4, <1>5, <1>6, <1>7 DEF IInv

(* DispatchMcpRequest touches the target, not the records.                 *)
LEMMA DispatchStep ==
  ASSUME IInv, NEW outcome \in Outcomes, Dispatch(outcome)
  PROVE  IInv'
<1> USE DEF serverVars, gateVars, engineVars, jobVars, historyVars
<1>1. /\ engineJob \in Ids /\ runs[engineJob] = 1
      /\ enginePc = "exec" /\ enginePc' = "complete"
      /\ effects' \in {effects, effects \cup {engineJob}}
      /\ UNCHANGED <<engineJob, listener, waiting, reader, serverVars, gateVars, disarms, session, jobVars, kind, runs, answer>>
  BY DEF IInv, TypeOK, EngineInv, Dispatch
<1>2. TypeOK'
  BY <1>1 DEF IInv, TypeOK, EnginePcs, Serving, Dispatch
<1>3. QueueInv' /\ WaiterInv'
  BY <1>1, WaitFrame DEF IInv
<1>4. EngineInv'
  BY <1>1, EngineFrame DEF IInv
<1>5. LedgerInv'
  BY <1>1 DEF IInv, LedgerInv, LedgerOk, Retained
<1>6. HistoryInv'
  BY <1>1 DEF IInv, HistoryInv, HistoryOk, Retained
<1>7. ThreadInv' /\ GateInv'
  BY <1>1 DEF IInv, ThreadInv, GateInv, GateFollowsItsUser, Serving
<1> QED BY <1>2, <1>3, <1>4, <1>5, <1>6, <1>7 DEF IInv

(* TryPopJob: the head of the queue is the waiter's job and can start.     *)
LEMMA TryPopStep ==
  ASSUME IInv, TryPopJob
  PROVE  IInv'
<1> USE DEF serverVars, gateVars, engineVars, jobVars, historyVars
<1>1. /\ Head(queue) = waiting
      /\ Pending(waiting) /\ waiting \in Ids
      /\ queue' = <<>>
      /\ engineJob = NoJob
      /\ listener \in {"wait", "expired"}
  BY OneJob DEF IInv, QueueInv, EngineInv, TypeOK, TryPopJob, Pending, Retained
<1>2. /\ ledger' = [ledger EXCEPT ![waiting] = Started(@)]
      /\ engineJob' = waiting
      /\ runs' = [runs EXCEPT ![waiting] = @ + 1]
      /\ enginePc' = "exec"
      /\ UNCHANGED <<listener, waiting, reader, events, allowWrite, gateVars, promise, kind, effects, answer>>
  BY <1>1 DEF TryPopJob
<1>3. runs[waiting] = 0 /\ promise[waiting] = "none" /\ answer[waiting] = "none"
  BY <1>1 DEF IInv, LedgerInv, LedgerOk, HistoryInv, HistoryOk, WaiterInv, Pending, Retained
<1>4. TypeOK'
  <2>1. Started(ledger[waiting]) \in [state : States, order : Nat, dispatched : BOOLEAN, finished : BOOLEAN]
    BY <1>1 DEF IInv, TypeOK, Started, States
  <2> QED BY <1>1, <1>2, <2>1 DEF IInv, TypeOK, EnginePcs, Serving, TryPopJob
<1>5. QueueInv' /\ WaiterInv'
  BY <1>1, <1>2 DEF IInv, QueueInv, WaiterInv
<1>6. EngineInv'
  BY <1>1, <1>2, <1>3, IdsAssumption DEF IInv, EngineInv, TypeOK, Pending, Retained, Started, NoJob
<1>a. /\ ledger'[waiting].state = "running"
      /\ ledger'[waiting].dispatched
      /\ ~ledger'[waiting].finished
      /\ runs'[waiting] = 1
      /\ \A id \in Ids \ {waiting} : ledger'[id] = ledger[id] /\ runs'[id] = runs[id]
  BY <1>1, <1>2, <1>3 DEF IInv, TypeOK, Started, Pending
<1>7. LedgerInv'
  <2> SUFFICES ASSUME NEW id \in Ids PROVE LedgerOk(id)'
    BY DEF LedgerInv
  <2>1. LedgerOk(id)
    BY DEF IInv, LedgerInv
  <2>2. CASE id = waiting
    BY <1>1, <1>2, <1>3, <1>a, <2>2 DEF LedgerOk, Retained
  <2>3. CASE id # waiting
    BY <1>1, <1>2, <1>a, <2>1, <2>3, IdsAssumption DEF LedgerOk, Retained, NoJob
  <2> QED BY <2>2, <2>3
<1>8. HistoryInv'
  <2> SUFFICES ASSUME NEW id \in Ids PROVE HistoryOk(id)'
    BY DEF HistoryInv
  <2>1. HistoryOk(id)
    BY DEF IInv, HistoryInv
  <2>2. CASE id = waiting
    BY <1>1, <1>2, <1>3, <1>a, <2>1, <2>2 DEF IInv, WaiterInv, HistoryOk
  <2>3. CASE id # waiting
    BY <1>1, <1>2, <1>a, <2>1, <2>3, IdsAssumption DEF HistoryOk, Retained, NoJob
  <2> QED BY <2>2, <2>3
<1>9. ThreadInv' /\ GateInv'
  BY <1>1, <1>2 DEF IInv, ThreadInv, GateInv, GateFollowsItsUser, Serving, TryPopJob
<1> QED BY <1>4, <1>5, <1>6, <1>7, <1>8, <1>9 DEF IInv

(* CompleteJob: the engine's job is dispatched and unfinished.             *)
LEMMA CompleteStep ==
  ASSUME IInv, CompleteJob
  PROVE  IInv'
<1> USE DEF serverVars, gateVars, engineVars, jobVars, historyVars
<1>1. /\ engineJob \in Ids
      /\ Completable(engineJob)
      /\ runs[engineJob] = 1
      /\ engineJob \in Retained
  BY DEF IInv, EngineInv, TypeOK, CompleteJob, Completable
<1>2. /\ ledger' = [ledger EXCEPT ![engineJob].state = engineResult,
                                  ![engineJob].finished = TRUE]
      /\ promise' = [promise EXCEPT ![engineJob] = engineResult]
      /\ engineJob' = NoJob
      /\ enginePc' = "drain"
      /\ UNCHANGED <<listener, waiting, reader, events, allowWrite, gateVars, queue, kind, runs, effects, answer>>
  BY <1>1 DEF CompleteJob
<1>3. /\ ledger'[engineJob].state = engineResult
      /\ ledger'[engineJob].dispatched
      /\ ledger'[engineJob].finished
      /\ promise'[engineJob] = engineResult
      /\ engineResult \in Outcomes
      /\ \A id \in Ids \ {engineJob} : ledger'[id] = ledger[id] /\ promise'[id] = promise[id]
      /\ waiting \in Ids /\ queue # <<>> => waiting # engineJob
  BY <1>1, <1>2 DEF IInv, TypeOK, Completable, QueueInv, Pending
<1>4. TypeOK'
  <2>1. /\ ledger[engineJob] \in [state : States, order : Nat, dispatched : BOOLEAN, finished : BOOLEAN]
        /\ engineResult \in States
    BY <1>1 DEF IInv, TypeOK, States
  <2>2. [ledger[engineJob] EXCEPT !.state = engineResult, !.finished = TRUE]
          \in [state : States, order : Nat, dispatched : BOOLEAN, finished : BOOLEAN]
    BY <2>1
  <2>3. ledger' = [ledger EXCEPT ![engineJob] = [ledger[engineJob] EXCEPT !.state = engineResult, !.finished = TRUE]]
    BY <1>1, <1>2 DEF IInv, TypeOK
  <2>4. ledger' \in [Ids -> [state : States, order : Nat, dispatched : BOOLEAN, finished : BOOLEAN]]
    BY <1>1, <2>2, <2>3 DEF IInv, TypeOK
  <2>5. promise' \in [Ids -> {"none"} \cup Outcomes \cup {"stopping"}]
    BY <1>1, <1>2 DEF IInv, TypeOK
  <2> QED BY <1>1, <1>2, <2>4, <2>5 DEF IInv, TypeOK, EnginePcs, Serving, CompleteJob, Outcomes
<1>5. QueueInv' /\ WaiterInv'
  BY <1>1, <1>2, <1>3 DEF IInv, QueueInv, WaiterInv, Pending, Retained, TypeOK
<1>6. EngineInv'
  BY <1>2, IdsAssumption DEF IInv, EngineInv, NoJob
<1>7. LedgerInv'
  <2> SUFFICES ASSUME NEW id \in Ids PROVE LedgerOk(id)'
    BY DEF LedgerInv
  <2>1. LedgerOk(id)
    BY DEF IInv, LedgerInv
  <2>2. CASE id = engineJob
    BY <1>1, <1>2, <1>3, <2>1, <2>2 DEF LedgerOk, Retained, Outcomes
  <2>3. CASE id # engineJob
    BY <1>1, <1>2, <1>3, <2>1, <2>3 DEF LedgerOk, Retained
  <2> QED BY <2>2, <2>3
<1>8. HistoryInv'
  <2> SUFFICES ASSUME NEW id \in Ids PROVE HistoryOk(id)'
    BY DEF HistoryInv
  <2>1. HistoryOk(id)
    BY DEF IInv, HistoryInv
  <2>2. CASE id = engineJob
    BY <1>1, <1>2, <1>3, <2>1, <2>2 DEF HistoryOk, Retained, Outcomes
  <2>3. CASE id # engineJob
    BY <1>1, <1>2, <1>3, <2>1, <2>3 DEF HistoryOk, Retained
  <2> QED BY <2>2, <2>3
<1>9. ThreadInv' /\ GateInv'
  BY <1>2 DEF IInv, ThreadInv, GateInv, GateFollowsItsUser, Serving, CompleteJob
<1> QED BY <1>4, <1>5, <1>6, <1>7, <1>8, <1>9 DEF IInv

(* Stop has joined the listener: there is nothing left to flush.           *)
LEMMA FlushStep ==
  ASSUME IInv, StopFlush
  PROVE  IInv'
<1> USE DEF serverVars, gateVars, engineVars, jobVars, historyVars
<1>1. queue = <<>> /\ Queued = {} /\ reader = "none" /\ listener = "off" /\ engineJob = NoJob
  BY DEF IInv, QueueInv, ThreadInv, EngineInv, StopFlush, Queued, Serving
<1>2. ledger' = ledger /\ promise' = promise /\ queue' = queue
  <2>1. ledger' = [id \in Ids |-> ledger[id]] /\ promise' = [id \in Ids |-> promise[id]]
    BY <1>1 DEF StopFlush
  <2> QED BY <1>1, <2>1 DEF IInv, TypeOK, StopFlush
<1>3. /\ enginePc = "flush" /\ enginePc' \in {"disarm", "repl"}
      /\ events' = FALSE /\ session' = FALSE /\ disarms' = FALSE
      /\ UNCHANGED <<engineJob, engineResult, listener, waiting, reader, running, stopRequested, interrupted, allowWrite, gateVars, order, historyVars>>
  BY DEF StopFlush
<1>4. TypeOK'
  <2>1. /\ enginePc' \in EnginePcs
        /\ events' \in BOOLEAN /\ session' \in BOOLEAN /\ disarms' \in BOOLEAN
    BY <1>3 DEF EnginePcs, Leaving
  <2> QED BY <1>2, <1>3, <2>1 DEF IInv, TypeOK
<1>5. QueueInv' /\ WaiterInv' /\ EngineInv' /\ LedgerInv' /\ HistoryInv'
  BY <1>2, <1>3, JobsFrame, WaitFrame, EngineFrame DEF IInv
<1>6. ThreadInv' /\ GateInv'
  BY <1>1, <1>3 DEF IInv, ThreadInv, GateInv, GateFollowsItsUser, Serving, StopFlush
<1> QED BY <1>4, <1>5, <1>6 DEF IInv

(* The listener's steps outside the queue lock.                            *)
LEMMA ListenerStep ==
  ASSUME IInv, Initialize \/ WaitEnds \/ ListenerExit
  PROVE  IInv'
<1> USE DEF serverVars, gateVars, engineVars, jobVars, historyVars
<1>1. /\ UNCHANGED <<enginePc, engineJob, engineResult, disarms, waiting, reader, running, stopRequested, interrupted, events, allowWrite, gateVars, queue, ledger, order, promise, kind, runs, effects, answer>>
      /\ \/ listener' = listener
         \/ listener = "wait" /\ listener' = "expired"
         \/ listener = "receive" /\ listener' = "off"
      /\ session' = session \/ session' = TRUE
  BY DEF Initialize, WaitEnds, ListenerExit
<1>2. TypeOK'
  <2>1. session' \in BOOLEAN
    BY <1>1 DEF IInv, TypeOK
  <2> QED BY <1>1, <2>1 DEF IInv, TypeOK
<1>3. QueueInv' /\ WaiterInv'
  BY <1>1 DEF IInv, QueueInv, WaiterInv, Pending, Retained
<1>4. EngineInv' /\ LedgerInv' /\ HistoryInv'
  BY <1>1, JobsFrame, EngineFrame DEF IInv
<1>5. ThreadInv' /\ GateInv'
  BY <1>1 DEF IInv, ThreadInv, GateInv, GateFollowsItsUser
<1> QED BY <1>2, <1>3, <1>4, <1>5 DEF IInv

(* EnqueueAndWait's admission: eviction only takes a finished record.      *)
LEMMA EnqueueStep ==
  ASSUME IInv, NEW id \in Ids, NEW k \in Kinds, Enqueue(id, k)
  PROVE  IInv'
<1> DEFINE Record == [state : States, order : Nat, dispatched : BOOLEAN, finished : BOOLEAN]
<1>1. /\ UNCHANGED <<enginePc, engineJob, engineResult, disarms, reader, running, stopRequested, interrupted, events, allowWrite, gateVars, session, promise, runs, effects, answer>>
      /\ kind' = [kind EXCEPT ![id] = k]
      /\ listener = "receive" /\ listener' = "wait"
      /\ waiting' = id
      /\ order' = order + 1
      /\ id \notin Retained
      /\ kind[id] = "none"
      /\ k # "none"
  BY KindsAssumption DEF Enqueue, Begin, serverVars, engineVars
<1>2. queue = <<>> /\ queue' = <<id>>
  <2>1. queue = <<>>
    BY <1>1 DEF IInv, QueueInv
  <2>2. queue' = Append(queue, id)
    BY DEF Enqueue
  <2> QED BY <2>1, <2>2
<1>3. /\ ledger' \in [Ids -> Record]
      /\ ledger'[id].state = "queued"
      /\ ~ledger'[id].dispatched
      /\ ~ledger'[id].finished
      /\ \A other \in Ids \ {id} :
           \/ ledger'[other] = ledger[other]
           \/ ledger'[other] = Absent /\ other \in Retained /\ ledger[other].finished
  <2> DEFINE record == [state |-> "queued", order |-> order + 1,
                        dispatched |-> FALSE, finished |-> FALSE]
  <2>0. order + 1 \in Nat
    BY DEF IInv, TypeOK
  <2>1. record \in Record
    BY <2>0 DEF States
  <2>2. Absent \in Record
    BY DEF Absent, States
  <2>3. CASE ledger' = [ledger EXCEPT ![id] = record]
    BY <2>1, <2>3 DEF IInv, TypeOK
  <2>4. CASE \E victim \in OldestFinished : ledger' = [ledger EXCEPT ![victim] = Absent, ![id] = record]
    <3>1. PICK victim \in OldestFinished : ledger' = [ledger EXCEPT ![victim] = Absent, ![id] = record]
      BY <2>4
    <3>2. victim \in Retained /\ ledger[victim].finished /\ victim \in Ids
      BY DEF OldestFinished, Finished, Retained
    <3>3. victim # id
      BY <1>1, <3>2
    <3>4. /\ ledger' = [other \in Ids |-> IF other = id THEN record
                                          ELSE IF other = victim THEN Absent
                                          ELSE ledger[other]]
      BY <3>1, <3>2, <3>3 DEF IInv, TypeOK
    <3>5. ledger' \in [Ids -> Record]
      <4> HIDE DEF record, Record
      <4>1. \A other \in Ids : ledger[other] \in Record
        BY DEF IInv, TypeOK, Record
      <4> QED BY <2>1, <2>2, <3>4, <4>1
    <3>6. /\ ledger'[id] = record
          /\ \A other \in Ids \ {id} : ledger'[other] = IF other = victim THEN Absent ELSE ledger[other]
      <4> HIDE DEF record
      <4> QED BY <3>4
    <3> QED BY <3>2, <3>5, <3>6
  <2> QED BY <2>3, <2>4 DEF Enqueue, Begin
<1>4. TypeOK'
  <2>1. queue' \in Seq(Ids)
    BY <1>2
  <2>2. kind' \in [Ids -> {"none"} \cup Kinds]
    BY <1>1 DEF IInv, TypeOK
  <2>3. order' \in Nat
    BY <1>1 DEF IInv, TypeOK
  <2> QED BY <1>1, <1>3, <2>1, <2>2, <2>3 DEF IInv, TypeOK, gateVars
<1>5. runs[id] = 0 /\ answer[id] = "none" /\ promise[id] = "none" /\ id \notin effects
  BY <1>1 DEF IInv, HistoryInv, HistoryOk
<1>6. QueueInv' /\ WaiterInv'
  <2>1. Len(queue') = 1 /\ queue'[1] = id
    BY <1>2
  <2>2. kind'[id] # "none"
    BY <1>1 DEF IInv, TypeOK
  <2> QED BY <1>1, <1>3, <1>5, <2>1, <2>2, IdsAssumption DEF QueueInv, WaiterInv, Pending, Retained, NoJob
<1>7. EngineInv'
  BY <1>1, <1>3, <1>5 DEF IInv, TypeOK, EngineInv, Retained
<1>8. LedgerInv'
  <2> SUFFICES ASSUME NEW other \in Ids PROVE LedgerOk(other)'
    BY DEF LedgerInv
  <2>1. CASE other = id
    <3>1. queue' # <<>>
      BY <1>2
    <3> QED BY <1>1, <1>3, <1>5, <2>1, <3>1 DEF LedgerOk, Retained
  <2>2. CASE other # id
    <3>1. LedgerOk(other) /\ (queue = <<>>)
      BY <1>2 DEF IInv, LedgerInv
    <3> QED BY <1>1, <1>3, <2>2, <3>1 DEF LedgerOk, Retained, Absent
  <2> QED BY <2>1, <2>2
<1>9. HistoryInv'
  <2> SUFFICES ASSUME NEW other \in Ids PROVE HistoryOk(other)'
    BY DEF HistoryInv
  <2>1. HistoryOk(other)
    BY DEF IInv, HistoryInv
  <2>2. kind'[other] = IF other = id THEN k ELSE kind[other]
    BY <1>1 DEF IInv, TypeOK
  <2> QED BY <1>1, <1>3, <2>1, <2>2 DEF HistoryOk, Retained, Absent
<1>10. ThreadInv' /\ GateInv'
  BY <1>1 DEF gateVars, IInv, ThreadInv, GateInv, GateFollowsItsUser
<1> QED BY <1>4, <1>6, <1>7, <1>8, <1>9, <1>10 DEF IInv

(* Any reply that keeps its own record right keeps the invariant.          *)
LEMMA ReplyStep ==
  ASSUME IInv, NEW w \in Ids, w = waiting, NEW told \in Answers \ {"none"}, Reply(told),
         queue' = <<>>,
         told = "cancelled" => runs[w] = 0,
         ledger' \in [Ids -> [state : States, order : Nat,
                              dispatched : BOOLEAN, finished : BOOLEAN]],
         \A id \in Ids \ {w} : ledger'[id] = ledger[id],
         LedgerOk(w)', w \in Retained' <=> w \in Retained,
         engineJob = w => ledger'[w].dispatched /\ ~ledger'[w].finished
  PROVE  IInv'
<1> USE DEF serverVars, gateVars, engineVars, jobVars, historyVars
<1>1. /\ answer' = [answer EXCEPT ![waiting] = told]
      /\ listener' = "receive"
      /\ waiting' = NoJob
      /\ UNCHANGED <<enginePc, engineJob, engineResult, disarms, reader, running, stopRequested, interrupted, events, allowWrite, gateVars, session, order, promise, kind, runs, effects>>
  BY DEF Reply
<1>2. TypeOK'
  <2>1. queue' \in Seq(Ids)
    OBVIOUS
  <2>2. answer' \in [Ids -> Answers]
    BY <1>1 DEF IInv, TypeOK
  <2> QED BY <1>1, <2>1, <2>2 DEF IInv, TypeOK
<1>3. QueueInv' /\ WaiterInv'
  <2>1. Len(<<>>) = 0
    OBVIOUS
  <2> QED BY <1>1, <2>1, IdsAssumption DEF QueueInv, WaiterInv, NoJob
<1>4. EngineInv'
  BY <1>1 DEF IInv, EngineInv, Retained
<1>5. LedgerInv'
  <2> SUFFICES ASSUME NEW id \in Ids, id # w PROVE LedgerOk(id)'
    BY DEF LedgerInv
  <2>1. LedgerOk(id) /\ ledger'[id] = ledger[id]
    BY DEF IInv, LedgerInv
  <2> QED BY <1>1, <2>1, IdsAssumption DEF LedgerOk, Retained, NoJob
<1>6. HistoryInv'
  <2> SUFFICES ASSUME NEW id \in Ids PROVE HistoryOk(id)'
    BY DEF HistoryInv
  <2>1. HistoryOk(id)
    BY DEF IInv, HistoryInv
  <2>2. CASE id = w
    <3>1. answer'[id] = told /\ kind[id] # "none"
      BY <1>1, <2>2 DEF IInv, TypeOK, WaiterInv
    <3> QED BY <1>1, <2>1, <2>2, <3>1 DEF HistoryOk
  <2>3. CASE id # w
    <3>1. answer'[id] = answer[id] /\ ledger'[id] = ledger[id]
      BY <1>1, <2>3 DEF IInv, TypeOK
    <3> QED BY <1>1, <2>1, <3>1 DEF HistoryOk, Retained
  <2> QED BY <2>2, <2>3
<1>7. ThreadInv' /\ GateInv'
  <2>1. enginePc \notin {"repl", "flush", "disarm"}
    BY IdsAssumption DEF IInv, ThreadInv, WaiterInv, NoJob, TypeOK
  <2> QED BY <1>1, <2>1 DEF IInv, ThreadInv, GateInv, GateFollowsItsUser
<1> QED BY <1>2, <1>3, <1>4, <1>5, <1>6, <1>7 DEF IInv

(* The three ways a wait ends.                                             *)
LEMMA ReadyStep ==
  ASSUME IInv, WaitReady \/ ResolveReady
  PROVE  IInv'
<1>0. PICK w \in Ids : w = waiting
  BY DEF IInv, TypeOK, WaiterInv, WaitReady, ResolveReady, ResolveQueued, ResolveDispatched
<1> USE <1>0
<1>1. /\ w = waiting
      /\ promise[w] # "none"
      /\ UNCHANGED <<queue, ledger, runs, promise, engineJob>>
      /\ Reply(Told(waiting))
  BY DEF IInv, TypeOK, WaiterInv, WaitReady, ResolveReady, Ready, Reply, historyVars, engineVars
<1>2. LedgerOk(w) /\ HistoryOk(w)
  BY <1>1 DEF IInv, LedgerInv, HistoryInv
<1>3. queue = <<>>
  BY <1>1, <1>2 DEF IInv, QueueInv, Pending, LedgerOk, HistoryOk
<1>4. Told(waiting) \in {"unknown", "result"}
  BY <1>1, <1>2 DEF HistoryOk, Told
<1>5. engineJob # w
  BY <1>1 DEF IInv, EngineInv
<1>6. LedgerOk(w)'
  BY <1>1, <1>2, <1>3, <1>5, IdsAssumption DEF LedgerOk, Retained, Reply, NoJob
<1> QED BY <1>1, <1>3, <1>4, <1>5, <1>6, ReplyStep DEF IInv, TypeOK, Answers, Retained

\* The wait ends with the job still queued: it is taken back and never runs.
LEMMA QueuedStep ==
  ASSUME IInv, ResolveQueued
  PROVE  IInv'
<1>0. PICK w \in Ids : w = waiting
  BY DEF IInv, TypeOK, WaiterInv, WaitReady, ResolveReady, ResolveQueued, ResolveDispatched
<1> USE <1>0
<1>1. Reply("cancelled") /\ UNCHANGED <<engineJob, runs, promise>>
  BY DEF IInv, TypeOK, WaiterInv, ResolveQueued, Reply, engineVars
<1>2. queue = <<waiting>> /\ Len(queue) = 1
  BY OneJob DEF IInv, TypeOK, ResolveQueued
<1>3. Pending(w)
  BY <1>2 DEF IInv, QueueInv
<1>4. queue' = <<>>
  BY <1>2 DEF ResolveQueued
<1>5. ledger' = [ledger EXCEPT ![w] = Cancelled(@)]
  BY <1>3 DEF ResolveQueued
<1>6. /\ ledger' \in [Ids -> [state : States, order : Nat, dispatched : BOOLEAN, finished : BOOLEAN]]
      /\ \A id \in Ids \ {w} : ledger'[id] = ledger[id]
      /\ ledger'[w].state = "cancelled_before_execution"
      /\ ~ledger'[w].dispatched
      /\ ledger'[w].finished
  BY <1>1, <1>3, <1>5 DEF IInv, TypeOK, Cancelled, States, Pending
<1>7. LedgerOk(w) /\ HistoryOk(w)
  BY <1>1 DEF IInv, LedgerInv, HistoryInv
<1>8. runs[w] = 0 /\ engineJob # w
  BY <1>1, <1>3, <1>7 DEF IInv, EngineInv, Pending, LedgerOk, HistoryOk
<1>9. LedgerOk(w)' /\ (w \in Retained' <=> w \in Retained)
  BY <1>1, <1>3, <1>6, <1>8 DEF LedgerOk, Retained, Pending
<1> QED BY <1>1, <1>4, <1>6, <1>8, <1>9, ReplyStep DEF Answers

\* The wait ends with the job in the engine's hands: its outcome is unknown.
LEMMA DispatchedStep ==
  ASSUME IInv, ResolveDispatched
  PROVE  IInv'
<1>0. PICK w \in Ids : w = waiting
  BY DEF IInv, TypeOK, WaiterInv, WaitReady, ResolveReady, ResolveQueued, ResolveDispatched
<1> USE <1>0
<1>1. /\ Reply("unknown")
      /\ UNCHANGED <<engineJob, runs, promise, queue>>
      /\ ledger' = [ledger EXCEPT ![w] = WaitEnded(@)]
  BY DEF IInv, TypeOK, WaiterInv, ResolveDispatched, Reply, engineVars
<1>2. queue = <<>>
  BY OneJob DEF IInv, ResolveDispatched
<1>3. /\ ledger' \in [Ids -> [state : States, order : Nat, dispatched : BOOLEAN, finished : BOOLEAN]]
      /\ \A id \in Ids \ {w} : ledger'[id] = ledger[id]
      /\ ledger'[w] = WaitEnded(ledger[w])
  <2>1. ledger[w] \in [state : States, order : Nat, dispatched : BOOLEAN, finished : BOOLEAN]
    BY DEF IInv, TypeOK
  <2>2. WaitEnded(ledger[w]) \in [state : States, order : Nat, dispatched : BOOLEAN, finished : BOOLEAN]
    BY <2>1 DEF WaitEnded, States, Outcomes
  <2> QED BY <1>1, <2>2 DEF IInv, TypeOK
<1>4. LedgerOk(w) /\ HistoryOk(w)
  BY <1>1 DEF IInv, LedgerInv, HistoryInv
<1>5. /\ ledger'[w].dispatched = ledger[w].dispatched
      /\ ledger'[w].finished = ledger[w].finished
      /\ \/ ledger'[w] = ledger[w]
         \/ ledger'[w].state = "unknown_outcome" /\ ledger[w].dispatched /\ ~ledger[w].finished
  BY <1>1, <1>3 DEF WaitEnded, IInv, TypeOK
<1>6. LedgerOk(w)' /\ (w \in Retained' <=> w \in Retained)
  BY <1>1, <1>2, <1>4, <1>5 DEF LedgerOk, Retained, Absent
<1>7. engineJob = w => ledger'[w].dispatched /\ ~ledger'[w].finished
  BY <1>1, <1>5 DEF IInv, EngineInv
<1> QED BY <1>1, <1>2, <1>3, <1>6, <1>7, ReplyStep DEF Answers

-----------------------------------------------------------------------------

\* The inductive invariant holds at first.
LEMMA InitInv == Init => IInv
<1> SUFFICES ASSUME Init PROVE IInv
  OBVIOUS
<1>1. TypeOK
  <2>1. /\ ledger \in [Ids -> [state : States, order : Nat,
                              dispatched : BOOLEAN, finished : BOOLEAN]]
        /\ queue \in Seq(Ids)
    BY DEF Init, Absent, States
  <2> QED
    BY <2>1 DEF Init, TypeOK, EnginePcs, Outcomes, Answers
<1>2. QueueInv /\ WaiterInv /\ EngineInv
  BY IdsAssumption DEF Init, QueueInv, WaiterInv, EngineInv, NoJob
<1>3. LedgerInv /\ HistoryInv
  BY DEF Init, LedgerInv, HistoryInv, LedgerOk, HistoryOk, Retained, Absent
<1>4. ThreadInv /\ GateInv
  BY DEF Init, ThreadInv, GateInv, GateFollowsItsUser, Serving
<1> QED
  BY <1>1, <1>2, <1>3, <1>4 DEF IInv

\* Every step keeps it.
LEMMA NextInv == IInv /\ [Next]_vars => IInv'
<1> SUFFICES ASSUME IInv, [Next]_vars PROVE IInv'
  OBVIOUS
<1>1. CASE Operator
  BY <1>1, RestartStep, QuietStep DEF Operator
<1>2. CASE Engine
  BY <1>2, QuietStep, TryPopStep, DispatchStep, CompleteStep, FlushStep DEF Engine
<1>3. CASE Reader
  BY <1>3, QuietStep
<1>4. CASE Client
  BY <1>4, ListenerStep, EnqueueStep DEF Client
<1>5. CASE Waiter
  BY <1>5, ReadyStep, ListenerStep, QueuedStep, DispatchedStep DEF Waiter
<1>6. CASE ListenerExit
  BY <1>6, ListenerStep
<1>7. CASE UNCHANGED vars
  <2>1. UNCHANGED <<listener, waiting, reader, enginePc, engineJob, engineResult, disarms,
                    running, stopRequested, interrupted, events, allowWrite, gateVars, session,
                    queue, ledger, order, promise, kind, runs, effects, answer>>
    BY <1>7 DEF vars, engineVars, serverVars, gateVars, jobVars, historyVars
  <2>2. TypeOK'
    BY <2>1 DEF IInv, TypeOK, gateVars
  <2>3. QueueInv' /\ WaiterInv' /\ EngineInv' /\ LedgerInv' /\ HistoryInv'
    BY <2>1, JobsFrame, WaitFrame, EngineFrame DEF IInv, historyVars
  <2>4. ThreadInv' /\ GateInv'
    BY <2>1 DEF IInv, ThreadInv, GateInv, GateFollowsItsUser, gateVars
  <2> QED
    BY <2>2, <2>3, <2>4 DEF IInv
<1> QED
  BY <1>1, <1>2, <1>3, <1>4, <1>5, <1>6, <1>7 DEF Next

(* Whatever the threads do, IInv holds: the queue, the ledger, the promises *)
(* and the engine agree on where each operation is.                         *)
THEOREM Invariance == Spec => []IInv
  BY InitInv, NextInv, PTL DEF Spec

(* Every variable keeps its type (type correctness of the server model).    *)
THEOREM TypeCorrect == Spec => []TypeOK
<1>1. IInv => TypeOK
  BY DEF IInv
<1> QED
  BY <1>1, Invariance, PTL

(* A client told "cancelled before execution" is told the truth for good    *)
(* (EnqueueAndWait against TryPopJob).                                      *)
THEOREM CancelledIsFinal == Spec => []CancelledNeverRuns
<1>1. IInv => CancelledNeverRuns
  <2> SUFFICES ASSUME IInv, NEW id \in Ids, answer[id] = "cancelled"
               PROVE  runs[id] = 0 /\ id \notin effects \cup Queued
    BY DEF CancelledNeverRuns
  <2>1. runs[id] = 0 /\ id \notin effects
    BY DEF IInv, HistoryInv, HistoryOk
  <2>2. id \notin Queued
    BY OneJob DEF IInv, WaiterInv
  <2> QED
    BY <2>1, <2>2
<1> QED
  BY <1>1, Invariance, PTL

(* A queued job always has a waiter and a startable record, so TryPopJob    *)
(* loses no job and Stop strands no waiter (EnqueueAndWait, TryPopJob).     *)
THEOREM NoStrandedJob == Spec => []QueuedIsAwaited
<1>1. IInv => QueuedIsAwaited
  BY OneJob DEF IInv, QueueInv, QueuedIsAwaited
<1> QED
  BY <1>1, Invariance, PTL

(* operations.get reports what the engine did (McpOperationLedger).         *)
THEOREM LedgerIsTrue == Spec => []LedgerTellsTheTruth
<1>1. IInv => LedgerTellsTheTruth
  BY OneJob DEF IInv, LedgerInv, LedgerOk, LedgerTellsTheTruth, Retained, Active
<1> QED
  BY <1>1, Invariance, PTL

(* The events are closed after the last thread that uses them (Stop).       *)
THEOREM EventsSafe == Spec => []EventsOutliveThreads
<1>1. IInv => EventsOutliveThreads
  BY DEF IInv, ThreadInv, TypeOK, EventsOutliveThreads, Serving
<1> QED
  BY <1>1, Invariance, PTL

(* The gate is the server's policy while jobs are served, and a server's     *)
(* arming ends with it or with a reported failure (RunMcpEngineLoop).        *)
THEOREM GateSafe == Spec => []GateFollowsItsUser
<1>1. IInv => GateFollowsItsUser
  BY DEF IInv, GateInv
<1> QED
  BY <1>1, Invariance, PTL

-----------------------------------------------------------------------------
(* The refinement of McpOperations, and the action properties.             *)

(* What the client of an operation cannot see: the steps that move no job. *)
LEMMA HiddenStep ==
  ASSUME IInv,
         \/ Operator
         \/ Arm \/ ArmFails \/ EndpointFails \/ LoopOrLeave \/ PopNothing
         \/ CancelReader \/ JoinReader \/ Stop \/ JoinListener \/ StopFlush
         \/ Disarm \/ DisarmFails
         \/ \E outcome \in Outcomes : Dispatch(outcome)
         \/ Reader
         \/ Initialize \/ WaitEnds \/ ListenerExit
         \/ UNCHANGED vars
  PROVE  UNCHANGED <<waiting, queue, engineJob, runs, kind, answer>>
<1> USE DEF serverVars, gateVars, engineVars, jobVars, historyVars
<1>1. CASE Operator
  BY <1>1 DEF Operator, Start, StartFails, LocalWriteMode, Interrupt
<1>2. CASE StopFlush
  <2>1. queue = <<>>
    BY <1>2 DEF IInv, QueueInv, ThreadInv, StopFlush
  <2> QED
    BY <1>2, <2>1 DEF StopFlush
<1>3. CASE \/ Arm \/ ArmFails \/ EndpointFails \/ LoopOrLeave \/ PopNothing
           \/ CancelReader \/ JoinReader \/ Stop \/ JoinListener
           \/ Disarm \/ DisarmFails
           \/ \E outcome \in Outcomes : Dispatch(outcome)
  BY <1>3 DEF Arm, ArmFails, EndpointFails, LoopOrLeave, PopNothing, CancelReader, JoinReader,
              Stop, JoinListener, Disarm, DisarmFails, Dispatch
<1>4. CASE Reader
  BY <1>4 DEF Reader, ReaderCheck, ReaderEnters, ReadConsoleLine, RequestStop, RequestStopEnds
<1>5. CASE Initialize \/ WaitEnds \/ ListenerExit
  BY <1>5 DEF Initialize, WaitEnds, ListenerExit
<1>6. CASE UNCHANGED vars
  BY <1>6 DEF vars
<1> QED
  BY <1>1, <1>2, <1>3, <1>4, <1>5, <1>6

\* Phases and answers are functions of what such a step leaves alone.
LEMMA HiddenStutters ==
  ASSUME UNCHANGED <<queue, engineJob, runs, kind, answer>>
  PROVE  UNCHANGED Operations!vars
<1>1. Queued' = Queued
  BY DEF Queued
<1>2. \A id \in Ids : Phase(id)' = Phase(id)
  BY <1>1 DEF Phase
<1> QED
  BY <1>2 DEF Operations!vars

\* One job changes phase: the step is a move of the contract.
LEMMA OneMoves ==
  ASSUME NEW w \in Ids, NEW from, NEW to,
         Phase(w) = from, Phase(w)' = to,
         \A id \in Ids \ {w} : Phase(id)' = Phase(id)
  PROVE  Operations!Move(w, from, to)
BY DEF Operations!Move

(* The waiter's job that is no longer queued has been dispatched.          *)
LEMMA WaitedStep ==
  ASSUME IInv, WaitedIsRun, [Next]_vars
  PROVE  WaitedIsRun'
<1>1. CASE UNCHANGED <<waiting, queue, runs>>
  BY <1>1 DEF WaitedIsRun
<1>2. ASSUME NEW id \in Ids, NEW k \in Kinds, Enqueue(id, k)
      PROVE  WaitedIsRun'
  <2>1. queue = <<>> /\ queue' = Append(queue, id)
    BY <1>2 DEF IInv, QueueInv, Enqueue
  <2>2. queue' # <<>>
    BY <2>1
  <2> QED
    BY <2>2 DEF WaitedIsRun
<1>3. CASE TryPopJob
  <2>1. /\ Head(queue) = waiting /\ waiting \in Ids /\ Pending(waiting)
    BY <1>3, OneJob DEF IInv, QueueInv, TypeOK, TryPopJob, Pending, Retained
  <2>2. runs' = [runs EXCEPT ![waiting] = @ + 1] /\ waiting' = waiting
    BY <1>3, <2>1 DEF TryPopJob
  <2>3. runs[waiting] = 0
    BY <2>1 DEF IInv, LedgerInv, LedgerOk, HistoryInv, HistoryOk, Pending, Retained
  <2> QED
    BY <2>1, <2>2, <2>3 DEF IInv, TypeOK, WaitedIsRun
<1>4. CASE waiting' = NoJob
  BY <1>4, IdsAssumption DEF WaitedIsRun, NoJob
<1>5. CASE CompleteJob
  BY <1>5, <1>1 DEF CompleteJob, historyVars
<1>6. CASE WaitReady \/ ResolveReady \/ ResolveQueued \/ ResolveDispatched
  BY <1>4, <1>6 DEF WaitReady, ResolveReady, ResolveQueued, ResolveDispatched, Reply
<1> QED
  BY <1>1, <1>2, <1>3, <1>5, <1>6, HiddenStep DEF Next, Operator, Engine, Reader, Client, Waiter

(* Admission.                                                              *)
LEMMA EnqueueRefines ==
  ASSUME IInv, NEW id \in Ids, NEW k \in Kinds, Enqueue(id, k)
  PROVE  Operations!Admit(id)
<1>1. /\ listener = "receive" /\ kind[id] = "none" /\ queue' = Append(queue, id)
      /\ kind' = [kind EXCEPT ![id] = k]
      /\ UNCHANGED <<engineJob, runs, answer>>
  BY DEF Enqueue, engineVars
<1>2. queue = <<>> /\ Queued = {}
  BY <1>1, OneJob DEF IInv, QueueInv
<1>3. Queued' = {id}
  <2>1. queue' = <<id>>
    BY <1>1, <1>2
  <2> QED
    BY <2>1 DEF Queued
<1>4. runs[id] = 0 /\ engineJob # id
  BY <1>1 DEF IInv, HistoryInv, HistoryOk, EngineInv
<1>5. Phase(id) = "new"
  BY <1>1, <1>2, <1>4 DEF Phase
<1>6. Phase(id)' = "queued"
  <2>1. kind'[id] # "none" /\ runs'[id] = 0 /\ engineJob' # id
    BY <1>1, <1>4, KindsAssumption DEF IInv, TypeOK
  <2> QED
    BY <1>3, <2>1 DEF Phase
<1>7. ASSUME NEW other \in Ids \ {id} PROVE Phase(other)' = Phase(other)
  <2>1. kind'[other] = kind[other]
    BY <1>1 DEF IInv, TypeOK
  <2> QED
    BY <1>1, <1>2, <1>3, <2>1 DEF Phase
<1> QED
  BY <1>1, <1>5, <1>6, <1>7, OneMoves DEF Operations!Admit

(* The engine takes the waiter's job.                                      *)
LEMMA PopRefines ==
  ASSUME IInv, TryPopJob
  PROVE  Operations!Dispatch(waiting) /\ waiting \in Ids
<1>1. /\ Head(queue) = waiting /\ waiting \in Ids /\ Pending(waiting)
      /\ queue = <<waiting>> /\ engineJob = NoJob
  BY OneJob DEF IInv, QueueInv, EngineInv, TypeOK, TryPopJob, Pending, Retained
<1>2. /\ queue' = <<>>
      /\ engineJob' = waiting
      /\ runs' = [runs EXCEPT ![waiting] = @ + 1]
      /\ UNCHANGED <<kind, answer>>
  BY <1>1 DEF TryPopJob
<1>3. Queued = {waiting} /\ Queued' = {}
  BY <1>1, <1>2 DEF Queued
<1>4. Phase(waiting) = "queued" /\ Phase(waiting)' = "running"
  <2>1. runs[waiting] = 0 /\ kind[waiting] # "none" /\ engineJob # waiting
    <3>1. LedgerOk(waiting) /\ HistoryOk(waiting)
      BY <1>1 DEF IInv, LedgerInv, HistoryInv
    <3>2. kind[waiting] # "none"
      BY <1>1 DEF IInv, WaiterInv
    <3> QED
      BY <1>1, <3>1, <3>2, IdsAssumption DEF LedgerOk, HistoryOk, Pending, NoJob
  <2>2. engineJob' = waiting /\ kind'[waiting] # "none" /\ waiting \notin Queued'
    BY <1>2, <1>3, <2>1
  <2>3. Phase(waiting) = "queued"
    BY <1>3, <2>1 DEF Phase
  <2>4. Phase(waiting)' = "running"
    <3>1. waiting' = waiting
      BY DEF TryPopJob
    <3> QED
      BY <2>2, <3>1 DEF Phase
  <2> QED
    BY <2>3, <2>4
<1>5. ASSUME NEW other \in Ids \ {waiting} PROVE Phase(other)' = Phase(other)
  <2>1. runs'[other] = runs[other]
    BY <1>1, <1>2 DEF IInv, TypeOK
  <2>2. engineJob # other /\ engineJob' # other
    BY <1>1, <1>2, IdsAssumption DEF NoJob
  <2> QED
    BY <1>2, <1>3, <2>1, <2>2 DEF Phase
<1>6. Operations!Move(waiting, "queued", "running")
  <2>1. PICK w \in Ids : w = waiting
    BY <1>1
  <2>2. UNCHANGED waiting
    BY DEF TryPopJob
  <2>3. Phase(w) = "queued" /\ Phase(w)' = "running"
    BY <1>4, <2>1, <2>2
  <2> QED
    BY <1>5, <2>1, <2>3, OneMoves
<1> QED
  BY <1>1, <1>2, <1>6 DEF Operations!Dispatch

(* The engine returns.                                                     *)
LEMMA CompleteRefines ==
  ASSUME IInv, CompleteJob
  PROVE  \E id \in Ids : Operations!End(id)
<1>1. PICK w \in Ids : w = engineJob
  BY DEF IInv, EngineInv, TypeOK, CompleteJob
<1>2. /\ engineJob' = NoJob
      /\ UNCHANGED <<queue, runs, kind, answer>>
  BY DEF CompleteJob, historyVars
<1>3. Queued' = Queued
  BY <1>2 DEF Queued
<1>4. runs[w] = 1 /\ w \notin Queued
  BY <1>1, OneJob DEF IInv, EngineInv, QueueInv, Pending
<1>5. Phase(w) = "running" /\ Phase(w)' = "ended"
  <2>1. kind[w] # "none"
    BY <1>4 DEF IInv, HistoryInv, HistoryOk
  <2>2. Phase(w) = "running"
    BY <1>1, <1>4, <2>1 DEF Phase
  <2>3. w \notin Queued' /\ engineJob' # w /\ runs'[w] = 1 /\ kind'[w] # "none"
    BY <1>2, <1>3, <1>4, <2>1, IdsAssumption DEF NoJob
  <2>4. Phase(w)' = "ended"
    BY <2>3 DEF Phase
  <2> QED
    BY <2>2, <2>4
<1>6. ASSUME NEW other \in Ids \ {w} PROVE Phase(other)' = Phase(other)
  BY <1>1, <1>2, <1>3, IdsAssumption DEF Phase, NoJob
<1> QED
  BY <1>2, <1>5, <1>6, OneMoves DEF Operations!End

(* The three answers: an end or an unknown outcome is told ...             *)
LEMMA TellRefines ==
  ASSUME IInv, WaitedIsRun, NEW told \in {"unknown", "result"}, Reply(told), UNCHANGED queue,
         waiting \in Ids, waiting \notin Queued,
         told = "result" => promise[waiting] # "none"
  PROVE  \E id \in Ids : Operations!Tell(id, told)
<1>1. PICK w \in Ids : w = waiting
  OBVIOUS
<1>2. /\ answer' = [answer EXCEPT ![w] = told]
      /\ UNCHANGED <<queue, engineJob, runs, kind>>
  BY <1>1 DEF Reply, engineVars
<1>3. queue = <<>> /\ runs[w] = 1 /\ answer[w] = "none"
  BY <1>1, OneJob DEF IInv, WaiterInv, WaitedIsRun
<1>4. Phase(w) \in {"running", "ended"} /\ (told = "result" => Phase(w) = "ended")
  <2>1. kind[w] # "none" /\ w \notin Queued
    BY <1>1 DEF IInv, WaiterInv
  <2>2. CASE engineJob = w
    <3>1. promise[w] = "none"
      BY <2>2 DEF IInv, EngineInv
    <3>2. Phase(w) = "running"
      BY <2>1, <2>2 DEF Phase
    <3> QED
      BY <1>1, <3>1, <3>2
  <2>3. CASE engineJob # w
    BY <1>3, <2>1, <2>3 DEF Phase
  <2> QED
    BY <2>2, <2>3
<1>5. Queued' = Queued
  BY <1>2 DEF Queued
<1>6. \A id \in Ids : Phase(id)' = Phase(id)
  BY <1>2, <1>5 DEF Phase
<1> QED
  BY <1>1, <1>2, <1>3, <1>4, <1>6 DEF Operations!Tell

\* ... or the job is withdrawn.
LEMMA DropRefines ==
  ASSUME IInv, ResolveQueued
  PROVE  \E id \in Ids : Operations!Drop(id)
<1>1. PICK w \in Ids : w = waiting
  BY DEF IInv, TypeOK, WaiterInv, ResolveQueued
<1>2. queue = <<w>> /\ Len(queue) = 1
  BY <1>1, OneJob DEF IInv, TypeOK, ResolveQueued
<1>3. /\ queue' = <<>>
      /\ answer' = [answer EXCEPT ![w] = "cancelled"]
      /\ UNCHANGED <<engineJob, runs, kind>>
  BY <1>1, <1>2 DEF ResolveQueued, Reply, engineVars
<1>4. Queued = {w} /\ Queued' = {}
  BY <1>2, <1>3 DEF Queued
<1>5. runs[w] = 0 /\ engineJob # w /\ kind[w] # "none" /\ answer[w] = "none"
  <2>1. Pending(w) /\ LedgerOk(w) /\ HistoryOk(w)
    BY <1>1, <1>2 DEF IInv, QueueInv, LedgerInv, HistoryInv
  <2> QED
    BY <1>1, <2>1 DEF IInv, WaiterInv, EngineInv, Pending, LedgerOk, HistoryOk
<1>6. Phase(w) = "queued" /\ Phase(w)' = "dropped"
  BY <1>3, <1>4, <1>5 DEF Phase
<1>7. ASSUME NEW other \in Ids \ {w} PROVE Phase(other)' = Phase(other)
  BY <1>3, <1>4 DEF Phase
<1> QED
  BY <1>3, <1>5, <1>6, <1>7, OneMoves DEF Operations!Drop

(* Every step of the server is a step of the contract or hidden from it.   *)
LEMMA StepRefines ==
  ASSUME IInv, WaitedIsRun, [Next]_vars
  PROVE  [Operations!Next]_(Operations!vars)
<1>1. CASE \E id \in Ids, k \in Kinds : Enqueue(id, k)
  BY <1>1, EnqueueRefines DEF Operations!Next
<1>2. CASE TryPopJob
  BY <1>2, PopRefines DEF Operations!Next
<1>3. CASE CompleteJob
  BY <1>3, CompleteRefines DEF Operations!Next
<1>4. CASE WaitReady \/ ResolveReady
  <2>1. /\ waiting \in Ids /\ promise[waiting] # "none"
        /\ Reply(Told(waiting)) /\ UNCHANGED queue
    BY <1>4 DEF IInv, TypeOK, WaiterInv, WaitReady, ResolveReady, Ready
  <2>2. LedgerOk(waiting) /\ HistoryOk(waiting)
    BY <2>1 DEF IInv, LedgerInv, HistoryInv
  <2>3. waiting \notin Queued
    BY <2>1, <2>2, OneJob DEF IInv, QueueInv, Pending, LedgerOk, HistoryOk
  <2>4. Told(waiting) \in {"unknown", "result"}
    BY <2>1, <2>2 DEF HistoryOk, Told
  <2>5. \E id \in Ids : Operations!Tell(id, Told(waiting))
    BY <2>1, <2>3, <2>4, TellRefines
  <2> QED
    BY <2>4, <2>5 DEF Operations!Next
<1>5. CASE ResolveDispatched
  <2>1. /\ waiting \in Ids /\ Reply("unknown") /\ waiting \notin Queued /\ UNCHANGED queue
    BY <1>5 DEF IInv, TypeOK, WaiterInv, ResolveDispatched
  <2>2. \E id \in Ids : Operations!Tell(id, "unknown")
    BY <2>1, TellRefines
  <2> QED
    BY <2>2 DEF Operations!Next
<1>6. CASE ResolveQueued
  BY <1>6, DropRefines DEF Operations!Next
<1>7. CASE UNCHANGED <<waiting, queue, engineJob, runs, kind, answer>>
  BY <1>7, HiddenStutters
<1> QED
  BY <1>1, <1>2, <1>3, <1>4, <1>5, <1>6, <1>7, HiddenStep
  DEF Next, Operator, Engine, Reader, Client, Waiter

(* The server keeps the contract of McpOperations: an operation runs at    *)
(* most once, and each answer was true when it was given.                  *)
THEOREM KeepsContract == Spec => ImplementsOperations
<1>1. Init => Operations!Init
  <2> SUFFICES ASSUME Init PROVE Operations!Init
    OBVIOUS
  <2>1. Queued = {} /\ engineJob \notin Ids
    BY IdsAssumption DEF Init, Queued, NoJob
  <2>2. \A id \in Ids : Phase(id) = "new"
    BY <2>1 DEF Init, Phase
  <2> QED
    BY <2>2 DEF Init, Operations!Init
<1>2. Init => WaitedIsRun
  BY IdsAssumption DEF Init, WaitedIsRun, NoJob
<1>3. IInv /\ WaitedIsRun /\ [Next]_vars => WaitedIsRun'
  BY WaitedStep
<1>4. IInv /\ WaitedIsRun /\ [Next]_vars => [Operations!Next]_(Operations!vars)
  BY StepRefines
<1> QED
  BY <1>1, <1>2, <1>3, <1>4, Invariance, PTL DEF Spec, ImplementsOperations, Operations!Spec

-----------------------------------------------------------------------------

\* The body of ActiveIsRetained.
ActiveStays == \A id \in Ids : Active(id) => ledger'[id].state # "absent"

(* Eviction takes a finished record and a restart finds no live one, so an  *)
(* operation in flight keeps its record (McpOperationLedger::Begin, Start). *)
THEOREM ActiveStaysRetained == Spec => ActiveIsRetained
<1>1. IInv /\ [Next]_vars => [ActiveStays]_vars
  <2> SUFFICES ASSUME IInv, [Next]_vars, NEW id \in Ids, Active(id)
               PROVE  ledger'[id].state # "absent"
    BY DEF ActiveStays
  <2> USE DEF jobVars
  <2>1. ledger[id].state # "absent" /\ ~ledger[id].finished
    BY DEF Active, Retained
  <2>2. CASE UNCHANGED ledger
    BY <2>1, <2>2
  <2>3. CASE Operator
    <3>1. CASE (\E write \in BOOLEAN : Start(write)) \/ StartFails
      <4>1. listener = "off" /\ engineJob = NoJob /\ waiting = NoJob /\ queue = <<>>
        BY <3>1 DEF IInv, ThreadInv, WaiterInv, EngineInv, QueueInv, Start, StartFails, Serving
      <4>2. LedgerOk(id)
        BY DEF IInv, LedgerInv
      <4> QED
        BY <4>1, <4>2, IdsAssumption DEF LedgerOk, Active, NoJob
    <3> QED
      BY <2>2, <2>3, <3>1 DEF Operator, LocalWriteMode, Interrupt
  <2>4. CASE TryPopJob
    <3>1. CASE UNCHANGED ledger
      BY <2>2, <3>1
    <3>2. CASE ledger' = [ledger EXCEPT ![Head(queue)] = Started(@)]
      BY <2>1, <3>2 DEF IInv, TypeOK, Started
    <3> QED
      BY <2>4, <3>1, <3>2 DEF TryPopJob
  <2>5. CASE CompleteJob
    <3>1. engineResult # "absent"
      BY DEF IInv, TypeOK, Outcomes
    <3>2. PICK w \in Ids : w = engineJob
      BY <2>5 DEF IInv, EngineInv, TypeOK, CompleteJob
    <3>3. CASE ledger' = [ledger EXCEPT ![w].state = engineResult, ![w].finished = TRUE]
      <4>1. ledger[w] \in [state : States, order : Nat, dispatched : BOOLEAN, finished : BOOLEAN]
        BY DEF IInv, TypeOK
      <4>2. ledger' = [ledger EXCEPT ![w] = [ledger[w] EXCEPT !.state = engineResult, !.finished = TRUE]]
        BY <3>3 DEF IInv, TypeOK
      <4>3. ledger'[w].state = engineResult
        BY <4>1, <4>2 DEF IInv, TypeOK
      <4>4. id # w => ledger'[id] = ledger[id]
        BY <4>2 DEF IInv, TypeOK
      <4> QED
        BY <2>1, <3>1, <4>3, <4>4
    <3> QED
      BY <2>2, <2>5, <3>2, <3>3 DEF CompleteJob
  <2>6. CASE StopFlush
    BY <2>1, <2>6 DEF StopFlush, Cancelled, IInv, TypeOK
  <2>7. ASSUME NEW new \in Ids, NEW k \in Kinds, Enqueue(new, k)
        PROVE  ledger'[id].state # "absent"
    <3>1. Begin(new)
      BY <2>7 DEF Enqueue
    <3>2. new # id
      BY <3>1 DEF Begin, Active
    <3>3. \A victim \in OldestFinished : victim # id /\ victim \in Ids
      BY <2>1 DEF OldestFinished, Finished, Retained
    <3>4. ledger'[id] = ledger[id]
      BY <3>1, <3>2, <3>3 DEF Begin, IInv, TypeOK
    <3> QED
      BY <2>1, <3>4
  <2>8. CASE ResolveQueued
    BY <2>1, <2>8 DEF ResolveQueued, Cancelled, IInv, TypeOK
  <2>9. CASE ResolveDispatched
    BY <2>1, <2>9 DEF ResolveDispatched, WaitEnded, IInv, TypeOK
  <2>10. CASE Engine
    BY <2>2, <2>4, <2>5, <2>6, <2>10 DEF Engine, Arm, ArmFails, EndpointFails, LoopOrLeave, PopNothing,
         Dispatch, CancelReader, JoinReader, Stop, JoinListener, Disarm, DisarmFails
  <2>11. CASE Reader
    BY <2>2, <2>11 DEF Reader, ReaderCheck, ReaderEnters, ReadConsoleLine, RequestStop, RequestStopEnds
  <2>12. CASE Client \/ Waiter \/ ListenerExit
    BY <2>2, <2>7, <2>8, <2>9, <2>12 DEF Client, Initialize, Waiter, WaitReady, WaitEnds, ResolveReady,
         Reply, ListenerExit
  <2>13. CASE UNCHANGED vars
    BY <2>2, <2>13 DEF vars
  <2> QED
    BY <2>3, <2>10, <2>11, <2>12, <2>13 DEF Next
<1>2. [ActiveStays]_vars => [\A id \in Ids : Active(id) => ledger'[id].state # "absent"]_vars
  BY DEF ActiveStays
<1> QED
  BY <1>1, <1>2, Invariance, PTL DEF Spec, ActiveIsRetained

=============================================================================
