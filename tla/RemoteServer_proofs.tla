-------------------------- MODULE RemoteServer_proofs --------------------------
(***************************************************************************)
(* Proofs about RemoteServer: the inductive invariant, for any number of   *)
(* commands, connections and peers, and the safety properties it gives.    *)
(***************************************************************************)
EXTENDS RemoteServer, TLAPS

\* A queue with one job in it, less that job.
LEMMA ErasedSingleton ==
  ASSUME NEW j \in Jobs, queue = <<j>>
  PROVE  Without(j) = <<>>
<1>1. Len(queue) = 1 /\ queue[1] = j /\ Queued(j)
  BY DEF Queued
<1>2. (CHOOSE i \in 1..Len(queue) : queue[i] = j) = 1
  BY <1>1
<1>3. SubSeq(queue, 1, 0) = <<>> /\ SubSeq(queue, 2, 1) = <<>>
  OBVIOUS
<1>4. QED
  BY <1>1, <1>2, <1>3 DEF Without

\* The queue less the job that is waited for is empty.
LEMMA ErasedWaiting ==
  ASSUME IInv, waiting # None
  PROVE  Without(waiting) = <<>>
<1>1. CASE queue = <<>>
  BY <1>1 DEF Without, Queued
<1>2. CASE queue # <<>>
  <2>1. queue = <<waiting>> /\ waiting \in Jobs
    BY <1>2 DEF IInv, JobsOk, TypeOK
  <2>2. QED
    BY <2>1, ErasedSingleton
<1>3. QED
  BY <1>1, <1>2

\* Only the job that is waited for can be queued.
LEMMA OnlyWaitingIsQueued ==
  ASSUME IInv, NEW j \in Jobs, Queued(j) \/ job[j] = "queued"
  PROVE  /\ j = waiting /\ queue = <<j>> /\ job[j] = "queued"
         /\ listener = "waiting" /\ ~ inFlight
<1>1. CASE job[j] = "queued"
  <2>1. queue = <<j>> /\ queue # <<>> /\ queue = <<waiting>>
    BY <1>1 DEF IInv, JobsOk
  <2>2. j = waiting
    BY <2>1
  <2>3. QED
    BY <1>1, <2>1, <2>2 DEF IInv, JobsOk, BusyIsTrue
<1>2. CASE Queued(j)
  <2>1. queue # <<>>
    BY <1>2 DEF Queued
  <2>2. queue = <<waiting>> /\ job[waiting] = "queued"
    BY <2>1 DEF IInv, JobsOk
  <2>3. j = waiting
    BY <1>2, <2>2 DEF Queued
  <2>4. QED
    BY <1>1, <2>2, <2>3
<1>3. QED
  BY <1>1, <1>2

-------------------------------------------------------------------------------
(* The engine and the operator *)

\* The prompt, "remote on", and the steps of the loop without a job.
LEMMA LoopIInv ==
  ASSUME IInv,
         \/ LocalWriteMode \/ Start
         \/ LoopOrLeave \/ Wake \/ PopNothing \/ CancelReader \/ JoinReader
  PROVE  IInv'
<1> USE DEF LocalWriteMode, Start, LoopOrLeave, Wake, PopNothing,
            CancelReader, JoinReader, serverVars, engineVars, consoleVars, connVars, jobVars,
            gateVars, authVars
<1>1. /\ UNCHANGED <<current, dropping, conn, peer, cut, serial, session>>
      /\ UNCHANGED <<queue, waiting, job, promise, told>>
      /\ engine # "run" /\ engine' # "run"
  OBVIOUS
<1>2. UNCHANGED inFlight
  BY DEF IInv, ThreadsOk, BusyIsTrue, TypeOK
<1>3. listener' = listener \/ (listener' = "top" /\ listener = "off")
  BY DEF IInv, ThreadsOk
<1>4. TypeOK'
  <2>1. /\ running' \in BOOLEAN /\ interrupted' \in BOOLEAN
        /\ armed' \in BOOLEAN /\ writeOff' \in BOOLEAN
    BY DEF IInv, TypeOK
  <2>2. engine' \in Engines /\ reader' \in Readers /\ listener' \in Listeners
    BY DEF IInv, TypeOK, Engines, Readers, Listeners
  <2>3. fails' \in [Peers -> Nat] /\ globalFails' \in Nat
    BY DEF IInv, TypeOK
  <2>4. QED
    BY <1>1, <1>2, <2>1, <2>2, <2>3 DEF IInv, TypeOK
<1>5. ThreadsOk'
  BY DEF IInv, ThreadsOk
<1>6. ConnOk'
  BY <1>1, <1>3 DEF IInv, ConnOk, SessionIsConn
<1>7. JobsOk' /\ BusyIsTrue'
  BY <1>1, <1>2, <1>3 DEF IInv, JobsOk, BusyIsTrue
<1>8. FailuresAreBounded'
  BY LimitsAssumption DEF IInv, FailuresAreBounded
<1>9. QED
  BY <1>4, <1>5, <1>6, <1>7, <1>8 DEF IInv

\* The engine takes the job that is waited for.
LEMMA TryPopJobIInv ==
  ASSUME IInv, TryPopJob
  PROVE  IInv'
<1> USE DEF TryPopJob, serverVars, consoleVars, connVars, gateVars, authVars
<1>1. /\ queue = <<waiting>> /\ waiting # None /\ job[waiting] = "queued"
      /\ listener = "waiting" /\ waiting \in Jobs
  BY DEF IInv, JobsOk, TypeOK
<1>2. queue' = <<>> /\ current' = waiting
      /\ job' = [job EXCEPT ![waiting] = "begun"]
  BY <1>1
<1>3. TypeOK'
  BY <1>1, <1>2 DEF IInv, TypeOK, Engines
<1>4. ThreadsOk' /\ ConnOk'
  BY <1>1, <1>2 DEF IInv, ThreadsOk, ConnOk, SessionIsConn
<1>5. JobsOk'
  BY <1>1, <1>2, OnlyWaitingIsQueued DEF IInv, JobsOk, TypeOK
<1>6. BusyIsTrue' /\ FailuresAreBounded'
  BY <1>1, <1>2 DEF IInv, BusyIsTrue, FailuresAreBounded, TypeOK
<1>7. QED
  BY <1>3, <1>4, <1>5, <1>6 DEF IInv

\* A command's result is set, whether or not its client still waits.
LEMMA ExecuteIInv ==
  ASSUME IInv, Execute
  PROVE  IInv'
<1> USE DEF Execute, serverVars, consoleVars, connVars, authVars
<1>1. current \in Jobs /\ job[current] = "begun"
  BY DEF IInv, JobsOk, ThreadsOk, TypeOK
<1>2. TypeOK'
  BY <1>1 DEF IInv, TypeOK, Engines
<1>3. ThreadsOk' /\ ConnOk' /\ FailuresAreBounded'
  BY DEF IInv, ThreadsOk, ConnOk, SessionIsConn, FailuresAreBounded
<1>4. promise[current] = "none" /\ told[current] = "none"
  BY <1>1 DEF IInv, JobsOk, TypeOK
<1>5. JobsOk'
  <2>1. /\ listener' = "waiting" <=> waiting' # None
        /\ listener' = "waiting" => job'[waiting'] # "new"
    BY <1>1 DEF IInv, JobsOk, TypeOK
  <2>2. queue # <<>> => waiting # current
    BY <1>1 DEF IInv, JobsOk
  <2>3. queue' # <<>> => queue' = <<waiting'>> /\ waiting' # None /\ job'[waiting'] = "queued"
    BY <1>1, <2>2 DEF IInv, JobsOk, TypeOK
  <2>4. ASSUME NEW j \in Jobs
        PROVE  /\ job'[j] = "queued" => queue' = <<j>>
               /\ job'[j] = "begun" <=> engine' = "run" /\ current' = j
               /\ job'[j] = "done" <=> promise'[j] = "result"
               /\ promise'[j] = "cancelled" => job'[j] = "removed"
               /\ told'[j] # "none" => told'[j] = promise'[j]
    <3>1. CASE j = current
      BY <1>1, <1>4, <3>1 DEF IInv, TypeOK
    <3>2. CASE j # current
      BY <1>1, <3>2 DEF IInv, JobsOk, TypeOK
    <3>3. QED
      BY <3>1, <3>2
  <2>5. QED
    BY <2>1, <2>3, <2>4 DEF JobsOk
<1>6. BusyIsTrue'
  BY <1>1 DEF IInv, BusyIsTrue, JobsOk, TypeOK
<1>7. QED
  BY <1>2, <1>3, <1>5, <1>6 DEF IInv

\* DisconnectSession, by the reader or by Stop: it takes the session, then
\* shuts it down.
LEMMA DisconnectIInv ==
  ASSUME IInv, Stop \/ CloseListening \/ ReaderTakes \/ ReaderShuts
  PROVE  IInv'
<1> USE DEF Stop, CloseListening, ReaderTakes, ReaderShuts, TakeSession, ShutTaken,
            serverVars, engineVars, jobVars, gateVars, authVars
<1>1. /\ UNCHANGED <<interrupted, current, listener, conn, peer, serial>>
      /\ UNCHANGED <<queue, waiting, inFlight, job, promise, told>>
      /\ UNCHANGED <<armed, writeOff, fails, globalFails>>
      /\ (engine # "run" /\ engine' # "run") \/ engine' = engine
      /\ session' \in {session, None}
  OBVIOUS
<1>2. dropping' \in Handles \cup {None} /\ cut' \in BOOLEAN
  BY DEF IInv, TypeOK
<1>3. TypeOK'
  <2>1. engine' \in Engines /\ reader' \in Readers /\ running' \in BOOLEAN
    BY DEF IInv, TypeOK, Engines, Readers
  <2>2. session' \in Handles \cup {None}
    BY <1>1 DEF IInv, TypeOK
  <2>3. QED
    BY <1>1, <1>2, <2>1, <2>2 DEF IInv, TypeOK
<1>4. ThreadsOk'
  BY DEF IInv, ThreadsOk
<1>5. ConnOk'
  BY <1>1 DEF IInv, ConnOk, SessionIsConn
<1>6. JobsOk' /\ BusyIsTrue' /\ FailuresAreBounded'
  BY <1>1 DEF IInv, JobsOk, BusyIsTrue, FailuresAreBounded
<1>7. QED
  BY <1>3, <1>4, <1>5, <1>6 DEF IInv

\* When the listener has ended, nothing is queued: Stop has nobody to answer.
LEMMA JoinListenerIInv ==
  ASSUME IInv, JoinListener
  PROVE  IInv'
<1> USE DEF JoinListener, serverVars, consoleVars, connVars, gateVars
<1>1. queue = <<>> /\ ~ inFlight /\ \A j \in Jobs : ~ Queued(j)
  BY DEF IInv, JobsOk, BusyIsTrue, Queued
<1>2. queue' = queue /\ promise' = promise /\ inFlight' = inFlight
  BY <1>1 DEF IInv, TypeOK
<1>3. TypeOK' /\ ThreadsOk'
  BY <1>2 DEF IInv, TypeOK, ThreadsOk, Engines
<1>4. ConnOk' /\ JobsOk' /\ BusyIsTrue'
  BY <1>2 DEF IInv, ConnOk, SessionIsConn, JobsOk, BusyIsTrue
<1>5. FailuresAreBounded'
  BY LimitsAssumption DEF FailuresAreBounded
<1>6. QED
  BY <1>3, <1>4, <1>5 DEF IInv

\* The console reader's lines, and Ctrl+C.
LEMMA ReadIInv ==
  ASSUME IInv,
         \/ \E quit \in BOOLEAN : ReadOff(quit)
         \/ ReadDisconnect \/ ReadWriteOff \/ ReadOther \/ ReadFails
         \/ ReaderCheck \/ Interrupt
  PROVE  IInv'
<1> USE DEF ReadOff, ReadDisconnect, ReadWriteOff, ReadOther, ReadFails, ReaderCheck,
            Interrupt, serverVars, engineVars, consoleVars, connVars, jobVars, gateVars, authVars
<1>1. /\ UNCHANGED <<engine, current, dropping>> /\ UNCHANGED connVars
      /\ UNCHANGED jobVars /\ UNCHANGED authVars
      /\ running' \in {running, FALSE} /\ armed' = armed
      /\ reader' = reader \/ reader \in {"check", "read"}
  OBVIOUS
<1>2. TypeOK'
  <2>1. /\ running' \in BOOLEAN /\ interrupted' \in BOOLEAN
        /\ armed' \in BOOLEAN /\ writeOff' \in BOOLEAN
    BY <1>1 DEF IInv, TypeOK
  <2>2. reader' \in Readers
    BY DEF IInv, TypeOK, Readers
  <2>3. QED
    BY <1>1, <2>1, <2>2 DEF IInv, TypeOK
<1>3. ThreadsOk' /\ ConnOk' /\ JobsOk' /\ BusyIsTrue' /\ FailuresAreBounded'
  BY <1>1 DEF IInv, ThreadsOk, ConnOk, SessionIsConn, JobsOk, BusyIsTrue,
              FailuresAreBounded
<1>4. QED
  BY <1>2, <1>3 DEF IInv

-------------------------------------------------------------------------------
(* The listener *)

\* Connections come, authenticate and go while no command is waited for.
LEMMA ConnectionIInv ==
  ASSUME IInv,
         \/ ListenerTop \/ AcceptNothing \/ ProbeFails \/ Register \/ AuthRefused
         \/ AuthFails \/ AuthSucceeds \/ SessionOver \/ Leave \/ CloseConn
         \/ \E h \in Handles, p \in Peers : Accept(h, p)
  PROVE  IInv'
<1> USE DEF ListenerTop, AcceptNothing, ProbeFails, Register, AuthRefused,
            AuthFails, AuthSucceeds, SessionOver, Leave, CloseConn, Accept,
            serverVars, engineVars, consoleVars, connVars, jobVars, gateVars, authVars
<1>1. /\ listener # "waiting" /\ listener' # "waiting"
      /\ UNCHANGED <<running, interrupted, engine, current, reader, dropping>>
      /\ UNCHANGED jobVars /\ UNCHANGED <<armed, writeOff>>
  OBVIOUS
<1>2. listener = "auth" => peer \in Peers
  BY DEF IInv, ConnOk, TypeOK
<1>3. TypeOK'
  <2>1. listener' \in Listeners /\ cut' \in BOOLEAN
    BY DEF IInv, TypeOK, Listeners
  <2>5. serial \in 0..MaxSerial
    BY DEF IInv, TypeOK
  <2>6. serial' = serial \/ (serial < MaxSerial /\ serial' = serial + 1)
    OBVIOUS
  <2>7. serial' \in 0..MaxSerial
    BY <2>5, <2>6, LimitsAssumption
  <2>2. /\ conn' \in Handles \cup {None} /\ peer' \in Peers \cup {None}
        /\ session' \in Handles \cup {None}
    BY DEF IInv, TypeOK
  <2>3. fails' \in [Peers -> Nat] /\ globalFails' \in Nat
    BY <1>2 DEF IInv, TypeOK
  <2>4. QED
    BY <1>1, <2>1, <2>2, <2>3, <2>7 DEF IInv, TypeOK
<1>4. ThreadsOk'
  BY <1>1 DEF IInv, ThreadsOk
<1>9. listener = "probe" => peer # None
  BY DEF IInv, ConnOk
<1>5. ConnOk'
  <2>1. CASE \E h \in Handles, p \in Peers : Accept(h, p)
    BY <2>1, NamesAssumption DEF IInv, ConnOk, SessionIsConn, None
  <2>2. CASE ListenerTop \/ AcceptNothing
    BY <2>2 DEF IInv, ConnOk, SessionIsConn
  <2>3. CASE ProbeFails \/ Register
    BY <2>3, <1>9 DEF IInv, ConnOk, SessionIsConn
  <2>4. CASE AuthRefused \/ AuthFails \/ AuthSucceeds \/ SessionOver \/ Leave
    BY <2>4 DEF IInv, ConnOk, SessionIsConn
  <2>5. CASE CloseConn
    BY <2>5 DEF IInv, ConnOk, SessionIsConn
  <2>6. QED
    BY <2>1, <2>2, <2>3, <2>4, <2>5
<1>6. JobsOk' /\ BusyIsTrue'
  BY <1>1 DEF IInv, JobsOk, BusyIsTrue
<1>7. FailuresAreBounded'
  <2>1. CASE AuthFails
    BY <1>2, <2>1, LimitsAssumption DEF IInv, FailuresAreBounded, AuthAllowed, TypeOK
  <2>2. CASE AuthSucceeds
    BY <1>2, <2>2, LimitsAssumption DEF IInv, FailuresAreBounded, TypeOK
  <2>3. CASE ~ AuthFails /\ ~ AuthSucceeds
    BY <2>3 DEF IInv, FailuresAreBounded
  <2>4. QED
    BY <2>1, <2>2, <2>3
<1>8. QED
  BY <1>3, <1>4, <1>5, <1>6, <1>7 DEF IInv

\* A client leaves.
LEMMA PeerLeavesIInv ==
  ASSUME IInv, PeerLeaves
  PROVE  IInv'
<1> USE DEF PeerLeaves, serverVars, engineVars, consoleVars, jobVars, gateVars, authVars
<1>1. TypeOK'
  BY DEF IInv, TypeOK
<1>2. ThreadsOk' /\ ConnOk' /\ JobsOk' /\ BusyIsTrue' /\ FailuresAreBounded'
  BY DEF IInv, ThreadsOk, ConnOk, SessionIsConn, JobsOk, BusyIsTrue, FailuresAreBounded
<1>3. QED
  BY <1>1, <1>2 DEF IInv

\* A command is queued, in a queue that was empty.
LEMMA SubmitIInv ==
  ASSUME IInv, NEW j \in Jobs, Submit(j)
  PROVE  IInv'
<1> USE DEF Submit, serverVars, engineVars, consoleVars, gateVars, authVars
<1>1. queue = <<>> /\ waiting = None /\ j # None
  BY NamesAssumption DEF IInv, JobsOk, None
<1>2. queue' = <<j>>
  BY <1>1
<1>3. TypeOK'
  BY <1>2 DEF IInv, TypeOK, Listeners
<1>4. ThreadsOk' /\ ConnOk' /\ FailuresAreBounded'
  BY DEF IInv, ThreadsOk, ConnOk, SessionIsConn, FailuresAreBounded
<1>5. JobsOk'
  <2>1. \A i \in Jobs \ {j} : job'[i] = job[i] /\ job[i] # "queued"
    BY <1>1, OnlyWaitingIsQueued DEF IInv, TypeOK
  <2>2. job'[j] = "queued" /\ promise[j] = "none"
    BY DEF IInv, JobsOk, TypeOK
  <2>3. ~ (engine = "run" /\ current = j)
    BY DEF IInv, JobsOk
  <2>4. told[j] = "none"
    BY <2>2 DEF IInv, JobsOk
  <2>5. QED
    BY <1>1, <1>2, <2>1, <2>2, <2>3, <2>4 DEF IInv, JobsOk
<1>6. BusyIsTrue'
  BY DEF IInv, BusyIsTrue, TypeOK
<1>7. QED
  BY <1>3, <1>4, <1>5, <1>6 DEF IInv

\* A queued command is cancelled.
LEMMA CancelIInv ==
  ASSUME IInv, Cancel
  PROVE  IInv'
<1> USE DEF Cancel, serverVars, engineVars, consoleVars, connVars, gateVars, authVars
<1>1. waiting \in Jobs /\ waiting # None
  BY DEF IInv, JobsOk, TypeOK
<1>2. job[waiting] = "queued" /\ ~ inFlight
  BY <1>1, OnlyWaitingIsQueued
<1>3. queue' = <<>>
  BY <1>1, ErasedWaiting
<1>4. TypeOK'
  BY <1>1, <1>3 DEF IInv, TypeOK
<1>5. ThreadsOk' /\ ConnOk' /\ FailuresAreBounded'
  BY DEF IInv, ThreadsOk, ConnOk, SessionIsConn, FailuresAreBounded
<1>6. JobsOk'
  <2>1. \A i \in Jobs \ {waiting} : job'[i] = job[i] /\ promise'[i] = promise[i]
                                    /\ job[i] # "queued"
    BY <1>1, OnlyWaitingIsQueued DEF IInv, TypeOK
  <2>2. job'[waiting] = "removed" /\ promise'[waiting] = "cancelled"
    BY <1>1 DEF IInv, TypeOK
  <2>3. told[waiting] = "none" /\ ~ (engine = "run" /\ current = waiting)
    BY <1>1, <1>2 DEF IInv, JobsOk, TypeOK
  <2>4. QED
    BY <1>1, <1>3, <2>1, <2>2, <2>3 DEF IInv, JobsOk
<1>7. BusyIsTrue'
  BY <1>1, <1>2 DEF IInv, BusyIsTrue, TypeOK
<1>8. QED
  BY <1>4, <1>5, <1>6, <1>7 DEF IInv

\* The client is told what became of its command.
LEMMA ResultReadyIInv ==
  ASSUME IInv, ResultReady
  PROVE  IInv'
<1> USE DEF ResultReady, serverVars, engineVars, consoleVars, gateVars, authVars
<1>1. waiting \in Jobs
  BY DEF IInv, JobsOk, TypeOK
<1>2. job[waiting] \in {"done", "removed"} /\ queue = <<>>
  BY <1>1 DEF IInv, JobsOk, TypeOK
<1>3. TypeOK'
  BY <1>1 DEF IInv, TypeOK, Listeners
<1>4. ThreadsOk' /\ ConnOk' /\ FailuresAreBounded'
  BY DEF IInv, ThreadsOk, ConnOk, SessionIsConn, FailuresAreBounded
<1>5. JobsOk'
  BY <1>1, <1>2 DEF IInv, JobsOk, TypeOK
<1>6. BusyIsTrue'
  BY DEF BusyIsTrue
<1>7. QED
  BY <1>3, <1>4, <1>5, <1>6 DEF IInv

\* A client goes, or the server stops: what is not begun is removed.
LEMMA GiveUpIInv ==
  ASSUME IInv, GiveUp
  PROVE  IInv'
<1> USE DEF GiveUp, serverVars, engineVars, consoleVars, gateVars, authVars
<1>1. waiting \in Jobs /\ waiting # None
  BY DEF IInv, JobsOk, TypeOK
<1>2. queue' = <<>>
  BY <1>1, ErasedWaiting
<1>3. TypeOK'
  <2>1. job' \in [Jobs -> {"new", "queued", "begun", "done", "removed"}]
    BY <1>1 DEF IInv, TypeOK
  <2>2. queue' \in Seq(Jobs)
    BY <1>2
  <2>3. QED
    BY <2>1, <2>2 DEF IInv, TypeOK, Listeners
<1>4. ThreadsOk' /\ ConnOk' /\ FailuresAreBounded'
  BY DEF IInv, ThreadsOk, ConnOk, SessionIsConn, FailuresAreBounded
<1>5. JobsOk'
  <2>1. \A i \in Jobs \ {waiting} : job'[i] = job[i] /\ job[i] # "queued"
    BY <1>1, OnlyWaitingIsQueued DEF IInv, TypeOK
  <2>2. job'[waiting] = IF job[waiting] = "queued" THEN "removed" ELSE job[waiting]
    BY <1>1 DEF IInv, TypeOK
  <2>3. QED
    BY <1>1, <1>2, <2>1, <2>2 DEF IInv, JobsOk
<1>6. BusyIsTrue'
  BY DEF BusyIsTrue
<1>7. QED
  BY <1>3, <1>4, <1>5, <1>6 DEF IInv

-------------------------------------------------------------------------------

\* No thread, connection or command at the start.
LEMMA InitIInv == Init => IInv
<1> SUFFICES ASSUME Init PROVE IInv
  OBVIOUS
<1>1. serial \in 0..MaxSerial
  BY LimitsAssumption DEF Init
<1>2. /\ job \in [Jobs -> {"new", "queued", "begun", "done", "removed"}]
      /\ promise \in [Jobs -> {"none", "result", "cancelled"}]
      /\ told \in [Jobs -> {"none", "result", "cancelled"}]
      /\ fails \in [Peers -> Nat]
  BY DEF Init
<1>3. queue \in Seq(Jobs)
  BY DEF Init
<1>4. TypeOK
  BY <1>1, <1>2, <1>3 DEF Init, TypeOK, Engines, Readers, Listeners
<1>5. ThreadsOk /\ ConnOk
  BY DEF Init, ThreadsOk, ConnOk, SessionIsConn
<1>6. JobsOk /\ BusyIsTrue
  BY DEF Init, JobsOk, BusyIsTrue
<1>7. FailuresAreBounded
  BY LimitsAssumption DEF Init, FailuresAreBounded
<1>8. QED
  BY <1>4, <1>5, <1>6, <1>7 DEF IInv

\* Every step keeps the invariant.
LEMMA NextIInv == IInv /\ [Next]_vars => IInv'
<1> SUFFICES ASSUME IInv, [Next]_vars PROVE IInv'
  OBVIOUS
<1>1. CASE Engine
  BY <1>1, LoopIInv, TryPopJobIInv, ExecuteIInv, DisconnectIInv, JoinListenerIInv
     DEF Engine
<1>2. CASE ReaderStep
  BY <1>2, DisconnectIInv, ReadIInv DEF ReaderStep
<1>3. CASE ListenerStep
  BY <1>3, ConnectionIInv, ResultReadyIInv, GiveUpIInv DEF ListenerStep
<1>4. CASE Client
  BY <1>4, ConnectionIInv, PeerLeavesIInv, SubmitIInv, CancelIInv DEF Client
<1>5. CASE Operator
  BY <1>5, LoopIInv, ReadIInv DEF Operator
<1>6. CASE UNCHANGED vars
  BY <1>6 DEF vars, serverVars, engineVars, consoleVars, connVars, jobVars,
     gateVars, authVars, IInv, TypeOK, ThreadsOk, ConnOk, SessionIsConn, JobsOk,
     BusyIsTrue, FailuresAreBounded
<1>7. QED
  BY <1>1, <1>2, <1>3, <1>4, <1>5, <1>6 DEF Next

\* Threads, connection, commands, busy flag and lockouts agree in every
\* reachable state.
THEOREM Invariance == Spec => []IInv
  BY InitIInv, NextIInv, PTL DEF Spec

\* Type correctness.
THEOREM TypeCorrect == Spec => []TypeOK
  BY Invariance, PTL DEF IInv

\* What the engine can begin is the command its client waits for.
THEOREM AbandonedNeverBegins == Spec => []QueuedIsAwaited
<1>1. IInv => QueuedIsAwaited
  <2> SUFFICES ASSUME IInv, queue # <<>>
               PROVE  /\ queue = <<waiting>> /\ listener = "waiting"
                      /\ job[waiting] = "queued" /\ promise[waiting] = "none"
    BY DEF QueuedIsAwaited
  <2>1. queue = <<waiting>> /\ waiting \in Jobs /\ job[waiting] = "queued"
    BY DEF IInv, JobsOk, TypeOK
  <2>2. QED
    BY <2>1 DEF IInv, JobsOk, TypeOK
<1>2. QED
  BY <1>1, Invariance, PTL

\* A command reported cancelled never began and never will.
THEOREM CancelIsTrue == Spec => []CancelledNeverRuns
<1>1. IInv => CancelledNeverRuns
  BY DEF IInv, CancelledNeverRuns, JobsOk, TypeOK
<1>2. QED
  BY <1>1, Invariance, PTL

\* The engine is busy for a session exactly while that session's command is
\* with it.
THEOREM BusyIsExact == Spec => []BusyIsTrue
  BY Invariance, PTL DEF IInv

\* The session socket is the served connection's.
THEOREM OneSession == Spec => []SessionIsConn
  BY Invariance, PTL DEF IInv, ConnOk

\* Failed passwords of a listener session are bounded by the lockouts.
THEOREM LockoutHolds == Spec => []FailuresAreBounded
  BY Invariance, PTL DEF IInv

\* Nothing of the server is left at the local prompt.
THEOREM NothingIsLeft == Spec => []LocalIsAlone
<1>1. IInv => LocalIsAlone
  BY DEF IInv, LocalIsAlone, ThreadsOk, ConnOk, SessionIsConn, JobsOk, BusyIsTrue
<1>2. QED
  BY <1>1, Invariance, PTL

-------------------------------------------------------------------------------
(* No wait is forgotten *)

\* Only the listener takes its own client's command out of the queue, and it
\* answers the client in the same critical section.
LEMMA StepWaited == IInv /\ WaitedOk /\ [Next]_vars => WaitedOk'
<1> SUFFICES ASSUME IInv, WaitedOk, [Next]_vars, listener' = "waiting",
                    job'[waiting'] = "removed"
             PROVE  promise'[waiting'] = "cancelled"
  BY DEF WaitedOk
<1> USE DEF serverVars, engineVars, consoleVars, connVars, jobVars, gateVars, authVars
<1>1. CASE UNCHANGED <<listener, waiting, job, promise>>
  BY <1>1 DEF WaitedOk
<1>2. CASE Engine
  <2>1. CASE TryPopJob
    <3>1. queue = <<waiting>> /\ waiting \in Jobs
      BY <2>1 DEF TryPopJob, IInv, JobsOk, TypeOK
    <3>2. job'[waiting] = "begun" /\ waiting' = waiting
      BY <2>1, <3>1 DEF TryPopJob, IInv, TypeOK
    <3>3. QED
      BY <3>2
  <2>2. CASE Execute
    <3>1. waiting \in Jobs /\ listener = "waiting"
      BY <2>2 DEF Execute, IInv, JobsOk, TypeOK
    <3>2. waiting # current /\ job'[waiting] = job[waiting]
          /\ promise'[waiting] = promise[waiting]
      BY <2>2, <3>1 DEF Execute, IInv, TypeOK
    <3>3. QED
      BY <2>2, <3>1, <3>2 DEF Execute, WaitedOk
  <2>3. CASE JoinListener
    BY <2>3 DEF JoinListener
  <2>4. CASE \/ LoopOrLeave \/ Wake \/ PopNothing \/ CancelReader \/ JoinReader
             \/ Stop \/ CloseListening
    BY <1>1, <2>4
       DEF LoopOrLeave, Wake, PopNothing, CancelReader, JoinReader, Stop, CloseListening
  <2>5. QED
    BY <1>2, <2>1, <2>2, <2>3, <2>4 DEF Engine
<1>3. CASE ReaderStep
  BY <1>1, <1>3 DEF ReaderStep, ReaderCheck, ReaderTakes, ReaderShuts
<1>4. CASE ListenerStep
  BY <1>4 DEF ListenerStep, ListenerTop, AcceptNothing, ProbeFails, AuthRefused,
     SessionOver, Leave, CloseConn, ResultReady, GiveUp
<1>5. CASE Client
  <2>1. CASE Cancel
    <3>1. waiting \in Jobs
      BY <2>1 DEF Cancel, IInv, JobsOk, TypeOK
    <3>2. QED
      BY <2>1, <3>1 DEF Cancel, IInv, TypeOK
  <2>2. ASSUME NEW j \in Jobs, Submit(j) PROVE FALSE
    BY <2>2 DEF Submit, IInv, TypeOK
  <2>3. CASE \E h \in Handles, p \in Peers : Accept(h, p)
    BY <2>3 DEF Accept
  <2>4. CASE Register \/ AuthFails \/ AuthSucceeds
    BY <2>4 DEF Register, AuthFails, AuthSucceeds
  <2>5. CASE PeerLeaves
    BY <1>1, <2>5 DEF PeerLeaves
  <2>6. QED
    BY <1>5, <2>1, <2>2, <2>3, <2>4, <2>5 DEF Client
<1>6. CASE Operator
  <2>1. CASE Start
    BY <2>1 DEF Start
  <2>2. CASE \/ LocalWriteMode \/ ReadDisconnect \/ ReadWriteOff \/ ReadOther
             \/ ReadFails \/ Interrupt \/ \E quit \in BOOLEAN : ReadOff(quit)
    BY <1>1, <2>2 DEF LocalWriteMode, ReadDisconnect, ReadWriteOff, ReadOther,
       ReadFails, Interrupt, ReadOff
  <2>3. QED
    BY <1>6, <2>1, <2>2 DEF Operator
<1>7. CASE UNCHANGED vars
  BY <1>1, <1>7 DEF vars
<1>8. QED
  BY <1>2, <1>3, <1>4, <1>5, <1>6, <1>7 DEF Next

\* A client that waits has its answer, is about to be let go, or its command is
\* still where the engine will find it.
THEOREM NoWaitIsForgotten == Spec => []WaiterIsCaredFor
<1>1. Init => WaitedOk
  BY DEF Init, WaitedOk
<1>2. IInv /\ WaitedOk => WaiterIsCaredFor
  <2> SUFFICES ASSUME IInv, WaitedOk, listener = "waiting", running,
                      promise[waiting] = "none"
               PROVE  \/ engine = "run" /\ current = waiting
                      \/ queue = <<waiting>> /\ engine \notin {"local", "shut", "close"}
    BY DEF WaiterIsCaredFor
  <2>1. waiting \in Jobs /\ job[waiting] # "new"
    BY DEF IInv, JobsOk, TypeOK
  <2>2. job[waiting] \in {"queued", "begun"}
    BY <2>1 DEF IInv, JobsOk, TypeOK, WaitedOk
  <2>3. job[waiting] = "queued" => queue = <<waiting>>
    BY <2>1 DEF IInv, JobsOk
  <2>4. job[waiting] = "begun" => engine = "run" /\ current = waiting
    BY <2>1 DEF IInv, JobsOk
  <2>5. engine \notin {"local", "shut", "close"}
    BY DEF IInv, ThreadsOk
  <2>6. QED
    BY <2>2, <2>3, <2>4, <2>5
<1>3. QED
  BY <1>1, <1>2, StepWaited, Invariance, PTL DEF Spec

-------------------------------------------------------------------------------
(* The promise about commands *)

\* Submitting, and what the client's wait ends in, are the steps of
\* RemoteCommands of the same meaning.
LEMMA ListenerKeepsPromise ==
  ASSUME IInv,
         \/ \E j \in Jobs : Submit(j)
         \/ Cancel \/ ResultReady \/ GiveUp
  PROVE  Commands!Next
<1>1. ASSUME NEW j \in Jobs, Submit(j) PROVE Commands!Submit(j)
  <2>1. waiting = None
    BY <1>1 DEF Submit, IInv, JobsOk
  <2>2. QED
    BY <1>1, <2>1 DEF Submit, Commands!Submit, Commands!Move
<1>2. listener = "waiting" => waiting \in Jobs
  BY DEF IInv, JobsOk, TypeOK
<1>3. CASE Cancel
  <2>1. job[waiting] = "queued" /\ waiting \in Jobs
    BY <1>2, <1>3, OnlyWaitingIsQueued DEF Cancel
  <2>2. Commands!Remove(waiting)
    BY <1>3, <2>1 DEF Cancel, Commands!Remove, Commands!Move
  <2>3. QED
    BY <2>1, <2>2 DEF Commands!Next
<1>4. CASE ResultReady
  <2>1. waiting \in Jobs /\ promise[waiting] \in {"result", "cancelled"}
    BY <1>2, <1>4 DEF ResultReady, IInv, TypeOK
  <2>2. /\ promise[waiting] = "result" => job[waiting] = "done"
        /\ promise[waiting] = "cancelled" => job[waiting] = "removed"
    BY <2>1 DEF IInv, JobsOk
  <2>3. Commands!Tell(waiting, promise[waiting])
    BY <1>4, <2>1, <2>2 DEF ResultReady, Commands!Tell
  <2>4. QED
    BY <2>1, <2>3 DEF Commands!Next
<1>5. CASE GiveUp
  <2>1. waiting \in Jobs /\ Commands!Abandon(waiting)
    BY <1>2, <1>5 DEF GiveUp, Commands!Abandon
  <2>2. QED
    BY <2>1 DEF Commands!Next
<1>6. QED
  BY <1>1, <1>3, <1>4, <1>5 DEF Commands!Next

\* What the engine takes is what the client waits for; what it ends, it began.
LEMMA EngineKeepsPromise ==
  ASSUME IInv, TryPopJob \/ Execute
  PROVE  Commands!Next
<1>1. CASE TryPopJob
  <2>1. /\ queue = <<waiting>> /\ waiting \in Jobs /\ job[waiting] = "queued"
        /\ \A j \in Jobs : job[j] # "begun"
    BY <1>1 DEF TryPopJob, IInv, JobsOk, TypeOK
  <2>2. Commands!Begin(waiting)
    BY <1>1, <2>1 DEF TryPopJob, connVars, Commands!Begin, Commands!Move
  <2>3. QED
    BY <2>1, <2>2 DEF Commands!Next
<1>2. CASE Execute
  <2>1. current \in Jobs /\ job[current] = "begun"
    BY <1>2 DEF Execute, IInv, ThreadsOk, JobsOk, TypeOK
  <2>2. Commands!End(current)
    BY <1>2, <2>1 DEF Execute, Commands!End, Commands!Move
  <2>3. QED
    BY <2>1, <2>2 DEF Commands!Next
<1>3. QED
  BY <1>1, <1>2

\* Every step is a step of RemoteCommands or leaves its variables alone.
LEMMA StepKeepsPromise ==
  ASSUME IInv, [Next]_vars
  PROVE  [Commands!Next]_(Commands!commandVars)
<1>1. CASE UNCHANGED <<job, waiting, told>>
  BY <1>1 DEF Commands!commandVars
<1>2. CASE Engine
  BY <1>1, <1>2, EngineKeepsPromise DEF Engine, LoopOrLeave, Wake, PopNothing,
     CancelReader, JoinReader,
     Stop, CloseListening, JoinListener, jobVars
<1>3. CASE ReaderStep
  BY <1>1, <1>3 DEF ReaderStep, ReaderCheck, ReaderTakes, ReaderShuts, jobVars
<1>4. CASE ListenerStep
  BY <1>1, <1>4, ListenerKeepsPromise DEF ListenerStep, ListenerTop, AcceptNothing,
     ProbeFails, AuthRefused, SessionOver, Leave, CloseConn, jobVars
<1>5. CASE Client
  BY <1>1, <1>5, ListenerKeepsPromise DEF Client, Accept, Register, AuthFails,
     AuthSucceeds, PeerLeaves, jobVars
<1>6. CASE Operator
  BY <1>1, <1>6 DEF Operator, LocalWriteMode, Start, ReadOff, ReadDisconnect,
     ReadWriteOff, ReadOther, ReadFails, Interrupt, jobVars
<1>7. CASE UNCHANGED vars
  BY <1>1, <1>7 DEF vars, jobVars
<1>8. QED
  BY <1>2, <1>3, <1>4, <1>5, <1>6, <1>7 DEF Next

(* The server keeps the promise of RemoteCommands: it runs one command at a *)
(* time, only for the client that waits for it, and every answer is true    *)
(* (EnqueueAndWait, TryPopJob).                                             *)
THEOREM KeepsPromise == Spec => ImplementsCommands
<1>1. Init => Commands!Init
  BY DEF Init, Commands!Init
<1>2. IInv /\ [Next]_vars => [Commands!Next]_(Commands!commandVars)
  BY StepKeepsPromise
<1>3. QED
  BY <1>1, <1>2, Invariance, PTL DEF Spec, ImplementsCommands, Commands!Spec
===============================================================================
