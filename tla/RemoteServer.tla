----------------------------- MODULE RemoteServer -----------------------------
(***************************************************************************)
(* The remote operator server (user/RemoteServer.cpp) and the engine loop  *)
(* that runs its commands (user/main.cpp, RunRemoteEngineLoop).            *)
(*                                                                         *)
(* Three threads: the engine, which owns the driver; the listener, which   *)
(* serves one connection at a time (HandleClient) and waits in it for the  *)
(* engine (EnqueueAndWait); and the console reader of the machine that     *)
(* serves.  An action is a critical section, or a step between two waits.  *)
(*                                                                         *)
(* Of a connection the model keeps its socket handle, whether it is cut    *)
(* (shut down here, or gone or in error at the other end) and its peer; of *)
(* a command, that it may leave the kernel write gate open or closed.  Two *)
(* branches cannot be reached, as SessionIsConn and QueuedIsAwaited show:  *)
(* session-busy at accept, and the cancel of queued jobs outside           *)
(* EnqueueAndWait.                                                         *)
(***************************************************************************)
EXTENDS Integers, Sequences

CONSTANTS
  Jobs,          \* the commands that clients may submit
  Handles,       \* values of socket handles
  Peers,         \* addresses of clients
  PeerLockout,   \* kAuthFailLockout
  Lockout,       \* kGlobalAuthLockout
  MaxPending,    \* kMaxPending
  MaxSerial      \* how many connections are accepted (bound of the model)

ASSUME NamesAssumption == \A S \in {Jobs, Handles, Peers} : "none" \notin S
ASSUME LimitsAssumption ==
  /\ PeerLockout \in Nat \ {0}
  /\ Lockout \in Nat \ {0}
  /\ MaxPending \in Nat \ {0}
  /\ MaxSerial \in Nat

VARIABLES
  running,      \* running_
  interrupted,  \* g_StopRequested
  engine,       \* the engine thread: "local" at its prompt, or in its loop
  current,      \* the job it executes
  reader,       \* the console reader
  dropping,     \* the session socket DisconnectSession has taken
  listener,     \* the listener thread
  conn,         \* the handle of the connection it serves
  peer,         \* and its peer
  cut,          \* whether that connection is over
  serial,       \* how many connections were accepted
  session,      \* sessionSock_
  queue,        \* queue_
  waiting,      \* the job the listener waits for
  inFlight,     \* commandInFlight_
  job,          \* "new", "queued", "begun", "done" or "removed"
  promise,      \* each job's ResultPromise
  told,         \* what its client was told
  armed,        \* the kernel write gate
  writeOff,     \* writeOffRequested
  fails,        \* failCounts_
  globalFails   \* globalFails_

serverVars  == <<running, interrupted>>
engineVars  == <<engine, current>>
consoleVars == <<reader, dropping>>
connVars    == <<listener, conn, peer, cut, serial, session>>
jobVars     == <<queue, waiting, inFlight, job, promise, told>>
gateVars    == <<armed, writeOff>>
authVars    == <<fails, globalFails>>
vars == <<serverVars, engineVars, consoleVars, connVars, jobVars, gateVars, authVars>>

None == "none"
Engines   == {"local", "loop", "wake", "pop", "run", "cancel", "join",
              "stop", "shut", "close"}
Readers   == {"off", "check", "read", "stop", "drop", "dropping", "stopping"}
Listeners == {"off", "top", "accept", "probe", "auth", "serving", "waiting",
              "leaving", "closing"}

TypeOK ==
  /\ running \in BOOLEAN /\ interrupted \in BOOLEAN
  /\ engine \in Engines /\ current \in Jobs \cup {None}
  /\ reader \in Readers
  /\ dropping \in Handles \cup {None}
  /\ listener \in Listeners
  /\ conn \in Handles \cup {None}
  /\ peer \in Peers \cup {None}
  /\ cut \in BOOLEAN
  /\ serial \in 0..MaxSerial
  /\ session \in Handles \cup {None}
  /\ queue \in Seq(Jobs)
  /\ waiting \in Jobs \cup {None}
  /\ inFlight \in BOOLEAN
  /\ job \in [Jobs -> {"new", "queued", "begun", "done", "removed"}]
  /\ promise \in [Jobs -> {"none", "result", "cancelled"}]
  /\ told \in [Jobs -> {"none", "result", "cancelled"}]
  /\ armed \in BOOLEAN /\ writeOff \in BOOLEAN
  /\ fails \in [Peers -> Nat] /\ globalFails \in Nat

Init ==
  /\ running = FALSE /\ interrupted = FALSE
  /\ engine = "local" /\ current = None
  /\ reader = "off" /\ dropping = None
  /\ listener = "off"
  /\ conn = None /\ peer = None /\ cut = FALSE /\ serial = 0 /\ session = None
  /\ queue = <<>> /\ waiting = None /\ inFlight = FALSE
  /\ job = [j \in Jobs |-> "new"]
  /\ promise = [j \in Jobs |-> "none"]
  /\ told = [j \in Jobs |-> "none"]
  /\ armed = FALSE /\ writeOff = FALSE
  /\ fails = [p \in Peers |-> 0] /\ globalFails = 0

-------------------------------------------------------------------------------
(* At the local prompt *)

\* The local session opens and closes the write gate as it likes.
LocalWriteMode ==
  /\ engine = "local"
  /\ ~ interrupted
  /\ armed' = ~ armed
  /\ UNCHANGED <<serverVars, engineVars, consoleVars, connVars, jobVars,
                 writeOff, authVars>>

\* "remote on".
Start ==
  /\ engine = "local"
  /\ ~ interrupted
  /\ running' = TRUE
  /\ engine' = "loop"
  /\ reader' = "check"
  /\ listener' = "top"
  /\ inFlight' = FALSE
  /\ writeOff' = FALSE
  /\ fails' = [p \in Peers |-> 0]
  /\ globalFails' = 0
  /\ UNCHANGED <<interrupted, current, dropping, conn, peer, cut, serial, session,
                 queue, waiting, job, promise, told, armed>>

-------------------------------------------------------------------------------
(* The session socket: DisconnectSession takes it, then shuts it down *)

TakeSession ==
  /\ dropping' = session
  /\ session' = None

\* The handle may by now be closed, or be another connection's.
ShutTaken ==
  /\ cut' = (cut \/ (dropping # None /\ conn = dropping))
  /\ dropping' = None

-------------------------------------------------------------------------------
(* The engine *)

Queued(j) == \E i \in 1..Len(queue) : queue[i] = j

\* Mutant: a stop that is asked for is looked at only between commands.
LoopAlways ==
  /\ engine = "loop"
  /\ engine' = IF interrupted THEN "cancel" ELSE "wake"
  /\ UNCHANGED <<serverVars, current, consoleVars, connVars, jobVars, gateVars,
                 authVars>>

LoopOrLeave ==
  /\ engine = "loop"
  /\ engine' = IF running /\ ~ interrupted THEN "wake" ELSE "cancel"
  /\ UNCHANGED <<serverVars, current, consoleVars, connVars, jobVars, gateVars,
                 authVars>>

\* Mutant: a request for "write off" waits until the server stops.
WakeWithoutWriteOff ==
  /\ engine = "wake"
  /\ engine' = "pop"
  /\ UNCHANGED <<serverVars, current, consoleVars, connVars, jobVars, gateVars,
                 authVars>>

\* The engine takes a request for "write off"; if the driver refuses it, the
\* engine stops.
Wake ==
  /\ engine = "wake"
  /\ IF writeOff
     THEN \/ armed' = FALSE /\ engine' = "pop"
          \/ armed' = armed /\ engine' = "cancel"
     ELSE armed' = armed /\ engine' = "pop"
  /\ writeOff' = FALSE
  /\ UNCHANGED <<serverVars, current, consoleVars, connVars, jobVars, authVars>>

PopNothing ==
  /\ engine = "pop"
  /\ ~ running \/ queue = <<>>
  /\ engine' = "loop"
  /\ UNCHANGED <<serverVars, current, consoleVars, connVars, jobVars, gateVars,
                 authVars>>

TryPopJob ==
  /\ engine = "pop"
  /\ running
  /\ queue # <<>>
  /\ current' = Head(queue)
  /\ queue' = Tail(queue)
  /\ job' = [job EXCEPT ![Head(queue)] = "begun"]
  /\ inFlight' = TRUE
  /\ engine' = "run"
  /\ UNCHANGED <<serverVars, consoleVars, connVars, waiting, promise, told,
                 gateVars, authVars>>

\* A command runs, possibly "write on" or "write off", and its result is set.
Execute ==
  /\ engine = "run"
  /\ armed' \in BOOLEAN
  /\ job' = [job EXCEPT ![current] = "done"]
  /\ promise' = [promise EXCEPT ![current] = "result"]
  /\ current' = None
  /\ engine' = "pop"
  /\ UNCHANGED <<serverVars, consoleVars, connVars, queue, waiting, inFlight,
                 told, writeOff, authVars>>

\* The loop is left: controlStop tells the reader, which looks at it before
\* each line.
ControlStop == engine \in {"cancel", "join"}

\* CancelSynchronousIo, once: it ends a console read that is in progress.  A
\* reader that has looked at controlStop may be in its read or on the way to it,
\* and on the way it misses the cancel.
CancelReader ==
  /\ engine = "cancel"
  /\ \/ reader = "read" /\ reader' = "off"
     \/ UNCHANGED reader
  /\ engine' = "join"
  /\ UNCHANGED <<serverVars, current, dropping, connVars, jobVars, gateVars, authVars>>

JoinReader ==
  /\ engine = "join"
  /\ reader = "off"
  /\ engine' = "stop"
  /\ UNCHANGED <<serverVars, current, consoleVars, connVars, jobVars, gateVars,
                 authVars>>

\* RemoteServer::Stop: first like RequestStop, then the listening socket is
\* closed and the listener joined.
Stop ==
  /\ engine = "stop"
  /\ running' = FALSE
  /\ TakeSession
  /\ engine' = "shut"
  /\ UNCHANGED <<interrupted, current, reader, listener, conn, peer, cut, serial,
                 jobVars, gateVars, authVars>>

CloseListening ==
  /\ engine = "shut"
  /\ ShutTaken
  /\ engine' = "close"
  /\ UNCHANGED <<serverVars, current, reader, listener, conn, peer, serial, session,
                 jobVars, gateVars, authVars>>

JoinListener ==
  /\ engine = "close"
  /\ listener = "off"
  /\ inFlight' = FALSE
  /\ fails' = [p \in Peers |-> 0]
  /\ globalFails' = 0
  /\ promise' = [j \in Jobs |-> IF Queued(j) THEN "cancelled" ELSE promise[j]]
  /\ queue' = <<>>
  /\ engine' = "local"
  /\ UNCHANGED <<serverVars, current, consoleVars, connVars, waiting, job, told,
                 gateVars>>

-------------------------------------------------------------------------------
(* The console reader *)

\* From here on the reader is in its console read, or about to be.
ReaderCheck ==
  /\ reader = "check"
  /\ reader' = IF ControlStop THEN "off" ELSE "read"
  /\ UNCHANGED <<serverVars, engineVars, dropping, connVars, jobVars, gateVars,
                 authVars>>

\* "off", or with quit "q", "quit", "exit" or "unload".
ReadOff(quit) ==
  /\ reader = "read"
  /\ interrupted' = (interrupted \/ quit)
  /\ running' = FALSE
  /\ reader' = "stop"
  /\ UNCHANGED <<engineVars, dropping, connVars, jobVars, gateVars, authVars>>

ReadDisconnect ==
  /\ reader = "read"
  /\ reader' = "drop"
  /\ UNCHANGED <<serverVars, engineVars, dropping, connVars, jobVars, gateVars,
                 authVars>>

ReadWriteOff ==
  /\ reader = "read"
  /\ writeOff' = TRUE
  /\ reader' = "check"
  /\ UNCHANGED <<serverVars, engineVars, dropping, connVars, jobVars, armed,
                 authVars>>

\* "status", or a line that means nothing.
ReadOther ==
  /\ reader = "read"
  /\ reader' = "check"
  /\ UNCHANGED <<serverVars, engineVars, dropping, connVars, jobVars, gateVars,
                 authVars>>

\* The console has no more lines.
ReadFails ==
  /\ reader = "read"
  /\ reader' = "off"
  /\ UNCHANGED <<serverVars, engineVars, dropping, connVars, jobVars, gateVars,
                 authVars>>

ReaderTakes ==
  /\ reader \in {"stop", "drop"}
  /\ TakeSession
  /\ reader' = IF reader = "stop" THEN "stopping" ELSE "dropping"
  /\ UNCHANGED <<serverVars, engineVars, listener, conn, peer, cut, serial,
                 jobVars, gateVars, authVars>>

ReaderShuts ==
  /\ reader \in {"stopping", "dropping"}
  /\ ShutTaken
  /\ reader' = IF reader = "stopping" THEN "off" ELSE "check"
  /\ UNCHANGED <<serverVars, engineVars, listener, conn, peer, serial, session,
                 jobVars, gateVars, authVars>>

\* Ctrl+C.
Interrupt ==
  /\ interrupted' = TRUE
  /\ UNCHANGED <<running, engineVars, consoleVars, connVars, jobVars, gateVars,
                 authVars>>

-------------------------------------------------------------------------------
(* The listener: connections *)

ListenerTop ==
  /\ listener = "top"
  /\ listener' = IF running THEN "accept" ELSE "off"
  /\ UNCHANGED <<serverVars, engineVars, consoleVars, conn, peer, cut, serial,
                 session, jobVars, gateVars, authVars>>

\* Nobody connects within the time select waits, or listening is over.
AcceptNothing ==
  /\ listener = "accept"
  /\ listener' = "top"
  /\ UNCHANGED <<serverVars, engineVars, consoleVars, conn, peer, cut, serial,
                 session, jobVars, gateVars, authVars>>

Accept(h, p) ==
  /\ listener = "accept"
  /\ engine # "close"
  /\ serial < MaxSerial
  /\ conn' = h
  /\ peer' = p
  /\ serial' = serial + 1
  /\ cut' = FALSE
  /\ listener' = "probe"
  /\ UNCHANGED <<serverVars, engineVars, consoleVars, session, jobVars, gateVars,
                 authVars>>

\* A peer that is not the configured one, or sends nothing in time.
ProbeFails ==
  /\ listener = "probe"
  /\ listener' = "closing"
  /\ UNCHANGED <<serverVars, engineVars, consoleVars, conn, peer, cut, serial,
                 session, jobVars, gateVars, authVars>>

\* HandleClient begins.
Register ==
  /\ listener = "probe"
  /\ session' = conn
  /\ listener' = "auth"
  /\ UNCHANGED <<serverVars, engineVars, consoleVars, conn, peer, cut, serial,
                 jobVars, gateVars, authVars>>

AuthAllowed(p) == globalFails < Lockout /\ fails[p] < PeerLockout

\* The peer is locked out, or sends no proper frame in time.
AuthRefused ==
  /\ listener = "auth"
  /\ listener' = "leaving"
  /\ UNCHANGED <<serverVars, engineVars, consoleVars, conn, peer, cut, serial,
                 session, jobVars, gateVars, authVars>>

AuthFails ==
  /\ listener = "auth"
  /\ AuthAllowed(peer)
  /\ fails' = [fails EXCEPT ![peer] = @ + 1]
  /\ globalFails' = globalFails + 1
  /\ listener' = "leaving"
  /\ UNCHANGED <<serverVars, engineVars, consoleVars, conn, peer, cut, serial,
                 session, jobVars, gateVars>>

AuthSucceeds ==
  /\ listener = "auth"
  /\ AuthAllowed(peer)
  /\ ~ cut
  /\ fails' = [fails EXCEPT ![peer] = 0]
  /\ listener' = "serving"
  /\ UNCHANGED <<serverVars, engineVars, consoleVars, conn, peer, cut, serial,
                 session, jobVars, gateVars, globalFails>>

\* The other end leaves, dies, breaks the protocol or cannot be sent to.
PeerLeaves ==
  /\ listener \in {"auth", "serving", "waiting"}
  /\ cut' = TRUE
  /\ UNCHANGED <<serverVars, engineVars, consoleVars, listener, conn, peer, serial,
                 session, jobVars, gateVars, authVars>>

\* HandleClient's loop ends.
SessionOver ==
  /\ listener = "serving"
  /\ ~ running \/ session # conn \/ cut
  /\ listener' = "leaving"
  /\ UNCHANGED <<serverVars, engineVars, consoleVars, conn, peer, cut, serial,
                 session, jobVars, gateVars, authVars>>

Leave ==
  /\ listener = "leaving"
  /\ session' = IF session = conn THEN None ELSE session
  /\ listener' = "closing"
  /\ UNCHANGED <<serverVars, engineVars, consoleVars, conn, peer, cut, serial,
                 jobVars, gateVars, authVars>>

\* closesocket: the handle is free.
CloseConn ==
  /\ listener = "closing"
  /\ conn' = None
  /\ peer' = None
  /\ cut' = FALSE
  /\ listener' = "top"
  /\ UNCHANGED <<serverVars, engineVars, consoleVars, serial, session, jobVars,
                 gateVars, authVars>>

-------------------------------------------------------------------------------
(* The listener: commands (EnqueueAndWait) *)

\* A refused command (engine-busy) changes nothing.
Submit(j) ==
  /\ listener = "serving"
  /\ ~ cut
  /\ ~ inFlight
  /\ running
  /\ Len(queue) < MaxPending
  /\ job[j] = "new"
  /\ queue' = Append(queue, j)
  /\ job' = [job EXCEPT ![j] = "queued"]
  /\ waiting' = j
  /\ listener' = "waiting"
  /\ UNCHANGED <<serverVars, engineVars, consoleVars, conn, peer, cut, serial,
                 session, inFlight, promise, told, gateVars, authVars>>

\* The queue without j, which may no longer be in it.
Without(j) ==
  LET i == CHOOSE i \in 1..Len(queue) : queue[i] = j
  IN  IF Queued(j) THEN SubSeq(queue, 1, i - 1) \o SubSeq(queue, i + 1, Len(queue))
      ELSE queue

\* Mutant: the job is answered but stays in the queue.
CancelKeepsJob ==
  /\ listener = "waiting"
  /\ ~ cut
  /\ job[waiting] = "queued"
  /\ promise' = [promise EXCEPT ![waiting] = "cancelled"]
  /\ UNCHANGED <<serverVars, engineVars, consoleVars, connVars, queue, waiting,
                 inFlight, job, told, gateVars, authVars>>

\* Mutant: the job is removed, but nobody answers its client.
CancelUnanswered ==
  /\ listener = "waiting"
  /\ ~ cut
  /\ Queued(waiting)
  /\ queue' = Without(waiting)
  /\ job' = [job EXCEPT ![waiting] = "removed"]
  /\ UNCHANGED <<serverVars, engineVars, consoleVars, connVars, waiting, inFlight,
                 promise, told, gateVars, authVars>>

\* The client cancels the command it waits for.  Once that is begun, it gets
\* not-cancelable and nothing changes.
Cancel ==
  /\ listener = "waiting"
  /\ ~ cut
  /\ Queued(waiting)
  /\ queue' = Without(waiting)
  /\ job' = [job EXCEPT ![waiting] = "removed"]
  /\ promise' = [promise EXCEPT ![waiting] = "cancelled"]
  /\ UNCHANGED <<serverVars, engineVars, consoleVars, connVars, waiting, inFlight,
                 told, gateVars, authVars>>

\* Mutant: the flag is not cleared when the result is there.
ResultReadyStaysBusy ==
  /\ listener = "waiting"
  /\ promise[waiting] # "none"
  /\ told' = [told EXCEPT ![waiting] = promise[waiting]]
  /\ waiting' = None
  /\ listener' = "serving"
  /\ UNCHANGED <<serverVars, engineVars, consoleVars, conn, peer, cut, serial,
                 session, queue, inFlight, job, promise, gateVars, authVars>>

ResultReady ==
  /\ listener = "waiting"
  /\ promise[waiting] # "none"
  /\ told' = [told EXCEPT ![waiting] = promise[waiting]]
  /\ inFlight' = FALSE
  /\ waiting' = None
  /\ listener' = "serving"
  /\ UNCHANGED <<serverVars, engineVars, consoleVars, conn, peer, cut, serial,
                 session, queue, job, promise, gateVars, authVars>>

\* The server stops or the client goes: a command that is not begun never
\* will be.
GiveUp ==
  /\ listener = "waiting"
  /\ ~ running \/ cut
  /\ queue' = Without(waiting)
  /\ job' = [job EXCEPT ![waiting] = IF @ = "queued" THEN "removed" ELSE @]
  /\ inFlight' = FALSE
  /\ waiting' = None
  /\ listener' = "leaving"
  /\ UNCHANGED <<serverVars, engineVars, consoleVars, conn, peer, cut, serial,
                 session, promise, told, gateVars, authVars>>

-------------------------------------------------------------------------------

Engine ==
  \/ LoopOrLeave \/ Wake \/ PopNothing \/ TryPopJob \/ Execute
  \/ CancelReader \/ JoinReader \/ Stop \/ CloseListening \/ JoinListener

\* What the reader does without a line.
ReaderStep == ReaderCheck \/ ReaderTakes \/ ReaderShuts

\* What the listener does without a client.
ListenerStep ==
  \/ ListenerTop \/ AcceptNothing \/ ProbeFails \/ AuthRefused
  \/ SessionOver \/ Leave \/ CloseConn \/ ResultReady \/ GiveUp

Client ==
  \/ \E h \in Handles, p \in Peers : Accept(h, p)
  \/ Register \/ AuthFails \/ AuthSucceeds
  \/ PeerLeaves
  \/ \E j \in Jobs : Submit(j)
  \/ Cancel

Operator ==
  \/ LocalWriteMode \/ Start
  \/ \E quit \in BOOLEAN : ReadOff(quit)
  \/ ReadDisconnect \/ ReadWriteOff \/ ReadOther \/ ReadFails \/ Interrupt

Next == Engine \/ ReaderStep \/ ListenerStep \/ Client \/ Operator

Spec == Init /\ [][Next]_vars

\* Threads run, commands return, and waits with a deadline end; no client, no
\* operator and no console line is owed to anybody.
Fairness == WF_vars(Engine) /\ WF_vars(ReaderStep) /\ WF_vars(ListenerStep)

FairSpec == Spec /\ Fairness

-------------------------------------------------------------------------------
(* Properties *)

\* "Abandoned commands cannot execute later": what is queued is the command
\* its client is waiting for, so the engine never begins another one.
QueuedIsAwaited ==
  queue # <<>> =>
    /\ queue = <<waiting>>
    /\ listener = "waiting"
    /\ job[waiting] = "queued"
    /\ promise[waiting] = "none"

\* "Cancel removes a queued request": a command reported cancelled never began
\* and never will; one reported done did.
CancelledNeverRuns ==
  \A j \in Jobs :
    /\ "cancelled" \in {promise[j], told[j]} => job[j] = "removed"
    /\ told[j] = "result" => job[j] = "done"

\* The server keeps the promise of RemoteCommands: one command at a time, begun
\* only for the client that waits for it, and every answer true.
Commands == INSTANCE RemoteCommands
              WITH phase <- job, client <- waiting, told <- told, None <- None

ImplementsCommands == Commands!Spec

\* The busy flag means that the waiting client's own command was begun: no
\* session finds the engine busy for ever because an earlier one was dropped.
BusyIsTrue ==
  inFlight <=> listener = "waiting" /\ job[waiting] \in {"begun", "done"}

\* One session: the session socket, when there is one, is that of the one
\* connection being served, and none is left when the next one is accepted.
SessionIsConn ==
  session # None =>
    /\ session = conn
    /\ listener \in {"auth", "serving", "waiting", "leaving"}

\* A listener session lets at most Lockout passwords fail, and PeerLockout of
\* one peer in a row.
FailuresAreBounded ==
  /\ globalFails <= Lockout
  /\ \A p \in Peers : fails[p] <= PeerLockout

\* At the local prompt no thread of the server is left.
LocalIsAlone ==
  engine = "local" =>
    /\ listener = "off" /\ reader = "off" /\ ~ running
    /\ queue = <<>> /\ ~ inFlight /\ session = None

\* A stop, once asked for, brings the engine back to its prompt, whatever
\* client is connected or waiting; and so does any line that a reader gets after
\* the engine's cancel has missed it (RequestStop, Stop, RunRemoteEngineLoop).
OffReturns ==
  (engine # "local" /\ ~ running) \/ (engine = "join" /\ reader # "read")
    ~> engine = "local"

\* The loop is left (Ctrl+C, or a "write off" that the driver refused), and its
\* one CancelSynchronousIo came before the reader's console read: the server
\* still runs, but nobody serves it until somebody types a line.
CancelMissed == engine = "join" /\ reader = "read"

\* "Drop B": the session that a disconnect finds ends; and so does every wait
\* of a client for its command, which has no deadline of its own, unless the
\* engine's cancel missed the reader (EnqueueAndWait, RunRemoteEngineLoop).
ClientsEnd ==
  /\ listener = "waiting" ~> listener # "waiting" \/ CancelMissed
  /\ reader = "drop" /\ session # None ~> conn = None

\* The safety half of the clients' waits: whoever waits for its command has its
\* answer, is about to be let go, or has the command with an engine that will
\* still look at its queue, or stop (when its reader has ended, see
\* CancelMissed).  No answer is ever lost on the way.
WaiterIsCaredFor ==
  listener = "waiting" =>
    \/ promise[waiting] # "none"
    \/ ~ running \/ cut
    \/ engine = "run" /\ current = waiting
    \/ queue = <<waiting>> /\ engine \notin {"local", "shut", "close"}

\* A request for "write off" closes the gate, unless the engine leaves its
\* loop first.
WriteOffIsServed ==
  writeOff ~> \/ ~ writeOff /\ ~ armed
              \/ engine \in {"cancel", "join", "stop", "shut", "close", "local"}

-------------------------------------------------------------------------------
(* The inductive invariant *)

\* Which threads there are at each step of the engine.
ThreadsOk ==
  /\ engine = "run" <=> current # None
  /\ engine \in {"stop", "shut", "close", "local"} => reader = "off"
  /\ engine \in {"shut", "close", "local"} => ~ running
  /\ engine = "local" => listener = "off"
  /\ listener = "off" => ~ running

\* The connection and its session.
ConnOk ==
  /\ conn = None <=> listener \in {"off", "top", "accept"}
  /\ listener \in {"probe", "auth"} => peer # None
  /\ SessionIsConn

\* Each job is where its state says.
JobsOk ==
  /\ listener = "waiting" <=> waiting # None
  /\ listener = "waiting" => job[waiting] # "new"
  /\ queue # <<>> => queue = <<waiting>> /\ waiting # None /\ job[waiting] = "queued"
  /\ \A j \in Jobs :
       /\ job[j] = "queued" => queue = <<j>>
       /\ job[j] = "begun" <=> engine = "run" /\ current = j
       /\ job[j] = "done" <=> promise[j] = "result"
       /\ promise[j] = "cancelled" => job[j] = "removed"
       /\ told[j] # "none" => told[j] = promise[j]

\* A command that was taken out of the queue under its client was cancelled.
WaitedOk ==
  listener = "waiting" /\ job[waiting] = "removed" => promise[waiting] = "cancelled"

IInv == /\ TypeOK
        /\ ThreadsOk
        /\ ConnOk
        /\ JobsOk
        /\ BusyIsTrue
        /\ FailuresAreBounded
===============================================================================
