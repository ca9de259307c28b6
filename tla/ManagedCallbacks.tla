--------------------------- MODULE ManagedCallbacks ---------------------------
(***************************************************************************)
(* The minifilter fixture's managed callbacks (ManagedCallbacks.cpp): a    *)
(* port client pauses and resumes the bodies of the pre and post create    *)
(* callbacks.  A body runs under a rundown reference, which it takes under *)
(* the spin lock g_State; a transition clears the enabled bit under that   *)
(* lock, waits for the bodies without it, and opens the rundown again      *)
(* before the bit is set.  g_Control serializes transitions.               *)
(*                                                                         *)
(* Test holds only make a callback last longer.  A client stands for its   *)
(* cookie and its process; queries change nothing and are left out.        *)
(***************************************************************************)
EXTENDS Integers, Sequences, FiniteSets

CONSTANTS Callers,  \* threads in the create callbacks
          Clients   \* port clients

Both == {"pre", "post"}   \* KNDBG_MANAGED_BOTH
None == "none"

ASSUME CallersAssumption == IsFiniteSet(Callers)
ASSUME ClientsAssumption == {None, "stop"} \cap Clients = {}

VARIABLES
  stage,     \* "loaded", "stopping", "closing", "draining" or "gone"
  client,    \* each client: "none", "open", "exiting", "exited" or "closed"
  owner,     \* g_OwnerId
  control,   \* who holds g_Control, and what is still to be done under it
  step,      \* SetEnabled: 0 outside, then the next rundown to look at
  disable,   \* SetEnabled's disable and enable
  enable,
  enabled,   \* EnabledMask
  draining,  \* DrainingMask
  closed,    \* the rundowns that were waited for and not initialized again
  body       \* the kind of body each caller holds the rundown of

clientVars == <<stage, client, owner>>
setVars    == <<step, disable, enable, enabled, draining, closed>>
vars       == <<clientVars, control, setVars, body>>

Nobody == [by |-> None, plan |-> <<>>, release |-> FALSE, reply |-> FALSE]

Holder(who, plan, release, reply) ==
  [by |-> who, plan |-> plan, release |-> release, reply |-> reply]

TypeOK ==
  /\ stage \in {"loaded", "stopping", "closing", "draining", "gone"}
  /\ client \in [Clients -> {"none", "open", "exiting", "exited", "closed"}]
  /\ owner \in Clients \cup {None}
  /\ control \in [by : Clients \cup {None, "stop"}, plan : Seq(SUBSET Both),
                  release : BOOLEAN, reply : BOOLEAN]
  /\ step \in 0 .. 3
  /\ disable \subseteq Both /\ enable \subseteq Both
  /\ enabled \subseteq Both /\ draining \subseteq Both /\ closed \subseteq Both
  /\ body \in [Callers -> Both \cup {None}]

Init ==
  /\ stage = "loaded"
  /\ client = [c \in Clients |-> "none"]
  /\ owner = None
  /\ control = Nobody
  /\ step = 0
  /\ disable = {} /\ enable = {}
  /\ enabled = Both
  /\ draining = {} /\ closed = {}
  /\ body = [t \in Callers |-> None]

-------------------------------------------------------------------------------
(* Requests, each from LockControl to UnlockControl *)

\* ReleaseOwner's transitions.
Restore == IF stage = "loaded" THEN <<{}, Both>> ELSE <<{}>>

\* Mutant: an owner that goes leaves things as they are.
ReleaseByForgets(c) == Holder(c, <<>>, owner = c, FALSE)

ReleaseBy(c) ==
  Holder(c, IF owner = c THEN Restore ELSE <<>>, owner = c, FALSE)

Connect(c) ==
  /\ control = Nobody
  /\ stage = "loaded"
  /\ client[c] = "none"
  /\ client' = [client EXCEPT ![c] = "open"]
  /\ UNCHANGED <<stage, owner, control, setVars, body>>

Disconnect(c) ==
  /\ control = Nobody
  /\ client[c] \in {"open", "exited"}
  /\ client' = [client EXCEPT ![c] = "closed"]
  /\ control' = ReleaseBy(c)
  /\ UNCHANGED <<stage, owner, setVars, body>>

\* The process ends: the notification has begun and waits for g_Control.
BeginExit(c) ==
  /\ client[c] = "open"
  /\ stage \in {"loaded", "stopping", "closing"}
  /\ client' = [client EXCEPT ![c] = "exiting"]
  /\ UNCHANGED <<stage, owner, control, setVars, body>>

ProcessNotify(c) ==
  /\ control = Nobody
  /\ client[c] = "exiting"
  /\ client' = [client EXCEPT ![c] = "exited"]
  /\ control' = ReleaseBy(c)
  /\ UNCHANGED <<stage, owner, setVars, body>>

Accepted(c) ==
  /\ control = Nobody
  /\ stage = "loaded"
  /\ client[c] = "open"
  /\ owner \in {None, c}

Ask(c, plan) ==
  /\ Accepted(c)
  /\ owner' = c
  /\ control' = Holder(c, plan, FALSE, TRUE)
  /\ UNCHANGED <<stage, client, setVars, body>>

Disable(c, mask) == Ask(c, <<enabled \ mask>>)
Enable(c, mask)  == Ask(c, <<enabled \cup mask>>)
TestHold(c)      == Ask(c, <<>>)

Release(c) ==
  /\ Accepted(c)
  /\ control' = Holder(c, IF owner = c THEN Restore ELSE <<>>, TRUE, TRUE)
  /\ UNCHANGED <<stage, client, owner, setVars, body>>

-------------------------------------------------------------------------------
(* SetEnabled *)

SetBegin ==
  /\ control.plan # <<>>
  /\ step = 0
  /\ disable' = enabled \ Head(control.plan)
  /\ enable' = Head(control.plan) \ enabled
  /\ enabled' = enabled \cap Head(control.plan)
  /\ draining' = draining \cup disable'
  /\ step' = 1
  /\ UNCHANGED <<clientVars, control, closed, body>>

Kind == IF step = 1 THEN "pre" ELSE "post"

\* ExWaitForRundownProtectionRelease begins: nobody gets the rundown any more.
SetWait ==
  /\ step \in {1, 2}
  /\ Kind \in disable \ closed
  /\ closed' = closed \cup {Kind}
  /\ UNCHANGED <<clientVars, control, step, disable, enable, enabled, draining,
                 body>>

Waited == Kind \in disable => /\ Kind \in closed
                              /\ \A t \in Callers : body[t] # Kind

\* The wait is over; a rundown to be enabled is initialized again.
SetTurn ==
  /\ step \in {1, 2}
  /\ Waited
  /\ closed' = closed \ ({Kind} \cap enable)
  /\ step' = step + 1
  /\ UNCHANGED <<clientVars, control, disable, enable, enabled, draining, body>>

SetEnd ==
  /\ step = 3
  /\ draining' = draining \ disable
  /\ enabled' = enabled \cup enable
  /\ step' = 0
  /\ disable' = {} /\ enable' = {}
  /\ control' = [control EXCEPT !.plan = Tail(@)]
  /\ UNCHANGED <<clientVars, closed, body>>

\* Mutant: unload keeps g_Control until it has removed the notification.
ConcludeButKeep ==
  /\ control # Nobody
  /\ control.plan = <<>>
  /\ owner' = IF control.release THEN None ELSE owner
  /\ \/ control' = IF control.by = "stop" THEN control ELSE Nobody
     \/ /\ control.reply /\ ~ control.release
        /\ control' = Holder(control.by, Restore, TRUE, FALSE)
  /\ stage' = IF control.by = "stop" THEN "closing" ELSE stage
  /\ UNCHANGED <<client, setVars, body>>

\* The end of a request: the owner is forgotten if it was released.  A client
\* that cannot be told of what it changed, and is now the owner of, loses it.
Conclude ==
  /\ control # Nobody
  /\ control.plan = <<>>
  /\ owner' = IF control.release THEN None ELSE owner
  /\ \/ control' = Nobody
     \/ /\ control.reply /\ ~ control.release
        /\ control' = Holder(control.by, Restore, TRUE, FALSE)
  /\ stage' = IF control.by = "stop" THEN "closing" ELSE stage
  /\ UNCHANGED <<client, setVars, body>>

-------------------------------------------------------------------------------
(* RunBody *)

Inside(t) == body[t] # None

\* Mutant: the rundown alone decides.
EnterUnchecked(t, k) ==
  /\ stage # "gone"
  /\ ~ Inside(t)
  /\ k \notin closed
  /\ body' = [body EXCEPT ![t] = k]
  /\ UNCHANGED <<clientVars, control, setVars>>

\* The bit is read and the rundown taken in one step; a callback that gets
\* neither goes on without its body.
Enter(t, k) ==
  /\ stage # "gone"
  /\ ~ Inside(t)
  /\ k \in enabled
  /\ k \notin closed
  /\ body' = [body EXCEPT ![t] = k]
  /\ UNCHANGED <<clientVars, control, setVars>>

Leave(t) ==
  /\ Inside(t)
  /\ body' = [body EXCEPT ![t] = None]
  /\ UNCHANGED <<clientVars, control, setVars>>

-------------------------------------------------------------------------------
(* Unload *)

Stop ==
  /\ stage = "loaded"
  /\ control = Nobody
  /\ stage' = "stopping"
  /\ control' = Holder("stop", IF owner = None THEN <<{}>> ELSE <<{}, {}>>,
                       TRUE, FALSE)
  /\ UNCHANGED <<client, owner, setVars, body>>

\* The system waits for notifications under way.
RemoveNotify ==
  /\ stage = "closing"
  /\ \A c \in Clients : client[c] # "exiting"
  /\ stage' = "draining"
  /\ UNCHANGED <<client, owner, control, setVars, body>>

\* FltUnregisterFilter waits for the callbacks.
Unregister ==
  /\ stage = "draining"
  /\ control = Nobody
  /\ \A t \in Callers : ~ Inside(t)
  /\ stage' = "gone"
  /\ UNCHANGED <<client, owner, control, setVars, body>>

-------------------------------------------------------------------------------

Transition == SetBegin \/ SetWait \/ SetTurn \/ SetEnd \/ Conclude

Port(c) ==
  \/ Connect(c) \/ Disconnect(c) \/ BeginExit(c) \/ TestHold(c) \/ Release(c)
  \/ \E mask \in (SUBSET Both) \ {{}} : Disable(c, mask) \/ Enable(c, mask)

Next ==
  \/ \E c \in Clients : Port(c) \/ ProcessNotify(c)
  \/ Transition
  \/ \E t \in Callers : Leave(t) \/ \E k \in Both : Enter(t, k)
  \/ Stop \/ RemoveNotify \/ Unregister

Spec == Init /\ [][Next]_vars

\* Threads that can run do, a body comes to its end, and g_Control is granted
\* first come, first served.
Fairness ==
  /\ WF_vars(Transition)
  /\ \A t \in Callers : WF_vars(Leave(t))
  /\ \A c \in Clients : SF_vars(ProcessNotify(c))
  /\ WF_vars(RemoveNotify) /\ WF_vars(Unregister)

FairSpec == Spec /\ Fairness

-------------------------------------------------------------------------------
(* Properties *)

\* A body runs only while its kind is enabled or a transition still waits for
\* it: once a client has been told that the callbacks are paused none is
\* running, and a rundown is initialized again only when nobody holds it.
\* An enabled body can be entered: its rundown is open.
PausedIsQuiet ==
  /\ \A t \in Callers : Inside(t) => body[t] \in enabled \cup draining
  /\ enabled \cap closed = {}

\* The callbacks keep the promise of PausableBodies: SetEnabled's steps, taken
\* in between those of bodies, owners and unload, are one switch.
Pausable == INSTANCE PausableBodies
              WITH Kinds <- Both, None <- None, on <- enabled, pausing <- draining,
                   inside <- body,
                   phase <- IF stage \in {"loaded", "gone"} THEN stage ELSE "unloading"

ImplementsPausable == Pausable!Spec

\* Callbacks are paused only on behalf of a client that is still there: neither
\* a disconnect, nor an exit, nor a lost reply leaves them paused.
PausedIsOwned ==
  stage = "loaded" /\ control = Nobody /\ enabled # Both =>
    /\ owner # None
    /\ client[owner] \in {"open", "exiting"}

\* Unload ends, also with notifications and bodies under way.
UnloadEnds == stage = "stopping" ~> stage = "gone"

-------------------------------------------------------------------------------
(* The inductive invariant behind PausedIsQuiet and PausedIsOwned *)

\* What SetEnabled has done so far and still has to do.  Before a rundown's
\* turn it may be entered still; after it nobody is inside and it is open.
SetOk ==
  /\ draining = disable
  /\ step = 0 => disable = {} /\ enable = {}
  /\ step # 0 => /\ control.plan # <<>>
                 /\ enabled \cup enable = Head(control.plan)
  /\ disable \cap (enabled \cup enable) = {}
  /\ enabled \cap closed = {}
  /\ step \in {2, 3} => "pre" \notin enable \cap closed
  /\ step = 3 => "post" \notin enable \cap closed

BodiesOk ==
  /\ \A t \in Callers : Inside(t) => body[t] \in enabled \cup disable
  /\ step \in {2, 3} /\ "pre" \in disable => \A t \in Callers : body[t] # "pre"
  /\ step = 3 /\ "post" \in disable => \A t \in Callers : body[t] # "post"

\* What will be enabled when the request under way has ended.
Target == IF control.plan = <<>> THEN enabled
          ELSE control.plan[Len(control.plan)]

\* While the driver is loaded, somebody owns a pause or it is being undone.
OwnerOk ==
  stage = "loaded" =>
    /\ control.by # "stop"
    /\ control = Nobody \/ control.by \in Clients
    /\ owner = None \/ control.release => Target = Both
    /\ \/ owner = None
       \/ client[owner] \in {"open", "exiting"}
       \/ control.release

IInv == TypeOK /\ SetOk /\ BodiesOk /\ OwnerOk

\* What ImplementsPausable needs beside it, who may switch: an owner while the
\* driver is loaded, then unload, which leaves everything off.
SwitchOk ==
  /\ stage = "loaded" /\ owner = None =>
       control.plan = <<>> /\ (control.reply => control.release)
  /\ stage = "stopping" =>
       /\ control.by = "stop" /\ control.release /\ ~ control.reply
       /\ \A i \in 1 .. Len(control.plan) : control.plan[i] = {}
       /\ control.plan = <<>> => enabled = {}
  /\ stage \in {"closing", "draining", "gone"} =>
       /\ control.by # "stop" /\ ~ control.reply /\ control.plan = <<>>
       /\ enabled = {} /\ owner = None
===============================================================================
