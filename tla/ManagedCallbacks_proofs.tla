------------------------ MODULE ManagedCallbacks_proofs ------------------------
(***************************************************************************)
(* Proofs about ManagedCallbacks: the inductive invariant, for any number  *)
(* of clients and callers, and the two safety properties it gives.         *)
(***************************************************************************)
EXTENDS ManagedCallbacks, TLAPS

\* The two kinds of body, and the kind each turn is about.
LEMMA Kinds ==
  ASSUME step \in {1, 2}
  PROVE  /\ Kind \in Both
         /\ step = 1 => Kind = "pre"
         /\ step = 2 => Kind = "post"
  BY DEF Kind, Both

\* A step outside SetEnabled and outside the bodies disturbs neither of the
\* invariants about them, if it does not change a plan that is being carried out.
LEMMA Elsewhere ==
  ASSUME SetOk, BodiesOk, UNCHANGED <<setVars, body>>,
         step # 0 => UNCHANGED control
  PROVE  SetOk' /\ BodiesOk'
<1>1. /\ UNCHANGED <<step, disable, enable, enabled, draining, closed, body>>
      /\ step # 0 => control'.plan = control.plan
  BY DEF setVars
<1>2. SetOk'
  BY <1>1 DEF SetOk
<1>3. BodiesOk'
  BY <1>1 DEF BodiesOk, Inside
<1>4. QED
  BY <1>2, <1>3

\* With nobody in control nothing is being carried out.
LEMMA Rest ==
  ASSUME SetOk, control = Nobody \/ control.plan = <<>>
  PROVE  step = 0
  BY DEF SetOk, Nobody

-------------------------------------------------------------------------------
(* Requests *)

\* A plan is a sequence of sets of kinds.
LEMMA Plans ==
  ASSUME TypeOK, NEW who \in Clients \cup {None, "stop"}, NEW release \in BOOLEAN,
         NEW reply \in BOOLEAN,
         NEW plan, plan \in {<<>>, Restore, <<{}>>, <<{}, {}>>}
                  \/ \E s \in SUBSET Both : plan = <<s>>
  PROVE  Holder(who, plan, release, reply)
           \in [by : Clients \cup {None, "stop"}, plan : Seq(SUBSET Both),
                release : BOOLEAN, reply : BOOLEAN]
<1>1. plan \in Seq(SUBSET Both)
  <2>1. {} \in SUBSET Both /\ Both \in SUBSET Both
    OBVIOUS
  <2>2. CASE plan = <<>>
    BY <2>2
  <2>6. CASE plan = <<{}>>
    BY <2>1, <2>6
  <2>7. CASE plan = <<{}, {}>>
    BY <2>1, <2>7
  <2>3. CASE plan = <<{}, Both>>
    BY <2>1, <2>3
  <2>4. CASE \E s \in SUBSET Both : plan = <<s>>
    BY <2>4
  <2>5. QED
    BY <2>2, <2>3, <2>4, <2>6, <2>7 DEF Restore
<1>2. QED
  BY <1>1 DEF Holder

\* What ReleaseOwner leaves to be done undoes a pause.
LEMMA RestoreRestores ==
  ASSUME stage = "loaded"
  PROVE  Restore # <<>> /\ Restore[Len(Restore)] = Both
  BY DEF Restore

\* Connecting disturbs nothing.
LEMMA ConnectIInv ==
  ASSUME IInv, NEW c \in Clients, Connect(c)
  PROVE  IInv'
<1>1. TypeOK'
  BY DEF IInv, TypeOK, Connect, setVars
<1>2. SetOk' /\ BodiesOk'
  BY Elsewhere DEF IInv, Connect
<1>3. OwnerOk'
  BY DEF IInv, TypeOK, OwnerOk, Connect, Target, setVars, Nobody, None
<1>4. QED
  BY <1>1, <1>2, <1>3 DEF IInv

\* A client that goes, by disconnecting or by its exit, has what it paused
\* undone in its place.
LEMMA GoesIInv ==
  ASSUME IInv, NEW c \in Clients, Disconnect(c) \/ ProcessNotify(c)
  PROVE  IInv'
<1>1. /\ control = Nobody /\ control' = ReleaseBy(c)
      /\ UNCHANGED <<stage, owner, setVars, body>>
      /\ client' \in [Clients -> {"none", "open", "exiting", "exited", "closed"}]
      /\ \A d \in Clients : d # c => client'[d] = client[d]
  BY DEF IInv, TypeOK, Disconnect, ProcessNotify
<1>2. step = 0
  BY <1>1, Rest DEF IInv
<1>3. control' \in [by : Clients \cup {None, "stop"}, plan : Seq(SUBSET Both),
                    release : BOOLEAN, reply : BOOLEAN]
  BY <1>1, Plans DEF ReleaseBy, IInv
<1>4. TypeOK'
  BY <1>1, <1>3 DEF IInv, TypeOK, setVars
<1>5. SetOk' /\ BodiesOk'
  BY <1>1, <1>2, Elsewhere DEF IInv
<1>6. OwnerOk'
  <2> SUFFICES ASSUME stage = "loaded" PROVE OwnerOk'
    BY <1>1 DEF OwnerOk
  <2>1. control'.by = c /\ control'.release = (owner = c)
        /\ control'.plan = IF owner = c THEN Restore ELSE <<>>
    BY <1>1 DEF ReleaseBy, Holder
  <2>2. c # "stop"
    BY ClientsAssumption
  <2>3. CASE owner = c
    <3>1. Target' = Both
      BY <2>1, <2>3, RestoreRestores DEF Target
    <3>2. QED
      BY <1>1, <2>1, <2>2, <2>3, <3>1 DEF OwnerOk
  <2>4. CASE owner # c
    <3>1. Target' = Target
      BY <1>1, <2>1, <2>4 DEF Target, Nobody, setVars
    <3>2. owner # None => client'[owner] = client[owner]
      BY <1>1, <2>4 DEF IInv, TypeOK
    <3>3. QED
      BY <1>1, <2>1, <2>2, <2>4, <3>1, <3>2 DEF IInv, OwnerOk, Nobody
  <2>5. QED
    BY <2>3, <2>4
<1>7. QED
  BY <1>4, <1>5, <1>6 DEF IInv

\* The beginning of an exit.
LEMMA BeginExitIInv ==
  ASSUME IInv, NEW c \in Clients, BeginExit(c)
  PROVE  IInv'
<1>1. TypeOK'
  BY DEF IInv, TypeOK, BeginExit, setVars
<1>2. SetOk' /\ BodiesOk'
  BY Elsewhere DEF IInv, BeginExit
<1>3. OwnerOk'
  BY DEF IInv, TypeOK, OwnerOk, BeginExit, Target, setVars, Nobody, None
<1>4. QED
  BY <1>1, <1>2, <1>3 DEF IInv

\* A pause, a resume or a test hold: the client becomes the owner.
LEMMA AskIInv ==
  ASSUME IInv, NEW c \in Clients, NEW plan,
         plan = <<>> \/ \E s \in SUBSET Both : plan = <<s>>,
         Ask(c, plan)
  PROVE  IInv'
<1>1. /\ control = Nobody /\ stage = "loaded" /\ client[c] = "open"
      /\ control' = Holder(c, plan, FALSE, TRUE)
      /\ owner' = c
      /\ UNCHANGED <<stage, client, setVars, body>>
  BY DEF Ask, Accepted
<1>2. TypeOK'
  <2>1. control' \in [by : Clients \cup {None, "stop"}, plan : Seq(SUBSET Both),
                      release : BOOLEAN, reply : BOOLEAN]
    BY <1>1, Plans DEF IInv
  <2>2. QED
    BY <1>1, <2>1 DEF IInv, TypeOK, setVars
<1>3. SetOk' /\ BodiesOk'
  BY <1>1, Rest, Elsewhere DEF IInv
<1>4. OwnerOk'
  <2>1. c # None /\ c # "stop"
    BY ClientsAssumption
  <2>2. QED
    BY <1>1, <2>1 DEF OwnerOk, Holder
<1>5. QED
  BY <1>2, <1>3, <1>4 DEF IInv

\* A release at the owner's request.
LEMMA ReleaseIInv ==
  ASSUME IInv, NEW c \in Clients, Release(c)
  PROVE  IInv'
<1>1. /\ control = Nobody /\ stage = "loaded" /\ client[c] = "open"
      /\ owner \in {None, c}
      /\ control' = Holder(c, IF owner = c THEN Restore ELSE <<>>, TRUE, TRUE)
      /\ UNCHANGED <<stage, client, owner, setVars, body>>
  BY DEF Release, Accepted
<1>2. TypeOK'
  <2>1. control' \in [by : Clients \cup {None, "stop"}, plan : Seq(SUBSET Both),
                      release : BOOLEAN, reply : BOOLEAN]
    BY <1>1, Plans DEF IInv
  <2>2. QED
    BY <1>1, <2>1 DEF IInv, TypeOK, setVars
<1>3. SetOk' /\ BodiesOk'
  BY <1>1, Rest, Elsewhere DEF IInv
<1>4. Target' = Both
  <2>1. CASE owner = c
    BY <1>1, <2>1, RestoreRestores DEF Target, Holder
  <2>2. CASE owner # c
    <3>1. owner = None /\ Target = enabled
      BY <1>1, <2>2 DEF Target, Nobody
    <3>2. QED
      BY <1>1, <2>2, <3>1 DEF Target, Holder, IInv, OwnerOk, setVars
  <2>3. QED
    BY <2>1, <2>2
<1>5. OwnerOk'
  <2>1. c # "stop"
    BY ClientsAssumption
  <2>2. QED
    BY <1>1, <1>4, <2>1 DEF OwnerOk, Holder
<1>6. QED
  BY <1>2, <1>3, <1>5 DEF IInv

-------------------------------------------------------------------------------
(* SetEnabled *)

\* The bits to be cleared are cleared, those to be set wait for the end.
LEMMA SetBeginIInv ==
  ASSUME IInv, SetBegin
  PROVE  IInv'
<1>1. Head(control.plan) \subseteq Both
  BY DEF IInv, TypeOK, SetBegin
<1>2. TypeOK'
  BY <1>1 DEF IInv, TypeOK, SetBegin, clientVars
<1>3. SetOk'
  BY DEF IInv, SetOk, SetBegin
<1>4. BodiesOk'
  BY <1>1 DEF IInv, TypeOK, SetOk, BodiesOk, SetBegin, Inside
<1>5. OwnerOk'
  BY DEF IInv, OwnerOk, Target, SetBegin, clientVars
<1>6. QED
  BY <1>2, <1>3, <1>4, <1>5 DEF IInv

\* The wait closes a rundown whose bit is cleared.
LEMMA SetWaitIInv ==
  ASSUME IInv, SetWait
  PROVE  IInv'
<1>1. Kind \in Both /\ Kind \in disable
  BY Kinds DEF SetWait
<1>2. TypeOK'
  BY <1>1 DEF IInv, TypeOK, SetWait, clientVars
<1>3. SetOk'
  BY <1>1 DEF IInv, SetOk, SetWait, Kind
<1>4. BodiesOk'
  BY DEF IInv, BodiesOk, SetWait, Inside
<1>5. OwnerOk'
  BY DEF IInv, OwnerOk, Target, SetWait, clientVars
<1>6. QED
  BY <1>2, <1>3, <1>4, <1>5 DEF IInv

\* After its turn a kind is quiet if it is disabled, and open if it is enabled.
LEMMA SetTurnIInv ==
  ASSUME IInv, SetTurn
  PROVE  IInv'
<1>1. \/ step = 1 /\ step' = 2 /\ Kind = "pre"
      \/ step = 2 /\ step' = 3 /\ Kind = "post"
  BY DEF SetTurn, Kind
<1>2. /\ closed' = closed \ ({Kind} \cap enable)
      /\ UNCHANGED <<control, disable, enable, enabled, draining, body>>
      /\ Kind \in disable => \A t \in Callers : body[t] # Kind
  BY DEF SetTurn, Waited
<1>3. TypeOK'
  BY <1>1, <1>2 DEF IInv, TypeOK, SetTurn, clientVars
<1>4. SetOk'
  BY <1>1, <1>2 DEF IInv, SetOk
<1>5. BodiesOk'
  BY <1>1, <1>2 DEF IInv, BodiesOk, Inside
<1>6. OwnerOk'
  BY DEF IInv, OwnerOk, Target, SetTurn, clientVars
<1>7. QED
  BY <1>3, <1>4, <1>5, <1>6 DEF IInv

\* The bits to be set are set; nobody is left in a disabled body.
LEMMA SetEndIInv ==
  ASSUME IInv, SetEnd
  PROVE  IInv'
<1> DEFINE plan == control.plan
<1>1. /\ plan \in Seq(SUBSET Both) /\ plan # <<>>
      /\ enabled \cup enable = Head(plan)
      /\ enabled' = enabled \cup enable
      /\ disable' = {} /\ enable' = {} /\ draining' = {} /\ step' = 0
      /\ UNCHANGED <<clientVars, closed, body>>
  BY DEF IInv, TypeOK, SetOk, SetEnd
<1>2. /\ control' = [control EXCEPT !.plan = Tail(plan)]
      /\ Tail(plan) \in Seq(SUBSET Both)
      /\ Len(Tail(plan)) = Len(plan) - 1
  BY <1>1 DEF SetEnd
<1>3. control' = Holder(control.by, Tail(plan), control.release, control.reply)
  BY <1>2 DEF IInv, TypeOK, Holder
<1>4. TypeOK'
  <2>1. control' \in [by : Clients \cup {None, "stop"}, plan : Seq(SUBSET Both),
                      release : BOOLEAN, reply : BOOLEAN]
    BY <1>2, <1>3 DEF IInv, TypeOK, Holder
  <2>2. enabled' \subseteq Both
    BY <1>1 DEF IInv, TypeOK
  <2>3. QED
    BY <1>1, <2>1, <2>2 DEF IInv, TypeOK, clientVars
<1>5. SetOk'
  <2>1. Both = {"pre", "post"} /\ closed \subseteq Both /\ enable \subseteq Both
        /\ step = 3
    BY DEF Both, IInv, TypeOK, SetEnd
  <2>2. enable \cap closed = {}
    BY <2>1 DEF IInv, SetOk
  <2>3. (enabled \cup enable) \cap closed = {}
    BY <2>2 DEF IInv, SetOk
  <2>4. QED
    BY <1>1, <2>3 DEF SetOk
<1>6. BodiesOk'
  <2>1. \A t \in Callers : Inside(t) => body[t] \in Both
    BY DEF IInv, TypeOK, Inside
  <2>2. \A t \in Callers : Inside(t) => body[t] \notin disable
    BY <2>1 DEF IInv, BodiesOk, SetEnd, Both
  <2>3. QED
    BY <1>1, <2>2 DEF IInv, BodiesOk, Inside
<1>7. Target' = Target
  <2>1. CASE Tail(plan) = <<>>
    <3>1. Len(plan) = 1
      <4>1. Len(<<>>) = 0
        OBVIOUS
      <4>2. Len(plan) \in Nat
        BY <1>1
      <4>3. Len(plan) - 1 = 0
        BY <1>2, <2>1, <4>1
      <4>4. QED
        BY <4>2, <4>3
    <3>2. plan[Len(plan)] = Head(plan)
      BY <1>1, <3>1
    <3>3. control'.plan = <<>>
      BY <1>3, <2>1 DEF Holder
    <3>4. QED
      BY <1>1, <3>2, <3>3 DEF Target
  <2>2. CASE Tail(plan) # <<>>
    <3>1. Tail(plan)[Len(Tail(plan))] = plan[Len(plan)]
      BY <1>1, <1>2, <2>2
    <3>2. QED
      BY <1>1, <1>3, <2>2, <3>1 DEF Target, Holder
  <2>3. QED
    BY <2>1, <2>2
<1>8. OwnerOk'
  <2>1. UNCHANGED <<stage, client, owner>> /\ control'.by = control.by
        /\ control'.release = control.release
    BY <1>1, <1>3 DEF clientVars, Holder
  <2>2. control # Nobody
    BY <1>1 DEF Nobody
  <2>3. QED
    BY <1>7, <2>1, <2>2 DEF IInv, OwnerOk
<1>9. QED
  BY <1>4, <1>5, <1>6, <1>8 DEF IInv

\* A request ends, or begins to undo what could not be replied.
LEMMA ConcludeIInv ==
  ASSUME IInv, Conclude
  PROVE  IInv'
<1>1. /\ control # Nobody /\ control.plan = <<>> /\ step = 0
      /\ owner' = IF control.release THEN None ELSE owner
      /\ stage' = IF control.by = "stop" THEN "closing" ELSE stage
      /\ UNCHANGED <<client, setVars, body>>
  BY Rest DEF IInv, Conclude
<1>2. \/ control' = Nobody
      \/ ~ control.release /\ control' = Holder(control.by, Restore, TRUE, FALSE)
  BY DEF Conclude
<1>3. control' \in [by : Clients \cup {None, "stop"}, plan : Seq(SUBSET Both),
                    release : BOOLEAN, reply : BOOLEAN]
  <2>1. control.by \in Clients \cup {None, "stop"}
    BY DEF IInv, TypeOK
  <2>2. Nobody = Holder(None, <<>>, FALSE, FALSE)
    BY DEF Nobody, Holder
  <2>3. CASE control' = Nobody
    BY <2>2, <2>3, Plans DEF IInv
  <2>4. CASE control' = Holder(control.by, Restore, TRUE, FALSE)
    BY <2>1, <2>4, Plans DEF IInv
  <2>5. QED
    BY <1>2, <2>3, <2>4
<1>4. TypeOK'
  BY <1>1, <1>3 DEF IInv, TypeOK, setVars
<1>5. SetOk' /\ BodiesOk'
  BY <1>1, Elsewhere DEF IInv
<1>6. OwnerOk'
  <2> SUFFICES ASSUME stage' = "loaded" PROVE OwnerOk'
    BY DEF OwnerOk
  <2>1. stage = "loaded" /\ control.by \in Clients /\ control.by # "stop"
    BY <1>1 DEF IInv, OwnerOk
  <2>2. Target = enabled
    BY <1>1 DEF Target
  <2>3. CASE control' = Nobody
    <3>1. Target' = enabled
      BY <1>1, <2>3 DEF Target, Nobody, setVars
    <3>2. QED
      BY <1>1, <2>1, <2>2, <2>3, <3>1 DEF IInv, OwnerOk, Nobody, None
  <2>4. CASE ~ control.release /\ control' = Holder(control.by, Restore, TRUE, FALSE)
    <3>1. Target' = Both
      BY <2>1, <2>4, RestoreRestores DEF Target, Holder
    <3>2. QED
      BY <1>1, <2>1, <2>4, <3>1 DEF OwnerOk, Holder
  <2>5. QED
    BY <1>2, <2>3, <2>4
<1>7. QED
  BY <1>4, <1>5, <1>6 DEF IInv

-------------------------------------------------------------------------------
(* Bodies and unload *)

\* A body is entered only while its bit is set.
LEMMA EnterIInv ==
  ASSUME IInv, NEW t \in Callers, NEW k \in Both, Enter(t, k)
  PROVE  IInv'
<1>1. TypeOK'
  BY DEF IInv, TypeOK, Enter, clientVars, setVars
<1>2. SetOk'
  BY DEF IInv, SetOk, Enter, setVars
<1>3. BodiesOk'
  BY DEF IInv, TypeOK, SetOk, BodiesOk, Enter, setVars, Inside
<1>4. OwnerOk'
  BY DEF IInv, OwnerOk, Target, Enter, clientVars, setVars
<1>5. QED
  BY <1>1, <1>2, <1>3, <1>4 DEF IInv

\* Leaving a body.
LEMMA LeaveIInv ==
  ASSUME IInv, NEW t \in Callers, Leave(t)
  PROVE  IInv'
<1>1. TypeOK'
  BY DEF IInv, TypeOK, Leave, clientVars, setVars
<1>2. SetOk'
  BY DEF IInv, SetOk, Leave, setVars
<1>3. BodiesOk'
  BY DEF IInv, TypeOK, BodiesOk, Leave, setVars, Inside, None
<1>4. OwnerOk'
  BY DEF IInv, OwnerOk, Target, Leave, clientVars, setVars
<1>5. QED
  BY <1>1, <1>2, <1>3, <1>4 DEF IInv

\* The steps of unload.
LEMMA UnloadIInv ==
  ASSUME IInv, Stop \/ RemoveNotify \/ Unregister
  PROVE  IInv'
<1>1. /\ stage' \in {"stopping", "closing", "draining", "gone"}
      /\ UNCHANGED <<client, owner, setVars, body>>
      /\ \/ /\ control = Nobody
            /\ control' = Holder("stop", IF owner = None THEN <<{}>> ELSE <<{}, {}>>,
                                 TRUE, FALSE)
         \/ UNCHANGED control
  BY DEF Stop, RemoveNotify, Unregister
<1>2. TypeOK'
  <2>1. control' \in [by : Clients \cup {None, "stop"}, plan : Seq(SUBSET Both),
                      release : BOOLEAN, reply : BOOLEAN]
    <3>1. CASE UNCHANGED control
      BY <3>1 DEF IInv, TypeOK
    <3>2. CASE control' = Holder("stop", IF owner = None THEN <<{}>> ELSE <<{}, {}>>,
                                 TRUE, FALSE)
      BY <3>2, Plans DEF IInv
    <3>3. QED
      BY <1>1, <3>1, <3>2
  <2>2. QED
    BY <1>1, <2>1 DEF IInv, TypeOK, setVars
<1>3. SetOk' /\ BodiesOk'
  BY <1>1, Rest, Elsewhere DEF IInv
<1>4. OwnerOk'
  BY <1>1 DEF OwnerOk
<1>5. QED
  BY <1>2, <1>3, <1>4 DEF IInv

-------------------------------------------------------------------------------
(* The theorems *)

\* The masks, the rundowns, the bodies and the owner agree in every reachable
\* state, for any number of clients and callers.
THEOREM Invariance == Spec => []IInv
<1>1. Init => IInv
  <2> SUFFICES ASSUME Init PROVE IInv
    OBVIOUS
  <2>1. control \in [by : Clients \cup {None, "stop"}, plan : Seq(SUBSET Both),
                     release : BOOLEAN, reply : BOOLEAN]
    <3>1. <<>> \in Seq(SUBSET Both)
      OBVIOUS
    <3>2. QED
      BY <3>1 DEF Init, Nobody
  <2>2. TypeOK
    BY <2>1 DEF Init, TypeOK
  <2>3. SetOk /\ BodiesOk
    BY DEF Init, SetOk, BodiesOk, Inside
  <2>4. OwnerOk
    BY DEF Init, OwnerOk, Target, Nobody, None
  <2>5. QED
    BY <2>2, <2>3, <2>4 DEF IInv
<1>2. IInv /\ [Next]_vars => IInv'
  <2> SUFFICES ASSUME IInv, [Next]_vars PROVE IInv'
    OBVIOUS
  <2>1. CASE \E c \in Clients : Port(c) \/ ProcessNotify(c)
    <3>1. PICK c \in Clients : Port(c) \/ ProcessNotify(c)
      BY <2>1
    <3>2. CASE \E mask \in (SUBSET Both) \ {{}} : Disable(c, mask) \/ Enable(c, mask)
      <4>1. PICK mask \in SUBSET Both : Disable(c, mask) \/ Enable(c, mask)
        BY <3>2
      <4>2. enabled \ mask \in SUBSET Both /\ enabled \cup mask \in SUBSET Both
        BY DEF IInv, TypeOK
      <4>3. QED
        BY <4>1, <4>2, AskIInv DEF Disable, Enable
    <3>3. CASE TestHold(c)
      BY <3>3, AskIInv DEF TestHold
    <3>4. QED
      BY <3>1, <3>2, <3>3, ConnectIInv, GoesIInv, BeginExitIInv, ReleaseIInv DEF Port
  <2>2. CASE Transition
    BY <2>2, SetBeginIInv, SetWaitIInv, SetTurnIInv, SetEndIInv, ConcludeIInv
       DEF Transition
  <2>3. CASE \E t \in Callers : Leave(t) \/ \E k \in Both : Enter(t, k)
    BY <2>3, EnterIInv, LeaveIInv
  <2>4. CASE Stop \/ RemoveNotify \/ Unregister
    BY <2>4, UnloadIInv
  <2>5. CASE UNCHANGED vars
    BY <2>5 DEF vars, clientVars, setVars, IInv, TypeOK, SetOk, BodiesOk, OwnerOk,
       Target, Inside
  <2>6. QED
    BY <2>1, <2>2, <2>3, <2>4, <2>5 DEF Next
<1>3. QED
  BY <1>1, <1>2, PTL DEF Spec

\* The variables keep their types.
THEOREM TypeCorrect == Spec => []TypeOK
<1>1. IInv => TypeOK
  BY DEF IInv
<1>2. QED
  BY <1>1, Invariance, PTL

\* No body of a paused kind runs once its transition has ended, and an enabled
\* body can be entered.
THEOREM QuietWhenPaused == Spec => []PausedIsQuiet
<1>1. IInv => PausedIsQuiet
  BY DEF IInv, SetOk, BodiesOk, PausedIsQuiet
<1>2. QED
  BY <1>1, Invariance, PTL

\* Nothing stays paused for a client that has gone.
THEOREM NobodysPauseIsUndone == Spec => []PausedIsOwned
<1>1. IInv => PausedIsOwned
  BY DEF IInv, OwnerOk, PausedIsOwned, Target, Nobody, None
<1>2. QED
  BY <1>1, Invariance, PTL

-------------------------------------------------------------------------------
(* The promise of PausableBodies *)

\* Requests and exits leave an owner in charge of what they still have to do.
LEMMA RequestSwitch ==
  ASSUME IInv, SwitchOk, NEW c \in Clients, Port(c) \/ ProcessNotify(c)
  PROVE  SwitchOk'
<1>1. c # None /\ c # "stop"
  BY ClientsAssumption
<1>2. ASSUME UNCHANGED <<stage, owner, control, enabled>> PROVE SwitchOk'
  BY <1>2 DEF SwitchOk
<1>3. CASE Connect(c) \/ BeginExit(c)
  BY <1>2, <1>3 DEF Connect, BeginExit, setVars
<1>4. CASE Disconnect(c) \/ ProcessNotify(c)
  <2>1. /\ control = Nobody /\ control' = ReleaseBy(c)
        /\ UNCHANGED <<stage, owner, enabled>>
    BY <1>4 DEF Disconnect, ProcessNotify, setVars
  <2>2. stage # "stopping"
    BY <2>1 DEF SwitchOk, Nobody
  <2>3. /\ control'.by = c /\ ~ control'.reply
        /\ owner = None => control'.plan = <<>>
    BY <1>1, <2>1 DEF ReleaseBy, Holder
  <2>4. QED
    BY <1>1, <2>1, <2>2, <2>3 DEF SwitchOk, IInv, TypeOK
<1>5. ASSUME NEW plan, Ask(c, plan) PROVE SwitchOk'
  BY <1>1, <1>5 DEF Ask, Accepted, SwitchOk
<1>6. CASE Release(c)
  <2>1. stage' = "loaded" /\ owner' = owner
    BY <1>6 DEF Release, Accepted
  <2>2. owner = None => control'.plan = <<>> /\ control'.release
    BY <1>1, <1>6 DEF Release, Holder
  <2>3. QED
    BY <2>1, <2>2 DEF SwitchOk
<1>7. QED
  BY <1>3, <1>4, <1>5, <1>6 DEF Port, TestHold, Disable, Enable

\* A transition ends with what its plan says, unload's with nothing on.
LEMMA TransitionSwitch ==
  ASSUME IInv, SwitchOk, Transition
  PROVE  SwitchOk'
<1>1. CASE SetBegin
  BY <1>1 DEF SetBegin, SwitchOk, clientVars
<1>2. CASE SetWait \/ SetTurn
  BY <1>2 DEF SetWait, SetTurn, SwitchOk, clientVars
<1>3. CASE SetEnd
  <2> DEFINE plan == control.plan
  <2>1. /\ plan \in Seq(SUBSET Both) /\ plan # <<>>
        /\ enabled' = Head(plan)
        /\ UNCHANGED <<stage, owner>>
    BY <1>3 DEF IInv, TypeOK, SetOk, SetEnd, clientVars
  <2>2. /\ control' = [control EXCEPT !.plan = Tail(plan)]
        /\ Len(Tail(plan)) = Len(plan) - 1
        /\ \A i \in 1 .. Len(Tail(plan)) : Tail(plan)[i] = plan[i + 1]
    BY <1>3, <2>1 DEF SetEnd
  <2>3. control'.plan = Tail(plan) /\ control'.by = control.by
        /\ control'.release = control.release /\ control'.reply = control.reply
    BY <2>2 DEF IInv, TypeOK
  <2>4. stage = "loaded" => owner # None
    BY <2>1 DEF SwitchOk
  <2>5. CASE stage = "stopping"
    <3>1. \A i \in 1 .. Len(plan) : plan[i] = {}
      BY <2>5 DEF SwitchOk
    <3>2. Head(plan) = {}
      BY <2>1, <3>1
    <3>3. \A i \in 1 .. Len(Tail(plan)) : Tail(plan)[i] = {}
      <4>1. Len(plan) \in Nat
        BY <2>1
      <4>2. QED
        BY <2>2, <3>1, <4>1
    <3>4. QED
      BY <2>1, <2>3, <2>5, <3>2, <3>3 DEF SwitchOk
  <2>6. stage \notin {"closing", "draining", "gone"}
    BY <2>1 DEF SwitchOk
  <2>7. QED
    BY <2>1, <2>4, <2>5, <2>6 DEF SwitchOk
<1>4. CASE Conclude
  <2>1. /\ control.plan = <<>>
        /\ owner' = IF control.release THEN None ELSE owner
        /\ stage' = IF control.by = "stop" THEN "closing" ELSE stage
        /\ UNCHANGED enabled
        /\ control' = Nobody \/ (control.reply /\ ~ control.release)
    BY <1>4 DEF Conclude, setVars
  <2>2. CASE stage = "loaded"
    <3>1. stage' = "loaded"
      BY <2>1, <2>2 DEF IInv, OwnerOk
    <3>2. QED
      BY <2>1, <2>2, <3>1 DEF SwitchOk, Nobody
  <2>3. CASE stage # "loaded"
    <3>1. ~ control.reply /\ control' = Nobody
      BY <2>1, <2>3 DEF SwitchOk, IInv, TypeOK
    <3>2. stage' \in {"closing", "draining", "gone"} /\ owner' = None /\ enabled = {}
      BY <2>1, <2>3 DEF SwitchOk, IInv, TypeOK
    <3>3. QED
      BY <2>1, <3>1, <3>2 DEF SwitchOk, Nobody, None
  <2>4. QED
    BY <2>2, <2>3
<1>5. QED
  BY <1>1, <1>2, <1>3, <1>4 DEF Transition

\* Every step keeps it.
LEMMA NextSwitch == IInv /\ SwitchOk /\ [Next]_vars => SwitchOk'
<1> SUFFICES ASSUME IInv, SwitchOk, [Next]_vars PROVE SwitchOk'
  OBVIOUS
<1>1. CASE \E t \in Callers : Leave(t) \/ \E k \in Both : Enter(t, k)
  BY <1>1 DEF Leave, Enter, SwitchOk, clientVars, setVars
<1>2. CASE Stop
  <2>1. /\ stage' = "stopping" /\ UNCHANGED enabled
        /\ control' = Holder("stop", IF owner = None THEN <<{}>> ELSE <<{}, {}>>, TRUE, FALSE)
    BY <1>2 DEF Stop, setVars
  <2>2. /\ control'.by = "stop" /\ control'.release /\ ~ control'.reply
        /\ control'.plan \in {<<{}>>, <<{}, {}>>}
    BY <2>1 DEF Holder
  <2>3. control'.plan # <<>> /\ \A i \in 1 .. Len(control'.plan) : control'.plan[i] = {}
    BY <2>2
  <2>4. QED
    BY <2>1, <2>2, <2>3 DEF SwitchOk
<1>3. CASE RemoveNotify \/ Unregister
  BY <1>3 DEF RemoveNotify, Unregister, SwitchOk, setVars
<1>4. CASE UNCHANGED vars
  BY <1>4 DEF vars, clientVars, setVars, SwitchOk
<1>5. QED
  BY <1>1, <1>2, <1>3, <1>4, RequestSwitch, TransitionSwitch DEF Next

\* The owner comes and goes as PausableBodies says: it goes when everything is
\* on again, or with unload.
LEMMA OwnersArePromised ==
  ASSUME IInv, SwitchOk, UNCHANGED <<setVars, body>>, UNCHANGED stage,
         \/ UNCHANGED owner
         \/ stage = "loaded" /\ (owner = None \/ owner' = owner) /\ owner' \in Clients
         \/ step = 0 /\ owner' = None /\ (stage = "loaded" => enabled = Both)
  PROVE  [Pausable!Next]_(Pausable!pausableVars)
<1>1. UNCHANGED <<enabled, draining, body, stage>>
  BY DEF setVars
<1>2. CASE UNCHANGED owner
  BY <1>1, <1>2 DEF Pausable!pausableVars
<1>3. CASE stage = "loaded" /\ owner = None /\ owner' \in Clients
  <2>1. Pausable!Own(owner')
    BY <1>1, <1>3 DEF Pausable!Own
  <2>2. QED
    BY <1>3, <2>1 DEF Pausable!Next
<1>4. CASE step = 0 /\ owner' = None /\ (stage = "loaded" => enabled = Both)
  <2>1. draining = {}
    BY <1>4 DEF IInv, SetOk
  <2>2. Pausable!Disown
    BY <1>1, <1>4, <2>1 DEF Pausable!Disown
  <2>3. QED
    BY <2>2 DEF Pausable!Next
<1>5. QED
  BY <1>2, <1>3, <1>4

\* What SetEnabled switches, it switches for an owner or for unload.
LEMMA TransitionIsPromised ==
  ASSUME IInv, SwitchOk, Transition
  PROVE  [Pausable!Next]_(Pausable!pausableVars)
<1>1. CASE SetBegin
  <2> DEFINE K == enabled \ Head(control.plan)
  <2>1. /\ enabled' = enabled \ K /\ draining' = K /\ draining = {}
        /\ UNCHANGED <<stage, owner, body>>
        /\ control.plan # <<>>
    BY <1>1 DEF SetBegin, IInv, SetOk, clientVars
  <2>2. K \in SUBSET Both /\ K \cap enabled = K
    BY DEF IInv, TypeOK
  <2>3. owner # None \/ stage = "stopping"
    BY <2>1 DEF SwitchOk, IInv, TypeOK
  <2>4. Pausable!Pause(K \cap enabled)
    <3> HIDE DEF K
    <3>1. QED
      BY <2>1, <2>2, <2>3 DEF Pausable!Pause, Pausable!Entitled
  <2>5. QED
    BY <2>2, <2>4 DEF Pausable!Next
<1>2. CASE SetWait \/ SetTurn
  BY <1>2 DEF SetWait, SetTurn, clientVars, Pausable!pausableVars
<1>3. CASE SetEnd
  <2>1. /\ enabled' = enabled \cup enable /\ draining' = {} /\ draining = disable
        /\ UNCHANGED <<stage, owner, body>>
        /\ control.plan # <<>> /\ step = 3
        /\ enabled \cup enable = Head(control.plan)
        /\ disable \cap (enabled \cup enable) = {}
    BY <1>3 DEF SetEnd, IInv, SetOk, clientVars
  <2>2. owner # None \/ stage = "stopping"
    BY <2>1 DEF SwitchOk, IInv, TypeOK
  <2>3. \A t \in Callers : body[t] \notin draining
    <3>1. draining \subseteq Both
      BY DEF IInv, TypeOK
    <3>2. QED
      BY <2>1, <3>1 DEF IInv, BodiesOk, Both
  <2>4. stage # "loaded" => enable = {}
    <3>1. ASSUME stage = "stopping" PROVE Head(control.plan) = {}
      <4>1. control.plan \in Seq(SUBSET Both) /\ control.plan # <<>>
        BY <2>1 DEF IInv, TypeOK
      <4>2. Len(control.plan) \in Nat /\ Len(control.plan) # 0
            /\ Head(control.plan) = control.plan[1]
        BY <4>1
      <4>3. QED
        BY <3>1, <4>2 DEF SwitchOk
    <3>2. stage \in {"loaded", "stopping"}
      BY <2>1 DEF SwitchOk, IInv, TypeOK
    <3>3. QED
      BY <2>1, <3>1, <3>2
  <2> DEFINE R == enable \ enabled
  <2>5. R \in SUBSET Both /\ R \cap (enabled \cup draining) = {}
        /\ enabled' = enabled \cup R
    BY <2>1 DEF IInv, TypeOK
  <2>6. stage # "loaded" => R = {}
    BY <2>4
  <2>7. Pausable!Settle(R)
    <3> HIDE DEF R
    <3>1. QED
      BY <2>1, <2>2, <2>3, <2>5, <2>6 DEF Pausable!Settle, Pausable!Entitled
  <2>8. QED
    <3> HIDE DEF R
    <3>1. QED
      BY <2>5, <2>7 DEF Pausable!Next
<1>4. CASE Conclude
  <2>1. /\ control.plan = <<>> /\ step = 0
        /\ owner' = IF control.release THEN None ELSE owner
        /\ stage' = IF control.by = "stop" THEN "closing" ELSE stage
        /\ UNCHANGED <<setVars, body>>
    BY <1>4, Rest DEF Conclude, IInv
  <2>2. CASE stage = "loaded"
    <3>1. stage' = stage
      BY <2>1, <2>2 DEF IInv, OwnerOk
    <3>2. control.release => enabled = Both
      BY <2>1, <2>2 DEF IInv, OwnerOk, Target
    <3>3. QED
      BY <2>1, <2>2, <3>1, <3>2, OwnersArePromised
  <2>3. CASE stage # "loaded"
    <3>1. CASE control.by = "stop"
      <4>1. stage = "stopping" /\ stage' = "closing" /\ owner' = None
            /\ UNCHANGED <<enabled, draining, body>>
        BY <2>1, <2>3, <3>1 DEF SwitchOk, IInv, TypeOK, setVars
      <4>2. Pausable!Disown
        BY <4>1 DEF Pausable!Disown
      <4>3. QED
        BY <4>2 DEF Pausable!Next
    <3>2. CASE control.by # "stop"
      BY <2>1, <2>3, <3>2, OwnersArePromised
    <3>3. QED
      BY <3>1, <3>2
  <2>4. QED
    BY <2>2, <2>3
<1>5. QED
  BY <1>1, <1>2, <1>3, <1>4 DEF Transition

\* Requests, bodies and unload.
LEMMA OthersArePromised ==
  ASSUME IInv, SwitchOk,
         \/ \E c \in Clients : Port(c) \/ ProcessNotify(c)
         \/ \E t \in Callers : Leave(t) \/ \E k \in Both : Enter(t, k)
         \/ Stop \/ RemoveNotify \/ Unregister
  PROVE  [Pausable!Next]_(Pausable!pausableVars)
<1>1. ASSUME NEW c \in Clients, Port(c) \/ ProcessNotify(c)
      PROVE  [Pausable!Next]_(Pausable!pausableVars)
  <2>1. ASSUME NEW plan, Ask(c, plan) PROVE [Pausable!Next]_(Pausable!pausableVars)
    BY <2>1, OwnersArePromised DEF Ask, Accepted
  <2>2. CASE Connect(c) \/ BeginExit(c) \/ Release(c) \/ Disconnect(c) \/ ProcessNotify(c)
    BY <2>2, OwnersArePromised DEF Connect, BeginExit, Release, Disconnect, ProcessNotify
  <2>3. QED
    BY <1>1, <2>1, <2>2 DEF Port, TestHold, Disable, Enable
<1>2. ASSUME NEW t \in Callers, NEW k \in Both, Enter(t, k)
      PROVE  [Pausable!Next]_(Pausable!pausableVars)
  <2>1. /\ stage # "gone" /\ k \in enabled /\ body[t] = None
        /\ body' = [body EXCEPT ![t] = k]
        /\ UNCHANGED <<stage, owner, enabled, draining>>
    BY <1>2 DEF Enter, clientVars, setVars, Inside
  <2>2. Pausable!Enter(t, k)
    BY <2>1 DEF Pausable!Enter
  <2>3. QED
    BY <2>2 DEF Pausable!Next
<1>3. ASSUME NEW t \in Callers, Leave(t)
      PROVE  [Pausable!Next]_(Pausable!pausableVars)
  <2>1. Pausable!Leave(t)
    BY <1>3 DEF Leave, clientVars, setVars, Pausable!Leave
  <2>2. QED
    BY <2>1 DEF Pausable!Next
<1>4. CASE Stop
  <2>1. Pausable!Unload
    BY <1>4 DEF Stop, setVars, Pausable!Unload
  <2>2. QED
    BY <2>1 DEF Pausable!Next
<1>5. CASE RemoveNotify
  BY <1>5 DEF RemoveNotify, setVars, Pausable!pausableVars
<1>6. CASE Unregister
  <2>1. /\ stage = "draining" /\ stage' = "gone" /\ control = Nobody
        /\ \A t \in Callers : body[t] = None
        /\ UNCHANGED <<owner, enabled, draining, body>>
    BY <1>6 DEF Unregister, setVars, Inside
  <2>2. owner = None /\ enabled = {}
    BY <2>1 DEF SwitchOk
  <2>3. draining = {}
    BY <2>1, Rest DEF IInv, SetOk
  <2>4. Pausable!Go
    BY <2>1, <2>2, <2>3 DEF Pausable!Go
  <2>5. QED
    BY <2>4 DEF Pausable!Next
<1>7. QED
  BY <1>1, <1>2, <1>3, <1>4, <1>5, <1>6

(* The callbacks keep the promise of PausableBodies: bodies run only while    *)
(* their kind is on or being waited for, only an owner or unload switches     *)
(* them, and nobody owns a pause that is left behind (SetEnabled, RunBody).   *)
THEOREM KeepsPromise == Spec => ImplementsPausable
<1>1. Init => Pausable!Init
  BY DEF Init, Pausable!Init
<1>2. Init => SwitchOk
  BY DEF Init, SwitchOk, Nobody
<1>3. IInv /\ SwitchOk /\ [Next]_vars => [Pausable!Next]_(Pausable!pausableVars)
  <2> SUFFICES ASSUME IInv, SwitchOk, [Next]_vars
               PROVE  [Pausable!Next]_(Pausable!pausableVars)
    OBVIOUS
  <2>1. CASE UNCHANGED vars
    BY <2>1 DEF vars, clientVars, setVars, Pausable!pausableVars
  <2>2. QED
    BY <2>1, TransitionIsPromised, OthersArePromised DEF Next
<1>4. QED
  BY <1>1, <1>2, <1>3, NextSwitch, Invariance, PTL
     DEF Spec, ImplementsPausable, Pausable!Spec
===============================================================================
