---------------------------- MODULE IoTrace_proofs ----------------------------
(***************************************************************************)
(* Proofs about IoTrace: the inductive invariant, for any number of        *)
(* callers and targets, and the safety properties it gives.                *)
(***************************************************************************)
EXTENDS IoTrace, FiniteSetTheorems, TLAPS

InsideSet == {c \in Callers : pc[c] \in Inside}

\* The requests inside are finitely many.
LEMMA InsideIsFinite == IsFiniteSet(InsideSet)
  BY CallersAssumption, FS_Subset DEF InsideSet

\* A count of zero means that nobody is inside.
LEMMA NobodyInside ==
  ASSUME CountIsExact, active = 0
  PROVE  \A c \in Callers : pc[c] \notin Inside
<1>1. InsideSet = {}
  BY InsideIsFinite, FS_EmptySet DEF CountIsExact, InsideSet
<1>2. QED
  BY <1>1 DEF InsideSet

\* A request counted in.
LEMMA CountedIn ==
  ASSUME TypeOK, CountIsExact, NEW c \in Callers, pc[c] = "entering",
         active' = active + 1, pc' = [pc EXCEPT ![c] = "counted"]
  PROVE  CountIsExact'
<1>1. c \notin InsideSet /\ InsideSet' = InsideSet \cup {c}
  BY DEF InsideSet, Inside, TypeOK
<1>2. Cardinality(InsideSet \cup {c}) = Cardinality(InsideSet) + 1
  BY <1>1, InsideIsFinite, FS_AddElement
<1>3. QED
  BY <1>1, <1>2 DEF CountIsExact, InsideSet

\* A request counted out.
LEMMA CountedOut ==
  ASSUME TypeOK, CountIsExact, NEW c \in Callers, pc[c] \in Inside,
         active' = active - 1, pc' = [pc EXCEPT ![c] = "returning"]
  PROVE  /\ CountIsExact'
         /\ active' \in Nat
<1>1. c \in InsideSet /\ InsideSet' = InsideSet \ {c}
  BY DEF InsideSet, Inside, TypeOK
<1>2. /\ Cardinality(InsideSet \ {c}) = Cardinality(InsideSet) - 1
      /\ Cardinality(InsideSet) \in Nat
      /\ Cardinality(InsideSet \ {c}) \in Nat
  BY <1>1, InsideIsFinite, FS_RemoveElement, FS_CardinalityType
<1>3. QED
  BY <1>1, <1>2 DEF CountIsExact, InsideSet

\* Steps inside or outside the count leave it alone.
LEMMA CountUnmoved ==
  ASSUME CountIsExact, active' = active,
         \A c \in Callers : (pc[c] \in Inside)' <=> pc[c] \in Inside
  PROVE  CountIsExact'
<1>1. InsideSet' = InsideSet
  BY DEF InsideSet
<1>2. QED
  BY <1>1 DEF CountIsExact, InsideSet

-------------------------------------------------------------------------------
(* The control lock's holder *)

\* While something is hooked it is the target and nothing else.
LEMMA HookedTarget ==
  ASSUME TypeOK, HooksAreOwned
  PROVE  hooked \subseteq {target}
  BY DEF TypeOK, HooksAreOwned

\* While a timely request is inside, there is a target.
LEMMA TimelyHasTarget ==
  ASSUME IInv, NEW c \in Callers, timely[c], pc[c] \in Inside
  PROVE  target # None /\ original # None
  BY TargetsAssumption
     DEF IInv, CountedAreProtected, Protected, CallersOk, InCode, None

\* Arming starts from a trace that is off, so no timely request is inside.
LEMMA ArmIInv ==
  ASSUME IInv, NEW t \in Targets, Arm(t)
  PROVE  IInv'
<1> USE DEF IInv, Arm, callerVars
<1>1. TypeOK' /\ CallersOk'
  BY DEF TypeOK, CallersOk, Controls
<1>2. hooked = {}
  BY HookedTarget, TargetsAssumption DEF TypeOK, None
<1>3. HooksAreOwned' /\ LookedOk'
  BY <1>2 DEF HooksAreOwned, LookedOk
<1>4. CountIsExact'
  BY CountUnmoved
<1>5. CountedAreProtected'
  BY TimelyHasTarget DEF CountedAreProtected
<1>6. ControlOk'
  BY <1>2, TargetsAssumption DEF ControlOk, None
<1>7. QED
  BY <1>1, <1>3, <1>4, <1>5, <1>6

\* The steps of the lock's holder that keep the target and its routine.
LEMMA ControlIInv ==
  ASSUME IInv,
         ArmSwap \/ BeginDisarm \/ BeginUnload \/ DisarmRestore \/ DisarmBusy
           \/ DisarmIdle \/ Unload
  PROVE  IInv'
<1> USE DEF IInv, callerVars, traceVars
<1>1. CASE ArmSwap
  <2>1. TypeOK' /\ CallersOk'
    BY <1>1, TargetsAssumption DEF ArmSwap, TypeOK, CallersOk, Controls, ControlOk, None
  <2>2. HooksAreOwned' /\ LookedOk' /\ ControlOk'
    BY <1>1 DEF ArmSwap, HooksAreOwned, LookedOk, ControlOk
  <2>3. CountIsExact'
    BY <1>1, CountUnmoved DEF ArmSwap
  <2>4. CountedAreProtected'
    BY <1>1 DEF ArmSwap, CountedAreProtected, Protected
  <2>5. QED
    BY <2>1, <2>2, <2>3, <2>4
<1>2. CASE BeginDisarm
  <2>1. TypeOK' /\ CallersOk'
    BY <1>2 DEF BeginDisarm, TypeOK, CallersOk, Controls
  <2>2. HooksAreOwned' /\ LookedOk' /\ ControlOk'
    BY <1>2 DEF BeginDisarm, HooksAreOwned, LookedOk, ControlOk
  <2>3. CountIsExact'
    BY <1>2, CountUnmoved DEF BeginDisarm
  <2>4. CountedAreProtected'
    BY <1>2 DEF BeginDisarm, CountedAreProtected, Protected
  <2>5. QED
    BY <2>1, <2>2, <2>3, <2>4
<1>3. CASE BeginUnload
  <2>1. TypeOK' /\ CallersOk'
    BY <1>3 DEF BeginUnload, TypeOK, CallersOk, Controls, Images
  <2>2. HooksAreOwned' /\ LookedOk' /\ ControlOk'
    BY <1>3 DEF BeginUnload, HooksAreOwned, LookedOk, ControlOk
  <2>3. CountIsExact'
    BY <1>3, CountUnmoved DEF BeginUnload
  <2>4. CountedAreProtected'
    BY <1>3 DEF BeginUnload, CountedAreProtected, Protected
  <2>5. QED
    BY <2>1, <2>2, <2>3, <2>4
<1>4. CASE DisarmRestore
  <2>1. TypeOK' /\ CallersOk'
    BY <1>4 DEF DisarmRestore, TypeOK, CallersOk, Controls
  <2>2. hooked' = {}
    BY <1>4, HookedTarget DEF DisarmRestore
  <2>3. HooksAreOwned' /\ LookedOk' /\ ControlOk'
    BY <1>4, <2>2 DEF DisarmRestore, HooksAreOwned, LookedOk, ControlOk
  <2>4. CountIsExact'
    BY <1>4, CountUnmoved DEF DisarmRestore
  <2>5. CountedAreProtected'
    BY <1>4 DEF DisarmRestore, CountedAreProtected, Protected
  <2>6. QED
    BY <2>1, <2>3, <2>4, <2>5
<1>5. CASE DisarmBusy
  <2>1. TypeOK' /\ CallersOk'
    BY <1>5 DEF DisarmBusy, TypeOK, CallersOk, Controls
  <2>2. HooksAreOwned' /\ LookedOk' /\ ControlOk'
    BY <1>5 DEF DisarmBusy, HooksAreOwned, LookedOk, ControlOk
  <2>3. CountIsExact'
    BY <1>5, CountUnmoved DEF DisarmBusy
  <2>4. CountedAreProtected'
    BY <1>5 DEF DisarmBusy, CountedAreProtected, Protected
  <2>5. QED
    BY <2>1, <2>2, <2>3, <2>4
<1>6. CASE DisarmIdle
  <2>1. TypeOK' /\ CallersOk'
    BY <1>6 DEF DisarmIdle, TypeOK, CallersOk, Controls
  <2>2. HooksAreOwned' /\ ControlOk'
    BY <1>6 DEF DisarmIdle, HooksAreOwned, ControlOk
  <2>3. LookedOk'
    BY <1>6, NobodyInside DEF DisarmIdle, LookedOk
  <2>4. CountIsExact'
    BY <1>6, CountUnmoved DEF DisarmIdle
  <2>5. CountedAreProtected'
    BY <1>6 DEF DisarmIdle, CountedAreProtected, Protected
  <2>6. QED
    BY <2>1, <2>2, <2>3, <2>4, <2>5
<1>7. CASE Unload
  <2>1. TypeOK' /\ CallersOk'
    BY <1>7 DEF Unload, TypeOK, CallersOk, Images
  <2>2. hooked = {}
    BY <1>7, HookedTarget, TargetsAssumption DEF Unload, TypeOK, None
  <2>3. HooksAreOwned' /\ LookedOk' /\ ControlOk'
    BY <1>7, <2>2 DEF Unload, HooksAreOwned, LookedOk, ControlOk
  <2>4. CountIsExact'
    BY <1>7, CountUnmoved DEF Unload
  <2>5. CountedAreProtected'
    BY <1>7 DEF Unload, CountedAreProtected, Protected
  <2>6. QED
    BY <2>1, <2>3, <2>4, <2>5
<1>8. QED
  BY <1>1, <1>2, <1>3, <1>4, <1>5, <1>6, <1>7

\* Letting go of the target disturbs no timely request: there is none inside.
LEMMA ReleaseIInv ==
  ASSUME IInv, DisarmClear \/ DisarmRelease
  PROVE  IInv'
<1> USE DEF IInv, callerVars, traceVars, DisarmClear, DisarmRelease
<1>1. TypeOK' /\ CallersOk'
  BY DEF TypeOK, CallersOk, Controls
<1>2. HooksAreOwned' /\ LookedOk' /\ ControlOk'
  BY DEF HooksAreOwned, LookedOk, ControlOk
<1>3. CountIsExact'
  BY CountUnmoved
<1>4. CountedAreProtected'
  BY DEF LookedOk, CountedAreProtected
<1>5. QED
  BY <1>1, <1>2, <1>3, <1>4

-------------------------------------------------------------------------------
(* The callers *)

\* A request takes the hooked entry.
LEMMA CallIInv ==
  ASSUME IInv, NEW c \in Callers, NEW t \in Targets, Call(c, t)
  PROVE  IInv'
<1> USE DEF IInv, Call, traceVars
<1>1. TypeOK'
  BY DEF TypeOK, Pcs, InCode
<1>2. CallersOk'
  BY DEF TypeOK, CallersOk, InCode, Inside
<1>3. HooksAreOwned' /\ ControlOk'
  BY DEF HooksAreOwned, ControlOk
<1>4. LookedOk'
  BY DEF TypeOK, LookedOk, Inside
<1>5. CountIsExact'
  <2>1. \A d \in Callers : (pc[d] \in Inside)' <=> pc[d] \in Inside
    BY DEF TypeOK, Inside
  <2>2. QED
    BY <2>1, CountUnmoved
<1>6. CountedAreProtected'
  BY DEF TypeOK, CountedAreProtected, Protected, Inside
<1>7. QED
  BY <1>1, <1>2, <1>3, <1>4, <1>5, <1>6

\* A request counted in is timely only while the target is kept.
LEMMA EnterIInv ==
  ASSUME IInv, NEW c \in Callers, Enter(c)
  PROVE  IInv'
<1> USE DEF IInv, Enter, traceVars
<1>1. TypeOK'
  BY DEF TypeOK, Pcs, InCode, Inside
<1>2. CallersOk'
  BY DEF TypeOK, CallersOk, InCode, Inside
<1>3. HooksAreOwned' /\ ControlOk'
  BY DEF HooksAreOwned, ControlOk
<1>4. LookedOk'
  BY DEF TypeOK, LookedOk, Inside
<1>5. CountIsExact'
  BY CountedIn
<1>6. CountedAreProtected'
  BY TargetsAssumption
     DEF TypeOK, CountedAreProtected, Protected, ControlOk, CallersOk, InCode,
         Inside, None
<1>7. QED
  BY <1>1, <1>2, <1>3, <1>4, <1>5, <1>6

\* A timely request reads its own driver's routine.
LEMMA ReadOriginalIInv ==
  ASSUME IInv, NEW c \in Callers, ReadOriginal(c)
  PROVE  IInv'
<1> USE DEF IInv, ReadOriginal, traceVars
<1>1. TypeOK'
  BY DEF TypeOK, Pcs, InCode, Inside
<1>2. CallersOk'
  BY DEF TypeOK, CallersOk, InCode, Inside
<1>3. HooksAreOwned' /\ ControlOk'
  BY DEF HooksAreOwned, ControlOk
<1>4. LookedOk'
  BY DEF TypeOK, LookedOk, Inside
<1>5. CountIsExact'
  <2>1. \A d \in Callers : (pc[d] \in Inside)' <=> pc[d] \in Inside
    BY DEF TypeOK, Inside
  <2>2. QED
    BY <2>1, CountUnmoved
<1>6. CountedAreProtected'
  BY TargetsAssumption
     DEF TypeOK, CountedAreProtected, Protected, CallersOk, InCode, Inside, None
<1>7. QED
  BY <1>1, <1>2, <1>3, <1>4, <1>5, <1>6

\* Calling the routine that was read.
LEMMA ServeIInv ==
  ASSUME IInv, NEW c \in Callers, Serve(c)
  PROVE  IInv'
<1> USE DEF IInv, Serve, traceVars
<1>1. TypeOK'
  BY DEF TypeOK, Pcs, InCode, Inside
<1>2. CallersOk'
  BY DEF TypeOK, CallersOk, InCode, Inside
<1>3. HooksAreOwned' /\ ControlOk'
  BY DEF HooksAreOwned, ControlOk
<1>4. LookedOk'
  BY DEF TypeOK, LookedOk, Inside
<1>5. CountIsExact'
  <2>1. \A d \in Callers : (pc[d] \in Inside)' <=> pc[d] \in Inside
    BY DEF TypeOK, Inside
  <2>2. QED
    BY <2>1, CountUnmoved
<1>6. CountedAreProtected'
  BY DEF TypeOK, CountedAreProtected, Protected, Inside
<1>7. QED
  BY <1>1, <1>2, <1>3, <1>4, <1>5, <1>6

\* A request counted out.
LEMMA ReturnIInv ==
  ASSUME IInv, NEW c \in Callers, Return(c)
  PROVE  IInv'
<1> USE DEF IInv, Return, traceVars
<1>1. TypeOK'
  <2>1. active' \in Nat
    BY CountedOut DEF Inside
  <2>2. QED
    BY <2>1 DEF TypeOK, Pcs, InCode
<1>2. CallersOk'
  BY DEF TypeOK, CallersOk, InCode, Inside
<1>3. HooksAreOwned' /\ ControlOk'
  BY DEF HooksAreOwned, ControlOk
<1>4. LookedOk'
  BY DEF TypeOK, LookedOk, Inside
<1>5. CountIsExact'
  BY CountedOut DEF Inside
<1>6. CountedAreProtected'
  BY DEF TypeOK, CountedAreProtected, Protected, Inside
<1>7. QED
  BY <1>1, <1>2, <1>3, <1>4, <1>5, <1>6

\* A request that has left.
LEMMA LeaveIInv ==
  ASSUME IInv, NEW c \in Callers, Leave(c)
  PROVE  IInv'
<1> USE DEF IInv, Leave, traceVars
<1>1. TypeOK'
  BY DEF TypeOK, Pcs, InCode, Inside
<1>2. CallersOk'
  BY DEF TypeOK, CallersOk, InCode, Inside
<1>3. HooksAreOwned' /\ ControlOk'
  BY DEF HooksAreOwned, ControlOk
<1>4. LookedOk'
  BY DEF TypeOK, LookedOk, Inside
<1>5. CountIsExact'
  <2>1. \A d \in Callers : (pc[d] \in Inside)' <=> pc[d] \in Inside
    BY DEF TypeOK, Inside
  <2>2. QED
    BY <2>1, CountUnmoved
<1>6. CountedAreProtected'
  BY DEF TypeOK, CountedAreProtected, Protected, Inside
<1>7. QED
  BY <1>1, <1>2, <1>3, <1>4, <1>5, <1>6

-------------------------------------------------------------------------------

\* Initially the trace is off and nobody is inside.
LEMMA InitIInv == Init => IInv
<1> SUFFICES ASSUME Init
             PROVE  IInv
  OBVIOUS
<1> USE DEF Init
<1>1. TypeOK
  BY DEF TypeOK, Controls, Images, Pcs, InCode, Inside
<1>2. CountIsExact
  <2>1. InsideSet = {}
    BY DEF InsideSet, Inside
  <2>2. QED
    BY <2>1, FS_EmptySet DEF CountIsExact, InsideSet
<1>3. HooksAreOwned /\ CountedAreProtected /\ ControlOk /\ LookedOk /\ CallersOk
  BY DEF HooksAreOwned, CountedAreProtected, ControlOk, LookedOk, CallersOk,
         InCode, Inside
<1>4. QED
  BY <1>1, <1>2, <1>3 DEF IInv

\* Hooks, counts, pointers and control lock agree in every reachable state.
THEOREM Invariance == Spec => []IInv
<1>1. IInv /\ UNCHANGED vars => IInv'
  <2> SUFFICES ASSUME IInv, UNCHANGED vars
               PROVE  IInv'
    OBVIOUS
  <2> USE DEF IInv, vars
  <2>1. TypeOK' /\ HooksAreOwned'
    BY DEF TypeOK, HooksAreOwned
  <2>2. CountIsExact' /\ CountedAreProtected'
    BY CountUnmoved DEF CountedAreProtected, Protected
  <2>3. ControlOk' /\ LookedOk' /\ CallersOk'
    BY DEF ControlOk, LookedOk, CallersOk
  <2>4. QED
    BY <2>1, <2>2, <2>3
<1>2. IInv /\ Next => IInv'
  BY ArmIInv, ControlIInv, ReleaseIInv, CallIInv, EnterIInv, ReadOriginalIInv,
     ServeIInv, ReturnIInv, LeaveIInv DEF Next, Finish, Proceed
<1>3. IInv /\ [Next]_vars => IInv'
  BY <1>1, <1>2
<1>4. QED
  BY <1>3, InitIInv, PTL DEF Spec

\* The trace's variables keep their types.
THEOREM TypeCorrect == Spec => []TypeOK
  BY Invariance, PTL DEF IInv

\* Every hook in a dispatch table is the target's and can be undone
\* (KnDbgIotraceDisarmLocked, KnDbgUnload).
THEOREM HooksAreAlwaysOwned == Spec => []HooksAreOwned
  BY Invariance, PTL DEF IInv

\* A request counted in time is served by its own, referenced driver
\* (KnDbgIotraceDispatch).
THEOREM CountingProtects == Spec => []CountedAreProtected
  BY Invariance, PTL DEF IInv

\* g_KnDbgIotraceActive is the number of requests inside.
THEOREM CountingIsExact == Spec => []CountIsExact
  BY Invariance, PTL DEF IInv

-------------------------------------------------------------------------------
(* The trace implements TraceContract.  State, Held and Serving are the parts *)
(* of the refinement mapping.                                                 *)

State == IF Off THEN "off"
         ELSE IF control = "swap" \/ target \in hooked THEN "armed" ELSE "busy"
Held == IF Off THEN None ELSE target
ServedBy(c) ==
  IF ~ timely[c] \/ pc[c] \notin Inside THEN None
  ELSE IF pc[c] \in {"read", "serving"} THEN callee[c] ELSE device[c]
Serving == [c \in Callers |-> ServedBy(c)]

\* Steps that move neither the state nor the requests in time are stutters.
LEMMA ContractStays ==
  ASSUME UNCHANGED <<State, Held, Serving, image>>
  PROVE  UNCHANGED Contract!traceContractVars
  BY DEF Contract!traceContractVars, State, Held, Serving, ServedBy

\* A step of the control lock's holder moves no request.
LEMMA ServingStays ==
  ASSUME UNCHANGED callerVars
  PROVE  Serving' = Serving
  BY DEF callerVars, Serving, ServedBy

\* Once disarm has looked, and before anything is armed, no request in time is
\* inside.
LEMMA NobodyIsServed ==
  ASSUME IInv, active = 0
  PROVE  \A c \in Callers : Serving[c] = None
  BY NobodyInside DEF IInv, Serving, ServedBy

\* The steps of the control lock's holder.
LEMMA ControlIsContract ==
  ASSUME IInv, Finish \/ BeginDisarm \/ BeginUnload \/ \E t \in Targets : Arm(t)
  PROVE  [Contract!Next]_(Contract!traceContractVars)
<1> USE DEF IInv, ControlOk, Off, traceVars
<1>1. Serving' = Serving
  <2>1. UNCHANGED callerVars
    BY DEF Finish, BeginDisarm, BeginUnload, Arm, ArmSwap, DisarmRestore,
           DisarmIdle, DisarmBusy, DisarmClear, DisarmRelease, Unload
  <2>2. QED
    BY <2>1, ServingStays
<1>2. hooked \subseteq {target}
  BY HookedTarget
<1>3. ASSUME NEW t \in Targets, Arm(t) PROVE Contract!Arm(t)
  <2>1. State = "off" /\ State' = "armed" /\ Held' = t /\ UNCHANGED image
    BY <1>3, TargetsAssumption DEF Arm, State, Held, None
  <2>2. image = "loaded"
    BY <1>3 DEF Arm
  <2>3. QED
    BY <1>1, <2>1, <2>2 DEF Contract!Arm, State, Held, Serving, ServedBy
<1>4. CASE ArmSwap
  <2>1. UNCHANGED <<State, Held, image>>
    BY <1>4 DEF ArmSwap, State, Held
  <2>2. QED
    BY <1>1, <2>1, ContractStays
<1>5. CASE BeginDisarm \/ DisarmBusy
  <2>1. UNCHANGED <<State, Held, image>>
    BY <1>5 DEF BeginDisarm, DisarmBusy, State, Held
  <2>2. QED
    BY <1>1, <2>1, ContractStays
<1>6. CASE BeginUnload
  <2>1. UNCHANGED <<State, Held>>
    BY <1>6 DEF BeginUnload, State, Held
  <2>2. image = "loaded" /\ image' = "unloading"
    BY <1>6 DEF BeginUnload
  <2>3. Contract!Unload
    BY <1>1, <2>1, <2>2 DEF Contract!Unload, State, Held, Serving, ServedBy
  <2>4. QED
    BY <2>3 DEF Contract!Next
<1>7. CASE DisarmRestore
  <2>1. State' = "busy" /\ State \in {"armed", "busy"} /\ UNCHANGED <<Held, image>>
    BY <1>2, <1>7 DEF DisarmRestore, State, Held
  <2>2. CASE State = "armed"
    <3>1. Contract!Unhook
      BY <1>1, <2>1, <2>2 DEF Contract!Unhook, State, Held, Serving, ServedBy
    <3>2. QED
      BY <3>1 DEF Contract!Next
  <2>3. CASE State = "busy"
    BY <1>1, <2>1, <2>3, ContractStays
  <2>4. QED
    BY <2>1, <2>2, <2>3
<1>8. CASE DisarmIdle
  <2>1. State' = "off" /\ State # "off" /\ Held' = None /\ UNCHANGED image
    BY <1>8 DEF DisarmIdle, State, Held
  <2>2. \A c \in Callers : Serving[c] = None
    BY <1>8, NobodyIsServed DEF DisarmIdle
  <2>3. Contract!LetGo
    BY <1>1, <2>1, <2>2 DEF Contract!LetGo, State, Held, Serving, ServedBy
  <2>4. QED
    BY <2>3 DEF Contract!Next
<1>9. CASE DisarmClear \/ DisarmRelease
  <2>1. UNCHANGED <<State, Held, image>>
    BY <1>9 DEF DisarmClear, DisarmRelease, State, Held
  <2>2. QED
    BY <1>1, <2>1, ContractStays
<1>10. CASE Unload
  <2>1. UNCHANGED <<State, Held>> /\ State = "off"
    BY <1>10 DEF Unload, State, Held
  <2>2. image = "unloading" /\ image' = "gone"
    BY <1>10 DEF Unload
  <2>3. Contract!Go
    BY <1>1, <2>1, <2>2 DEF Contract!Go, State, Held, Serving, ServedBy
  <2>4. QED
    BY <2>3 DEF Contract!Next
<1>11. QED
  BY <1>3, <1>4, <1>5, <1>6, <1>7, <1>8, <1>9, <1>10 DEF Finish, Contract!Next

\* The steps of a request: those that were counted in time begin with the
\* target held, read that target's routine, and end.
LEMMA CallerIsContract ==
  ASSUME IInv, NEW c \in Callers,
         Proceed(c) \/ \E t \in Targets : Call(c, t)
  PROVE  [Contract!Next]_(Contract!traceContractVars)
<1> USE DEF IInv, traceVars
<1>1. UNCHANGED <<hooked, target, control, image, State, Held>>
  BY DEF Proceed, Call, Enter, ReadOriginal, Serve, Return, Leave, State, Held, Off
<1>2. \A d \in Callers \ {c} : ServedBy(d)' = ServedBy(d)
  BY DEF Proceed, Call, Enter, ReadOriginal, Serve, Return, Leave, ServedBy, TypeOK
<1>3. ASSUME ServedBy(c)' = ServedBy(c)
      PROVE  UNCHANGED Contract!traceContractVars
  <2>1. Serving' = Serving
    BY <1>2, <1>3 DEF Serving
  <2>2. QED
    BY <1>1, <2>1, ContractStays
<1>4. CASE \E t \in Targets : Call(c, t)
  <2>1. ServedBy(c)' = ServedBy(c)
    BY <1>4 DEF Call, ServedBy, TypeOK, Inside
  <2>2. QED
    BY <1>3, <2>1
<1>5. CASE Enter(c)
  <2>1. ServedBy(c) = None
    BY <1>5 DEF Enter, ServedBy, Inside
  <2>2. CASE ~ timely'[c]
    BY <1>3, <2>1, <2>2 DEF ServedBy
  <2>3. CASE timely'[c]
    <3>1. target = device[c] /\ control \notin {"clear", "release"}
      BY <1>5, <2>3 DEF Enter, TypeOK
    <3>2. target # None
      BY <1>5, <3>1, TargetsAssumption DEF Enter, CallersOk, InCode, None
    <3>3. State # "off" /\ Held = target
      BY <3>1, <3>2 DEF State, Held, Off
    <3>4. ServedBy(c)' = Held
      BY <1>5, <2>3, <3>1, <3>3 DEF Enter, ServedBy, TypeOK, Inside
    <3>5. Serving' = [Serving EXCEPT ![c] = Held] /\ Serving[c] = None
      BY <1>2, <2>1, <3>4 DEF Serving
    <3>6. Contract!Begin(c)
      BY <1>1, <3>3, <3>5 DEF Contract!Begin, State, Held, Serving, ServedBy
    <3>7. QED
      BY <3>6 DEF Contract!Next
  <2>4. QED
    BY <2>2, <2>3
<1>6. CASE ReadOriginal(c)
  <2>1. CASE timely[c]
    <3>1. original = device[c] /\ original # None
      BY <1>6, <2>1, TimelyHasTarget
         DEF ReadOriginal, CountedAreProtected, Protected, Inside
    <3>2. ServedBy(c)' = ServedBy(c)
      BY <1>6, <2>1, <3>1 DEF ReadOriginal, ServedBy, TypeOK, Inside
    <3>3. QED
      BY <1>3, <3>2
  <2>2. CASE ~ timely[c]
    BY <1>3, <1>6, <2>2 DEF ReadOriginal, ServedBy
  <2>3. QED
    BY <2>1, <2>2
<1>7. CASE Serve(c)
  <2>1. ServedBy(c)' = ServedBy(c)
    BY <1>7 DEF Serve, ServedBy, TypeOK, Inside
  <2>2. QED
    BY <1>3, <2>1
<1>8. CASE Return(c)
  <2>1. ServedBy(c)' = None
    BY <1>8 DEF Return, ServedBy, TypeOK, Inside
  <2>2. Serving' = [Serving EXCEPT ![c] = None]
    BY <1>2, <2>1 DEF Serving
  <2>3. Contract!End(c)
    BY <1>1, <2>2 DEF Contract!End, State, Held, Serving, ServedBy
  <2>4. QED
    BY <2>3 DEF Contract!Next
<1>9. CASE Leave(c)
  <2>1. ServedBy(c)' = ServedBy(c)
    BY <1>9 DEF Leave, ServedBy, TypeOK, Inside
  <2>2. QED
    BY <1>3, <2>1
<1>10. QED
  BY <1>4, <1>5, <1>6, <1>7, <1>8, <1>9 DEF Proceed

\* The trace implements its contract, for any callers and targets: the target
\* stays held for every request counted in time, and each is passed to it.
THEOREM KeepsTraceContract == Spec => ImplementsTrace
<1>1. Init => Contract!Init
  BY DEF Init, Contract!Init, Off
<1>2. IInv /\ [Next]_vars => [Contract!Next]_(Contract!traceContractVars)
  <2> SUFFICES ASSUME IInv, [Next]_vars
               PROVE  [Contract!Next]_(Contract!traceContractVars)
    OBVIOUS
  <2>1. CASE UNCHANGED vars
    <3>1. UNCHANGED <<State, Held, Serving, image>>
      BY <2>1 DEF vars, State, Held, Serving, ServedBy, Off
    <3>2. QED
      BY <3>1, ContractStays
  <2>2. CASE Next
    BY <2>2, ControlIsContract, CallerIsContract DEF Next
  <2>3. QED
    BY <2>1, <2>2
<1>3. QED
  BY <1>1, <1>2, Invariance, PTL DEF Spec, ImplementsTrace, Contract!Spec
===============================================================================
