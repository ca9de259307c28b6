------------------------ MODULE DriverController_proofs ------------------------
(***************************************************************************)
(* Proofs about DriverController: the inductive invariant, for any files,  *)
(* processes and threads, and the safety properties it gives.              *)
(***************************************************************************)
EXTENDS DriverController, FiniteSetTheorems, TLAPS

\* The open files are finitely many.
LEMMA OpenIsFinite == IsFiniteSet(OpenFiles)
  BY FilesAssumption, FS_Subset DEF OpenFiles

\* A step that opens or closes no file keeps the count.
LEMMA CountUnmoved ==
  ASSUME CountOk, UNCHANGED openCount,
         \A f \in Files : file'[f] = "open" <=> file[f] = "open"
  PROVE  CountOk'
<1>1. OpenFiles' = OpenFiles
  BY DEF OpenFiles
<1>2. QED
  BY <1>1 DEF CountOk

\* While a file is being cleaned up after, none is open.
LEMMA CleanupIsAlone ==
  ASSUME FilesOk, NEW f \in Files, file[f] \in Cleanups
  PROVE  /\ closing /\ ownerPid # None /\ image = "loaded"
         /\ \A g \in Files : file[g] # "open"
  BY DEF FilesOk, OpenFiles

\* An open file has the owner, and nothing is being cleaned up.
LEMMA OpenHasOwner ==
  ASSUME FilesOk, NEW f \in Files, file[f] = "open"
  PROVE  /\ ownerPid = fileOwner[f] /\ ownerPid # None
         /\ ~ closing /\ image = "loaded"
         /\ \A g \in Files : file[g] \notin Cleanups
  BY DEF FilesOk, OpenFiles

\* The lock's holder is an open file, a stopping one, or unload, which is
\* there alone.
LEMMA HolderIsThere ==
  ASSUME IInv, step # "free"
  PROVE  \/ holder \in Files /\ ownerPid # None /\ image = "loaded"
         \/ /\ holder = "unload" /\ image = "unloading" /\ ownerPid = None
            /\ step \in {"disable", "remove"}
<1>1. CASE holder \in Files
  <2>1. CASE file[holder] = "open"
    BY <1>1, <2>1, OpenHasOwner DEF IInv
  <2>2. CASE file[holder] = "stopping"
    BY <1>1, <2>2, CleanupIsAlone DEF IInv, Cleanups
  <2>3. QED
    BY <1>1, <2>1, <2>2 DEF IInv, HolderOk
<1>2. CASE holder = "unload"
  BY <1>2 DEF IInv, HolderOk, FilesOk
<1>3. QED
  BY <1>1, <1>2 DEF IInv, HolderOk, TypeOK, None

-------------------------------------------------------------------------------
(* Files *)

\* Opening a file.
LEMMA OpenIInv ==
  ASSUME IInv, NEW f \in Files, NEW p \in Processes, Open(f, p)
  PROVE  IInv'
<1> USE DEF Open, timelineVars, notifyVars
<1>1. /\ \A g \in Files : file[g] \notin Cleanups
      /\ \A g \in Files \ {f} : file'[g] = file[g]
      /\ file'[f] = "open" /\ p # None
  BY ProcessesAssumption DEF IInv, FilesOk, TypeOK, None
<1>2. TypeOK'
  BY DEF IInv, TypeOK
<1>3. FilesOk'
  <2>1. \A g \in OpenFiles' : fileOwner'[g] = p
    BY <1>1 DEF IInv, FilesOk, OpenFiles, TypeOK
  <2>2. QED
    BY <1>1, <2>1 DEF IInv, FilesOk, OpenFiles, Cleanups
<1>4. CountOk'
  <2>1. f \notin OpenFiles /\ OpenFiles' = OpenFiles \cup {f}
    BY <1>1 DEF OpenFiles
  <2>2. Cardinality(OpenFiles \cup {f}) = Cardinality(OpenFiles) + 1
    BY <2>1, OpenIsFinite, FS_AddElement
  <2>3. QED
    BY <2>1, <2>2 DEF IInv, CountOk
<1>5. HolderOk' /\ TimelineOk'
  BY <1>1 DEF IInv, HolderOk, TimelineOk
<1>6. StoppedOk'
  BY <1>1 DEF IInv, StoppedOk, Cleanups
<1>7. NotifyOk'
  BY DEF IInv, NotifyOk
<1>8. QED
  BY <1>2, <1>3, <1>4, <1>5, <1>6, <1>7 DEF IInv

\* Releasing a file: the count tells whether it was the last one.
LEMMA ReleaseIInv ==
  ASSUME IInv, NEW f \in Files, Release(f)
  PROVE  IInv'
<1> USE DEF Release, timelineVars, notifyVars
<1>1. /\ fileOwner[f] = ownerPid /\ ownerPid # None
      /\ ~ closing /\ image = "loaded"
      /\ \A g \in Files : file[g] \notin Cleanups
  BY OpenHasOwner DEF IInv
<1>2. /\ f \in OpenFiles /\ OpenFiles' = OpenFiles \ {f}
      /\ \A g \in Files \ {f} : file'[g] = file[g] /\ fileOwner'[g] = fileOwner[g]
      /\ file'[f] = IF Last(f) THEN "cleaning" ELSE "closed"
  BY DEF OpenFiles, IInv, TypeOK
<1>3. /\ Cardinality(OpenFiles \ {f}) = Cardinality(OpenFiles) - 1
      /\ Cardinality(OpenFiles) \in Nat
      /\ Cardinality(OpenFiles \ {f}) \in Nat
      /\ IsFiniteSet(OpenFiles \ {f})
  BY <1>2, OpenIsFinite, FS_RemoveElement, FS_CardinalityType
<1>4. CountAfter(f) = Cardinality(OpenFiles')
  BY <1>1, <1>2, <1>3 DEF CountAfter, IInv, CountOk
<1>5. Last(f) <=> OpenFiles' = {}
  BY <1>1, <1>2, <1>3, <1>4, FS_EmptySet DEF Last
<1>6. TypeOK'
  BY <1>2, <1>3, <1>4 DEF IInv, TypeOK, Cleanups
<1>7. FilesOk'
  <2>1. \A g \in Files \ {f} : file[g] \in {"open", "closed"}
    BY <1>1 DEF IInv, TypeOK
  <2>2. \A g \in OpenFiles' : fileOwner'[g] = ownerPid'
    BY <1>2 DEF IInv, FilesOk, OpenFiles
  <2>3. ownerPid' = None <=> \A g \in Files : file'[g] = "closed"
    <3>1. CASE Last(f)
      BY <1>1, <1>2, <3>1
    <3>2. CASE ~ Last(f)
      <4>1. \E g \in Files : file'[g] = "open"
        BY <1>5, <3>2 DEF OpenFiles
      <4>2. QED
        BY <1>1, <4>1
    <3>3. QED
      BY <3>1, <3>2
  <2>4. Last(f) => \A g \in Files \ {f} : file'[g] = "closed"
    BY <1>2, <1>5, <2>1 DEF OpenFiles
  <2>5. \A g \in Files : file'[g] \in Cleanups => g = f /\ Last(f)
    BY <1>2, <2>1 DEF Cleanups
  <2>6. closing' <=> Last(f)
    BY <1>1 DEF IInv, TypeOK
  <2>7. QED
    BY <1>1, <1>5, <2>2, <2>3, <2>4, <2>5, <2>6 DEF FilesOk
<1>8. CountOk'
  BY <1>4 DEF CountOk
<1>9. HolderOk' /\ TimelineOk'
  BY <1>1, <1>2 DEF IInv, HolderOk, TimelineOk
<1>10. StoppedOk'
  BY <1>1, <1>2 DEF IInv, StoppedOk, Cleanups
<1>11. NotifyOk'
  BY DEF IInv, NotifyOk
<1>12. QED
  BY <1>6, <1>7, <1>8, <1>9, <1>10, <1>11 DEF IInv

\* The steps of a last close.
LEMMA CloseIInv ==
  ASSUME IInv, NEW f \in Files, Close(f)
  PROVE  IInv'
<1> USE DEF IInv, ownerVars, timelineVars, notifyVars
<1>1. /\ file[f] \in Cleanups /\ closing /\ ownerPid # None /\ image = "loaded"
      /\ \A g \in Files \ {f} : file[g] = "closed"
  <2>1. file[f] \in Cleanups
    BY DEF Close, CloseDisarms, CloseStops, CloseFinishes, Cleanups
  <2>2. QED
    BY <2>1, CleanupIsAlone DEF FilesOk
<1>2. CASE CloseDisarms(f)
  <2>1. /\ \A g \in Files \ {f} : file'[g] = "closed"
        /\ file[f] = "cleaning" /\ file'[f] = "stopping"
        /\ trace' \in {"off", "busy"}
    BY <1>1, <1>2 DEF CloseDisarms, Disarmed, TypeOK
  <2>2. TypeOK' /\ NotifyOk'
    BY <1>2, <2>1 DEF CloseDisarms, TypeOK, NotifyOk, Cleanups
  <2>3. FilesOk'
    BY <1>1, <1>2, <2>1 DEF CloseDisarms, FilesOk, OpenFiles, Cleanups
  <2>4. CountOk'
    BY <1>1, <1>2, <2>1, CountUnmoved DEF CloseDisarms
  <2>5. HolderOk' /\ TimelineOk'
    BY <1>1, <1>2, <2>1 DEF CloseDisarms, HolderOk, TimelineOk
  <2>6. StoppedOk'
    BY <1>1, <1>2, <2>1 DEF CloseDisarms, StoppedOk
  <2>7. QED
    BY <2>2, <2>3, <2>4, <2>5, <2>6
<1>3. CASE CloseStops(f)
  <2>1. TypeOK' /\ NotifyOk' /\ TimelineOk'
    BY <1>3 DEF CloseStops, TypeOK, NotifyOk, TimelineOk, Steps
  <2>2. FilesOk'
    BY <1>3 DEF CloseStops, FilesOk, OpenFiles
  <2>3. CountOk'
    BY <1>3, CountUnmoved DEF CloseStops
  <2>4. HolderOk'
    BY <1>3, FilesAssumption DEF CloseStops, HolderOk, None
  <2>5. StoppedOk'
    BY <1>1, <1>3 DEF CloseStops, StoppedOk
  <2>6. QED
    BY <2>1, <2>2, <2>3, <2>4, <2>5
<1>4. CASE CloseFinishes(f)
  <2>1. /\ \A g \in Files : file'[g] = "closed"
        /\ file[f] = "finishing"
    BY <1>1, <1>4 DEF CloseFinishes, TypeOK
  <2>2. /\ trace # "armed" /\ ~ enabled /\ registered = {} /\ step = "free"
        /\ holder = None
    BY <2>1 DEF StoppedOk, HolderOk
  <2>3. TypeOK' /\ NotifyOk' /\ TimelineOk'
    BY <1>4, <2>1 DEF CloseFinishes, TypeOK, NotifyOk, TimelineOk
  <2>4. FilesOk'
    BY <1>1, <1>4, <2>1 DEF CloseFinishes, FilesOk, OpenFiles, Cleanups
  <2>5. CountOk'
    BY <1>1, <1>4, <2>1, CountUnmoved DEF CloseFinishes
  <2>6. HolderOk'
    BY <1>4, <2>2, FilesAssumption DEF CloseFinishes, HolderOk, None
  <2>7. StoppedOk'
    BY <1>1, <1>4, <2>1, <2>2 DEF CloseFinishes, StoppedOk, None
  <2>8. QED
    BY <2>3, <2>4, <2>5, <2>6, <2>7
<1>5. QED
  BY <1>2, <1>3, <1>4 DEF Close

\* Requests that leave the files open: the write gate, the trace and the
\* beginning of a START or STOP.
LEMMA RequestIInv ==
  ASSUME IInv, NEW f \in Files,
         \/ \E enable \in BOOLEAN : WriteMode(f, enable)
         \/ ArmTrace(f) \/ DisarmTrace(f) \/ BeginStart(f) \/ BeginStop(f)
  PROVE  IInv'
<1> USE DEF IInv, ownerVars, timelineVars, notifyVars
<1>1. /\ file[f] = "open" /\ UNCHANGED file
      /\ UNCHANGED <<fileOwner, ownerPid, openCount, closing, image>>
      /\ UNCHANGED <<enabled, registered, ring>>
      /\ UNCHANGED <<notify, family>>
  BY DEF WriteMode, ArmTrace, DisarmTrace, BeginStart, BeginStop
<1>2. /\ ownerPid # None /\ image = "loaded"
      /\ \A g \in Files : file[g] \notin Cleanups
  BY <1>1, OpenHasOwner
<1>3. TypeOK'
  BY DEF WriteMode, ArmTrace, DisarmTrace, BeginStart, BeginStop, TypeOK,
         Disarmed, Steps
<1>4. FilesOk' /\ NotifyOk'
  BY <1>1 DEF FilesOk, NotifyOk, OpenFiles
<1>5. CountOk'
  BY <1>1, CountUnmoved
<1>6. holder # "unload" /\ f # "unload" /\ f # None
  BY <1>2, FilesAssumption DEF HolderOk, None
<1>7. HolderOk' /\ TimelineOk'
  <2>1. CASE BeginStart(f) \/ BeginStop(f)
    BY <1>1, <1>6, <2>1 DEF BeginStart, BeginStop, HolderOk, TimelineOk
  <2>2. CASE ~ (BeginStart(f) \/ BeginStop(f))
    BY <1>1, <1>6, <2>2
       DEF WriteMode, ArmTrace, DisarmTrace, HolderOk, TimelineOk
  <2>3. QED
    BY <2>1, <2>2
<1>8. StoppedOk'
  BY <1>1, <1>2 DEF StoppedOk, Cleanups
<1>9. QED
  BY <1>3, <1>4, <1>5, <1>7, <1>8

-------------------------------------------------------------------------------
(* The holder of the timeline's lock *)

\* A START in progress is an open file's.
LEMMA StarterIsOpen ==
  ASSUME IInv, step \in {"ring", "register", "enable"}
  PROVE  /\ holder \in Files /\ file[holder] = "open"
         /\ ownerPid # None /\ image = "loaded"
         /\ \A g \in Files : file[g] \notin Cleanups
<1>1. holder \in Files
  BY HolderIsThere
<1>2. file[holder] = "open"
  BY <1>1 DEF IInv, HolderOk
<1>3. QED
  BY <1>1, <1>2, OpenHasOwner DEF IInv

\* The steps of a START.
LEMMA StartIInv ==
  ASSUME IInv,
         EnsureRing \/ EnsureRingFails \/ Register \/ RegisterFails \/ Enable
  PROVE  IInv'
<1> USE DEF IInv, ownerVars, notifyVars
<1>1. /\ step \in {"ring", "register", "enable"}
      /\ UNCHANGED <<ownerVars, trace, notifyVars, image>>
      /\ (step' = "free" /\ holder' = None) \/ (step' # "free" /\ holder' = holder)
      /\ (ring' = "live" \/ ring' = ring)
      /\ registered \subseteq registered'
      /\ holder # None
  <2>1. step \in {"ring", "register", "enable"}
    BY DEF EnsureRing, EnsureRingFails, Register, RegisterFails, Enable
  <2>2. holder # None
    BY <2>1, StarterIsOpen, FilesAssumption DEF None
  <2>3. UNCHANGED <<ownerVars, trace, notifyVars, image>>
    BY DEF EnsureRing, EnsureRingFails, Register, RegisterFails, Enable
  <2>4. (step' = "free" /\ holder' = None) \/ (step' # "free" /\ holder' = holder)
    BY DEF EnsureRing, EnsureRingFails, Register, RegisterFails, Enable
  <2>5. registered \subseteq registered' /\ (ring' = "live" \/ ring' = ring)
    BY DEF EnsureRing, EnsureRingFails, Register, RegisterFails, Enable
  <2>6. QED
    BY <2>1, <2>2, <2>3, <2>4, <2>5
<1>2. /\ holder \in Files /\ file[holder] = "open"
      /\ ownerPid # None /\ image = "loaded"
      /\ \A g \in Files : file[g] \notin Cleanups
  BY <1>1, StarterIsOpen
<1>3. TypeOK'
  BY DEF EnsureRing, EnsureRingFails, Register, RegisterFails, Enable, TypeOK,
         NextToRegister, Families, Steps, None
<1>4. FilesOk' /\ NotifyOk'
  BY <1>1 DEF FilesOk, NotifyOk, OpenFiles
<1>5. CountOk'
  BY <1>1, CountUnmoved
<1>6. HolderOk'
  BY <1>1, <1>2, FilesAssumption DEF HolderOk, None
<1>7. TimelineOk'
  <2>1. CASE EnsureRing
    BY <2>1 DEF EnsureRing, TimelineOk
  <2>2. CASE EnsureRingFails
    BY <2>2 DEF EnsureRingFails, TimelineOk
  <2>3. CASE Register
    <3>1. NextToRegister = "thread" => registered' = Families
      BY <2>3 DEF Register, NextToRegister, Families, TimelineOk, TypeOK
    <3>2. NextToRegister # "thread" =>
            "thread" \notin registered' /\ "process" \in registered'
      BY <2>3 DEF Register, NextToRegister, TimelineOk
    <3>3. QED
      BY <2>3, <3>1, <3>2 DEF Register, TimelineOk
  <2>4. CASE RegisterFails
    BY <2>4 DEF RegisterFails, TimelineOk
  <2>5. CASE Enable
    BY <2>5 DEF Enable, TimelineOk
  <2>6. QED
    BY <2>1, <2>2, <2>3, <2>4, <2>5
<1>8. StoppedOk'
  BY <1>1, <1>2 DEF StoppedOk, Cleanups
<1>9. QED
  BY <1>3, <1>4, <1>5, <1>6, <1>7, <1>8

\* The flag and the routines go.
LEMMA StopIInv ==
  ASSUME IInv, Disable \/ Remove
  PROVE  IInv'
<1> USE DEF IInv, ownerVars, notifyVars
<1>1. /\ step \in {"disable", "remove"} /\ step' = "remove"
      /\ UNCHANGED <<ownerVars, trace, ring, holder, notifyVars, image>>
      /\ registered' \subseteq registered
      /\ ~ enabled'
  BY DEF Disable, Remove, TimelineOk
<1>2. TypeOK'
  BY <1>1 DEF Disable, Remove, TypeOK, Steps
<1>3. FilesOk'
  BY <1>1 DEF FilesOk, OpenFiles
<1>4. CountOk'
  BY <1>1, CountUnmoved
<1>5. HolderOk' /\ TimelineOk'
  BY <1>1 DEF HolderOk, TimelineOk
<1>6. StoppedOk'
  BY <1>1 DEF StoppedOk
<1>7. NotifyOk'
  BY <1>1 DEF Disable, Remove, NotifyOk
<1>8. QED
  BY <1>2, <1>3, <1>4, <1>5, <1>6, <1>7

\* The lock is released when nothing is registered any more.
LEMMA RemovedIInv ==
  ASSUME IInv, Removed
  PROVE  IInv'
<1> USE DEF IInv, Removed, notifyVars
<1>1. \/ holder \in Files /\ ownerPid # None /\ image = "loaded"
      \/ holder = "unload" /\ image = "unloading" /\ ownerPid = None
  BY HolderIsThere
<1>2. holder \in Files => image' = image
  BY FilesAssumption
<1>3. \A g \in Files :
        \/ file'[g] = file[g]
        \/ holder = g /\ file[g] = "stopping" /\ file'[g] = "finishing"
  BY DEF TypeOK
<1>4. ~ enabled
  BY DEF TimelineOk
<1>5. TypeOK'
  <2>1. file' \in [Files -> {"closed", "open"} \cup Cleanups]
    BY DEF TypeOK, Cleanups
  <2>2. image' \in Images /\ step' \in Steps /\ holder' = None
    BY DEF TypeOK, Steps, Images
  <2>3. QED
    BY <2>1, <2>2 DEF TypeOK, None
<1>6. FilesOk'
  <2>1. OpenFiles' = OpenFiles
    BY <1>3 DEF OpenFiles
  <2>2. \A g \in Files : /\ file'[g] = "closed" <=> file[g] = "closed"
                         /\ file'[g] \in Cleanups <=> file[g] \in Cleanups
    BY <1>3 DEF Cleanups
  <2>3. QED
    BY <1>1, <1>2, <2>1, <2>2 DEF FilesOk
<1>7. CountOk'
  BY <1>3, CountUnmoved
<1>8. HolderOk' /\ TimelineOk'
  BY <1>4, FilesAssumption DEF HolderOk, TimelineOk, None
<1>9. StoppedOk'
  <2>1. \A g \in Files : file'[g] = "stopping" => file[g] = "stopping"
    BY <1>3
  <2>2. \A g \in Files : file'[g] = "finishing" => file[g] \in {"stopping", "finishing"}
    BY <1>3
  <2>3. image' \in {"freeing", "gone"} =>
          trace = "off" \/ image \in {"freeing", "gone"}
    BY <1>1, <1>2 DEF HolderOk
  <2>4. QED
    BY <1>4, <2>1, <2>2, <2>3 DEF StoppedOk, None
<1>10. NotifyOk'
  BY DEF NotifyOk
<1>11. QED
  BY <1>5, <1>6, <1>7, <1>8, <1>9, <1>10

-------------------------------------------------------------------------------
(* Notify routines *)

\* A thread enters a routine, looks at the flag, and pushes.
LEMMA NotifyIInv ==
  ASSUME IInv, NEW t \in Threads,
         Notify(t) \/ \E fam \in Families : NotifyEnters(t, fam)
  PROVE  IInv'
<1> USE DEF IInv, ownerVars, timelineVars
<1>1. UNCHANGED <<ownerVars, trace, timelineVars, image>>
  BY DEF Notify, NotifyEnters, NotifyChecks, NotifyPushes
<1>2. TypeOK'
  BY DEF Notify, NotifyEnters, NotifyChecks, NotifyPushes, TypeOK
<1>3. FilesOk' /\ HolderOk' /\ TimelineOk' /\ StoppedOk'
  BY <1>1 DEF FilesOk, OpenFiles, HolderOk, TimelineOk, StoppedOk
<1>4. CountOk'
  BY <1>1, CountUnmoved
<1>5. NotifyOk'
  <2>1. CASE \E fam \in Families : NotifyEnters(t, fam)
    BY <2>1 DEF NotifyEnters, NotifyOk, TypeOK, Families, None
  <2>2. CASE NotifyChecks(t)
    BY <2>2 DEF NotifyChecks, NotifyOk, TypeOK, TimelineOk, Families, None
  <2>3. CASE NotifyPushes(t)
    BY <2>3 DEF NotifyPushes, NotifyOk, TypeOK
  <2>4. QED
    BY <2>1, <2>2, <2>3 DEF Notify
<1>6. QED
  BY <1>2, <1>3, <1>4, <1>5

-------------------------------------------------------------------------------
(* Unload *)

\* Unload begins without files, and frees the ring when nothing is registered.
LEMMA UnloadIInv ==
  ASSUME IInv, BeginUnload \/ UnloadDisarms \/ UnloadStops \/ UnloadFrees
  PROVE  IInv'
<1> USE DEF IInv, ownerVars, timelineVars, notifyVars
<1>1. ownerPid = None /\ UNCHANGED <<ownerVars, enabled, registered, notifyVars>>
  BY DEF BeginUnload, UnloadDisarms, UnloadStops, UnloadFrees, FilesOk
<1>2. /\ trace # "armed" /\ ~ enabled /\ registered = {}
      /\ holder \in {None, "unload"}
  BY <1>1 DEF StoppedOk, None
<1>3. \A t \in Threads : notify[t] = "idle"
  BY <1>2 DEF NotifyOk, TypeOK
<1>4. TypeOK'
  BY DEF BeginUnload, UnloadDisarms, UnloadStops, UnloadFrees, TypeOK, Steps, Images
<1>5. FilesOk'
  BY <1>1 DEF FilesOk, OpenFiles
<1>6. CountOk'
  BY <1>1, CountUnmoved
<1>7. HolderOk'
  <2>1. holder' \notin Files
    BY <1>2, FilesAssumption DEF BeginUnload, UnloadDisarms, UnloadStops, UnloadFrees, None
  <2>2. QED
    BY <1>2, <2>1, FilesAssumption
       DEF BeginUnload, UnloadDisarms, UnloadStops, UnloadFrees, HolderOk, StoppedOk, None
<1>8. TimelineOk'
  BY <1>2 DEF BeginUnload, UnloadDisarms, UnloadStops, UnloadFrees, TimelineOk, StoppedOk
<1>9. StoppedOk'
  <2>1. \A f \in Files : file'[f] = "closed"
    BY <1>1 DEF FilesOk
  <2>2. trace' # "armed" /\ holder' \in {None, "unload"}
    BY <1>2 DEF BeginUnload, UnloadDisarms, UnloadStops, UnloadFrees
  <2>3. image' \in {"freeing", "gone"} => trace' = "off" /\ step' = "free"
    BY DEF BeginUnload, UnloadDisarms, UnloadStops, UnloadFrees, StoppedOk
  <2>4. QED
    BY <1>1, <1>2, <2>1, <2>2, <2>3 DEF StoppedOk, None
<1>10. NotifyOk'
  BY <1>1, <1>3 DEF NotifyOk
<1>11. QED
  BY <1>4, <1>5, <1>6, <1>7, <1>8, <1>9, <1>10

-------------------------------------------------------------------------------

\* Every file closed and nothing collected at the start.
LEMMA InitIInv == Init => IInv
<1> SUFFICES ASSUME Init PROVE IInv
  OBVIOUS
<1> USE DEF Init
<1>1. OpenFiles = {}
  BY DEF OpenFiles
<1>2. TypeOK /\ HolderOk /\ TimelineOk /\ StoppedOk /\ NotifyOk
  BY FilesAssumption DEF TypeOK, HolderOk, TimelineOk, StoppedOk, NotifyOk, Steps, Images, None
<1>3. FilesOk
  BY <1>1 DEF FilesOk, Cleanups
<1>4. CountOk
  BY <1>1, FS_EmptySet DEF CountOk
<1>5. QED
  BY <1>2, <1>3, <1>4 DEF IInv

\* Every step keeps the invariant.
LEMMA NextIInv == IInv /\ [Next]_vars => IInv'
<1> SUFFICES ASSUME IInv, [Next]_vars PROVE IInv'
  OBVIOUS
<1>1. CASE Continue
  BY <1>1, StartIInv, StopIInv, RemovedIInv, UnloadIInv DEF Continue
<1>2. CASE \E f \in Files : Close(f) \/ Request(f)
  BY <1>2, OpenIInv, ReleaseIInv, CloseIInv, RequestIInv DEF Request
<1>3. CASE \E t \in Threads : Notify(t) \/ \E fam \in Families : NotifyEnters(t, fam)
  BY <1>3, NotifyIInv
<1>4. CASE BeginUnload
  BY <1>4, UnloadIInv
<1>5. CASE UNCHANGED vars
  <2>1. CountOk'
    BY <1>5, CountUnmoved DEF vars, ownerVars, IInv
  <2>2. QED
    BY <1>5, <2>1 DEF vars, ownerVars, timelineVars, notifyVars, IInv, TypeOK,
          FilesOk, OpenFiles, HolderOk, TimelineOk, StoppedOk, NotifyOk
<1>6. QED
  BY <1>1, <1>2, <1>3, <1>4, <1>5 DEF Next

\* The owner, its files, the lock's holder, the collectors and the notify
\* routines agree in every reachable state.
THEOREM Invariance == Spec => []IInv
  BY InitIInv, NextIInv, PTL DEF Spec

\* Type correctness: in particular the open count never goes below zero.
THEOREM TypeCorrect == Spec => []TypeOK
  BY Invariance, PTL DEF IInv

\* One process controls the driver, and its last close keeps all others out
\* until the collectors have stopped (KnDbgAcquireController).
THEOREM OneOwner == Spec => []SoleOwner
<1>1. IInv => SoleOwner
  BY DEF IInv, SoleOwner, FilesOk, CountOk, OpenFiles
<1>2. QED
  BY <1>1, Invariance, PTL

\* A driver without an owner collects nothing.
THEOREM NobodyCollects == Spec => []NoOwnerNoCollectors
<1>1. IInv => NoOwnerNoCollectors
  BY HolderIsThere DEF IInv, NoOwnerNoCollectors, StoppedOk
<1>2. QED
  BY <1>1, Invariance, PTL

\* Whenever the control lock is free, the notify routines are all registered
\* and enabled, or none is and none is running.
THEOREM AllOrNone == Spec => []AllOrNothing
<1>1. IInv => AllOrNothing
  BY DEF IInv, AllOrNothing, TimelineOk, NotifyOk, TypeOK
<1>2. QED
  BY <1>1, Invariance, PTL

\* A pushing routine has a live ring, and none is in the image when it goes.
THEOREM PushersHaveARing == Spec => []PushersAreSafe
<1>1. IInv => PushersAreSafe
  BY DEF IInv, PushersAreSafe, FilesOk, StoppedOk, NotifyOk, TypeOK
<1>2. QED
  BY <1>1, Invariance, PTL

\* While a file is open, a collector stops only for a request on an open file.
THEOREM SecondaryCloseIsHarmless == Spec => OnlyOwnerStops
<1> DEFINE Stops ==
      OpenFiles # {} =>
        /\ enabled /\ ~ enabled' => holder \in OpenFiles
        /\ trace = "armed" /\ trace' # "armed" =>
             /\ UNCHANGED <<file, image>>
             /\ \E f \in OpenFiles : writable[f]
<1>1. IInv /\ [Next]_vars => [Stops]_vars
  <2> SUFFICES ASSUME IInv, Next, OpenFiles # {}
               PROVE  Stops
    OBVIOUS
  <2>1. /\ ownerPid # None /\ image = "loaded"
        /\ \A g \in Files : file[g] \notin Cleanups
    BY OpenHasOwner DEF IInv, OpenFiles
  <2>2. ASSUME enabled, ~ enabled' PROVE holder \in OpenFiles
    <3>1. step = "disable"
      BY <2>2 DEF Next, Continue, Close, Request, Notify, EnsureRing,
         EnsureRingFails, Register, RegisterFails, Enable, Disable, Remove,
         Removed, UnloadDisarms, UnloadStops, UnloadFrees, CloseDisarms,
         CloseStops, CloseFinishes, Open, WriteMode, ArmTrace, DisarmTrace,
         BeginStart, BeginStop, Release, NotifyChecks, NotifyPushes,
         NotifyEnters, BeginUnload, timelineVars
    <3>2. holder \in Files
      BY <2>1, <3>1, HolderIsThere
    <3>3. QED
      BY <2>1, <3>2 DEF IInv, HolderOk, OpenFiles, Cleanups
  <2>3. ASSUME trace = "armed", trace' # "armed"
        PROVE  /\ UNCHANGED <<file, image>>
               /\ \E f \in OpenFiles : writable[f]
    <3>1. PICK f \in Files : DisarmTrace(f)
      BY <2>1, <2>3 DEF Next, Continue, Close, Request, Notify, EnsureRing,
         EnsureRingFails, Register, RegisterFails, Enable, Disable, Remove,
         Removed, UnloadDisarms, UnloadStops, UnloadFrees, CloseDisarms,
         CloseStops, CloseFinishes, Open, WriteMode, ArmTrace,
         BeginStart, BeginStop, Release, NotifyChecks, NotifyPushes,
         NotifyEnters, BeginUnload, Cleanups
    <3>2. QED
      BY <3>1 DEF DisarmTrace, OpenFiles, ownerVars
  <2>4. QED
    BY <2>2, <2>3
<1>2. QED
  BY <1>1, Invariance, PTL DEF Spec, OnlyOwnerStops

-------------------------------------------------------------------------------
(* The controller implements ControllerLease.  Serving, Running, Pushing and *)
(* Phase are the parts of the refinement mapping.                            *)

Serving == IF holder \in OpenFiles THEN holder ELSE None
Running == {c \in {"timeline", "trace"} :
              IF c = "timeline" THEN enabled ELSE trace = "armed"}
Pushing == {t \in Threads : notify[t] = "pushing"}
Phase   == IF image = "freeing" THEN "unloading" ELSE image

\* Opening a file opens a handle of the lease.
LEMMA OpenIsOpen ==
  ASSUME IInv, NEW f \in Files, NEW p \in Processes, Open(f, p)
  PROVE  Lease!Open(f, p)
<1> USE DEF Open, timelineVars, notifyVars, IInv
<1>1. OpenFiles' = OpenFiles \cup {f} /\ f \notin OpenFiles
  BY DEF OpenFiles, TypeOK
<1>2. ownerPid = None \/ (ownerPid = p /\ OpenFiles # {})
  <2>1. CASE ownerPid # None
    <3>1. PICK g \in Files : file[g] # "closed"
      BY <2>1 DEF FilesOk
    <3>2. g \in OpenFiles
      BY <3>1 DEF FilesOk, OpenFiles, TypeOK
    <3>3. QED
      BY <2>1, <3>2
  <2>2. QED
    BY <2>1
<1>3. Serving' = Serving
  <2>1. holder # f
    BY DEF HolderOk
  <2>2. QED
    BY <1>1, <2>1 DEF Serving
<1>4. UNCHANGED <<Running, Pushing, Phase>> /\ Phase = "loaded" /\ ownerPid' = p
  BY DEF Running, Pushing, Phase
<1>5. QED
  BY <1>1, <1>2, <1>3, <1>4 DEF Lease!Open, Serving, Running, Pushing, Phase

\* Releasing a file closes a handle.
LEMMA ReleaseIsClose ==
  ASSUME IInv, NEW f \in Files, Release(f)
  PROVE  Lease!Close(f)
<1> USE DEF Release, timelineVars, notifyVars, IInv
<1>1. OpenFiles' = OpenFiles \ {f} /\ f \in OpenFiles
  BY DEF OpenFiles, TypeOK
<1>2. Serving' = Serving /\ Serving # f
  BY <1>1, FilesAssumption DEF Serving, None, OpenFiles
<1>3. UNCHANGED <<ownerPid, Running, Pushing, Phase>>
  BY DEF Running, Pushing, Phase
<1>4. QED
  BY <1>1, <1>2, <1>3 DEF Lease!Close, Serving, Running, Pushing, Phase

\* The last close stops what runs and then ends the lease.
LEMMA CloseIsEnd ==
  ASSUME IInv, NEW f \in Files, Close(f)
  PROVE  Lease!StopTrace \/ Lease!EndLease \/ UNCHANGED Lease!leaseVars
<1> USE DEF ownerVars, timelineVars, notifyVars, IInv
<1>1. /\ closing /\ ownerPid # None /\ OpenFiles = {}
      /\ OpenFiles' = {}
  <2>1. file[f] \in Cleanups
    BY DEF Close, CloseDisarms, CloseStops, CloseFinishes, Cleanups
  <2>2. closing /\ ownerPid # None /\ OpenFiles = {}
    BY <2>1, CleanupIsAlone DEF OpenFiles
  <2>3. OpenFiles' = {}
    BY <2>2 DEF Close, CloseDisarms, CloseStops, CloseFinishes, OpenFiles, TypeOK
  <2>4. QED
    BY <2>2, <2>3
<1>2. Serving' = None /\ Serving = None
  BY <1>1 DEF Serving
<1>3. UNCHANGED <<Pushing, Phase>>
  BY DEF Close, CloseDisarms, CloseStops, CloseFinishes, Pushing, Phase
<1>4. CASE CloseDisarms(f)
  <2>1. Running' = Running \ {"trace"} \/ Running' = Running
    BY <1>4 DEF CloseDisarms, Disarmed, Running, TypeOK
  <2>2. UNCHANGED ownerPid
    BY <1>4 DEF CloseDisarms
  <2>3. QED
    BY <1>1, <1>2, <1>3, <2>1, <2>2
       DEF Lease!StopTrace, Lease!leaseVars, Serving, Running, Pushing, Phase
<1>5. CASE CloseStops(f)
  <2>1. UNCHANGED <<ownerPid, Running>>
    BY <1>5 DEF CloseStops, Running
  <2>2. QED
    BY <1>1, <1>2, <1>3, <2>1 DEF Lease!leaseVars, Serving, Running, Pushing, Phase
<1>6. CASE CloseFinishes(f)
  <2>1. /\ trace # "armed" /\ ~ enabled /\ registered = {}
        /\ UNCHANGED Running /\ ownerPid' = None
    BY <1>6 DEF CloseFinishes, StoppedOk, Running
  <2>2. Running = {}
    BY <2>1 DEF Running
  <2>3. Pushing = {}
    BY <2>1 DEF Pushing, NotifyOk
  <2>4. QED
    BY <1>1, <1>2, <1>3, <2>1, <2>2, <2>3
       DEF Lease!EndLease, Lease!Quiet, Serving, Running, Pushing, Phase
<1>7. QED
  BY <1>4, <1>5, <1>6 DEF Close

\* Requests that leave the files open.
LEMMA RequestIsServed ==
  ASSUME IInv, NEW f \in Files,
         \/ \E enable \in BOOLEAN : WriteMode(f, enable)
         \/ ArmTrace(f) \/ DisarmTrace(f) \/ BeginStart(f) \/ BeginStop(f)
  PROVE  \/ Lease!Serve(f) \/ Lease!StartTrace \/ Lease!StopTrace
         \/ UNCHANGED Lease!leaseVars
<1> USE DEF ownerVars, timelineVars, notifyVars, IInv
<1>1. /\ f \in OpenFiles /\ ownerPid # None
      /\ UNCHANGED <<ownerPid, OpenFiles, Pushing, Phase, enabled>>
  <2>1. file[f] = "open" /\ UNCHANGED <<ownerPid, file, notify, image, enabled>>
    BY DEF WriteMode, ArmTrace, DisarmTrace, BeginStart, BeginStop
  <2>2. QED
    BY <2>1, OpenHasOwner DEF OpenFiles, Pushing, Phase
<1>2. CASE \E enable \in BOOLEAN : WriteMode(f, enable)
  <2>1. UNCHANGED <<Serving, Running>>
    BY <1>1, <1>2 DEF WriteMode, Serving, Running
  <2>2. QED
    BY <1>1, <2>1 DEF Lease!leaseVars, Serving, Running, Pushing, Phase
<1>3. CASE ArmTrace(f)
  <2>1. UNCHANGED Serving /\ Running' = Running \cup {"trace"}
    BY <1>1, <1>3 DEF ArmTrace, Serving, Running
  <2>2. QED
    BY <1>1, <2>1 DEF Lease!StartTrace, Serving, Running, Pushing, Phase
<1>4. CASE DisarmTrace(f)
  <2>1. UNCHANGED Serving
    BY <1>1, <1>4 DEF DisarmTrace, Serving
  <2>2. Running' = Running \ {"trace"}
    BY <1>1, <1>4 DEF DisarmTrace, Disarmed, Running, TypeOK
  <2>3. QED
    BY <1>1, <2>1, <2>2 DEF Lease!StopTrace, Serving, Running, Pushing, Phase
<1>5. CASE BeginStart(f) \/ BeginStop(f)
  <2>1. UNCHANGED Running /\ holder = None /\ holder' = f
    BY <1>5 DEF BeginStart, BeginStop, Running, HolderOk
  <2>2. Serving = None /\ Serving' = f
    BY <1>1, <2>1, FilesAssumption DEF Serving, OpenFiles, None
  <2>3. QED
    BY <1>1, <2>1, <2>2 DEF Lease!Serve, Serving, Running, Pushing, Phase
<1>6. QED
  BY <1>2, <1>3, <1>4, <1>5

\* A START is served, whether it succeeds, fails or has still to go on.
LEMMA StartIsServed ==
  ASSUME IInv,
         EnsureRing \/ EnsureRingFails \/ Register \/ RegisterFails \/ Enable
  PROVE  Lease!Started \/ Lease!Served \/ UNCHANGED Lease!leaseVars
<1> USE DEF ownerVars, timelineVars, notifyVars, IInv
<1>1. /\ step \in {"ring", "register", "enable"}
      /\ UNCHANGED <<ownerPid, OpenFiles, Pushing, Phase, trace>>
      /\ Serving \in OpenFiles /\ Serving = holder
  <2>1. /\ step \in {"ring", "register", "enable"}
        /\ UNCHANGED <<ownerPid, file, notify, image, trace>>
    BY DEF EnsureRing, EnsureRingFails, Register, RegisterFails, Enable
  <2>2. holder \in OpenFiles
    BY <2>1, StarterIsOpen DEF OpenFiles
  <2>3. QED
    BY <2>1, <2>2 DEF OpenFiles, Pushing, Phase, Serving
<1>2. ASSUME step = "free" \/ step \in {"ring", "register"}, registered = {} \/ enabled
      PROVE  "timeline" \notin Running => Pushing = {}
  BY <1>2 DEF Running, Pushing, NotifyOk
<1>3. None \notin OpenFiles
  BY FilesAssumption DEF OpenFiles, None
<1>4. CASE EnsureRing \/ Register \/ (RegisterFails /\ registered # {})
  <2>1. UNCHANGED <<Running, Serving>>
    BY <1>1, <1>4 DEF EnsureRing, Register, RegisterFails, Running, Serving
  <2>2. QED
    BY <1>1, <2>1 DEF Lease!leaseVars, Serving, Running, Pushing, Phase
<1>5. CASE EnsureRingFails \/ (RegisterFails /\ registered = {})
  <2>1. UNCHANGED Running /\ Serving' = None
    BY <1>1, <1>3, <1>5 DEF EnsureRingFails, RegisterFails, Running, Serving
  <2>2. "timeline" \notin Running => Pushing = {}
    BY <1>2, <1>5 DEF EnsureRingFails, RegisterFails, TimelineOk
  <2>3. QED
    BY <1>1, <2>1, <2>2 DEF Lease!Served, Serving, Running, Pushing, Phase
<1>6. CASE Enable
  <2>1. Running' = Running \cup {"timeline"} /\ Serving' = None
    BY <1>1, <1>3, <1>6 DEF Enable, Running, Serving
  <2>2. QED
    BY <1>1, <2>1 DEF Lease!Started, Serving, Running, Pushing, Phase
<1>7. QED
  BY <1>4, <1>5, <1>6

\* The timeline is stopped for the request being served or at the lease's end;
\* unload finds it stopped.
LEMMA StopIsEntitled ==
  ASSUME IInv, Disable \/ Remove
  PROVE  Lease!StopTimeline \/ UNCHANGED Lease!leaseVars
<1> USE DEF ownerVars, notifyVars, IInv
<1>1. /\ step \in {"disable", "remove"}
      /\ UNCHANGED <<ownerPid, OpenFiles, Serving, Pushing, Phase>>
      /\ Running' = Running \ {"timeline"}
  BY DEF Disable, Remove, TimelineOk, OpenFiles, Serving, Pushing, Phase, Running
<1>2. CASE holder \in Files /\ file[holder] = "open"
  <2>1. Serving \in OpenFiles
    BY <1>2 DEF Serving, OpenFiles
  <2>2. QED
    BY <1>1, <2>1 DEF Lease!StopTimeline, Serving, Running, Pushing, Phase
<1>3. CASE holder \in Files /\ file[holder] = "stopping"
  <2>1. ownerPid # None /\ OpenFiles = {}
    BY <1>3, CleanupIsAlone DEF Cleanups, OpenFiles
  <2>2. QED
    BY <1>1, <2>1 DEF Lease!StopTimeline, Serving, Running, Pushing, Phase
<1>4. CASE holder = "unload"
  <2>1. ~ enabled
    BY <1>4 DEF HolderOk, FilesOk, StoppedOk
  <2>2. Running' = Running
    BY <1>1, <2>1 DEF Running
  <2>3. QED
    BY <1>1, <2>2 DEF Lease!leaseVars, Serving, Running, Pushing, Phase
<1>5. QED
  BY <1>1, <1>2, <1>3, <1>4, HolderIsThere DEF HolderOk

\* The control lock is released: a STOP has been served.
LEMMA RemovedIsServed ==
  ASSUME IInv, Removed
  PROVE  Lease!Served \/ UNCHANGED Lease!leaseVars
<1> USE DEF Removed, notifyVars, IInv
<1>1. None \notin OpenFiles /\ holder # None
  BY FilesAssumption DEF OpenFiles, None, HolderOk
<1>2. OpenFiles' = OpenFiles
  <2>1. \A g \in Files :
          \/ file'[g] = file[g]
          \/ holder = g /\ file[g] = "stopping" /\ file'[g] = "finishing"
    BY DEF TypeOK
  <2>2. QED
    BY <2>1 DEF OpenFiles
<1>3. UNCHANGED <<ownerPid, Running, Pushing>> /\ Serving' = None
  BY <1>1, <1>2 DEF Running, Pushing, Serving
<1>4. UNCHANGED Phase
  BY HolderIsThere, FilesAssumption DEF Phase
<1>5. Pushing = {}
  BY DEF Pushing, NotifyOk
<1>6. CASE holder \in OpenFiles
  <2>1. Serving \in OpenFiles
    BY <1>6 DEF Serving
  <2>2. QED
    BY <1>2, <1>3, <1>4, <1>5, <2>1 DEF Lease!Served, Serving, Running, Pushing, Phase
<1>7. CASE holder \notin OpenFiles
  <2>1. Serving = None
    BY <1>7 DEF Serving
  <2>2. QED
    BY <1>2, <1>3, <1>4, <2>1 DEF Lease!leaseVars, Serving, Running, Pushing, Phase
<1>8. QED
  BY <1>6, <1>7

\* A notify routine pushes only while the timeline runs.
LEMMA NotifyIsPush ==
  ASSUME IInv, NEW t \in Threads,
         Notify(t) \/ \E fam \in Families : NotifyEnters(t, fam)
  PROVE  Lease!BeginPush(t) \/ Lease!EndPush(t) \/ UNCHANGED Lease!leaseVars
<1> USE DEF ownerVars, timelineVars, IInv
<1>1. UNCHANGED <<ownerPid, OpenFiles, Serving, Running, Phase>>
  BY DEF Notify, NotifyEnters, NotifyChecks, NotifyPushes, OpenFiles, Serving,
         Running, Phase
<1>2. CASE (\E fam \in Families : NotifyEnters(t, fam)) \/ (NotifyChecks(t) /\ ~ enabled)
  <2>1. UNCHANGED Pushing
    BY <1>2 DEF NotifyEnters, NotifyChecks, Pushing, TypeOK
  <2>2. QED
    BY <1>1, <2>1 DEF Lease!leaseVars, Serving, Running, Pushing, Phase
<1>3. CASE NotifyChecks(t) /\ enabled
  <2>1. Pushing' = Pushing \cup {t} /\ "timeline" \in Running
    BY <1>3 DEF NotifyChecks, Pushing, Running, TypeOK
  <2>2. QED
    BY <1>1, <2>1 DEF Lease!BeginPush, Serving, Running, Pushing, Phase
<1>4. CASE NotifyPushes(t)
  <2>1. Pushing' = Pushing \ {t}
    BY <1>4 DEF NotifyPushes, Pushing, TypeOK
  <2>2. QED
    BY <1>1, <2>1 DEF Lease!EndPush, Serving, Running, Pushing, Phase
<1>5. QED
  BY <1>2, <1>3, <1>4 DEF Notify

\* Unload begins without a lease and ends with nothing running.
LEMMA UnloadIsUnload ==
  ASSUME IInv, BeginUnload \/ UnloadDisarms \/ UnloadStops \/ UnloadFrees
  PROVE  Lease!Unload \/ Lease!Go \/ UNCHANGED Lease!leaseVars
<1> USE DEF ownerVars, timelineVars, notifyVars, IInv
<1>1. /\ ownerPid = None /\ OpenFiles = {}
      /\ UNCHANGED <<ownerPid, OpenFiles, Pushing>>
  BY DEF BeginUnload, UnloadDisarms, UnloadStops, UnloadFrees, FilesOk, OpenFiles, Pushing
<1>2. trace # "armed" /\ ~ enabled /\ registered = {}
  BY <1>1 DEF StoppedOk
<1>3. Running = {} /\ Running' = {}
  BY <1>2 DEF BeginUnload, UnloadDisarms, UnloadStops, UnloadFrees, Running
<1>4. Pushing = {}
  BY <1>2 DEF Pushing, NotifyOk
<1>5. Serving = None /\ Serving' = None
  BY <1>1 DEF Serving
<1>6. CASE BeginUnload
  <2>1. Phase = "loaded" /\ Phase' = "unloading"
    BY <1>6 DEF BeginUnload, Phase
  <2>2. QED
    BY <1>1, <1>3, <1>5, <2>1 DEF Lease!Unload, Serving, Running, Pushing, Phase
<1>7. CASE UnloadDisarms \/ UnloadStops
  <2>1. UNCHANGED Phase
    BY <1>7 DEF UnloadDisarms, UnloadStops, Phase
  <2>2. QED
    BY <1>1, <1>3, <1>5, <2>1 DEF Lease!leaseVars, Serving, Running, Pushing, Phase
<1>8. CASE UnloadFrees
  <2>1. Phase = "unloading" /\ Phase' = "gone"
    BY <1>8 DEF UnloadFrees, Phase
  <2>2. QED
    BY <1>1, <1>3, <1>4, <1>5, <2>1
       DEF Lease!Go, Lease!Quiet, Serving, Running, Pushing, Phase
<1>9. QED
  BY <1>6, <1>7, <1>8

\* Each step of the driver is a step of the lease or leaves it alone.
LEMMA NextIsLease == IInv /\ [Next]_vars => [Lease!Next]_(Lease!leaseVars)
<1> SUFFICES ASSUME IInv, [Next]_vars PROVE [Lease!Next]_(Lease!leaseVars)
  OBVIOUS
<1>1. CASE Continue
  BY <1>1, StartIsServed, StopIsEntitled, RemovedIsServed, UnloadIsUnload
     DEF Continue, Lease!Next
<1>2. CASE \E f \in Files : Close(f) \/ Request(f)
  <2>1. PICK f \in Files : Close(f) \/ Request(f)
    BY <1>2
  <2>2. CASE \E p \in Processes : Open(f, p)
    BY <2>2, OpenIsOpen DEF Lease!Next
  <2>3. CASE Release(f)
    BY <2>3, ReleaseIsClose DEF Lease!Next
  <2>4. CASE Close(f)
    BY <2>4, CloseIsEnd DEF Lease!Next
  <2>5. CASE \/ \E enable \in BOOLEAN : WriteMode(f, enable)
             \/ ArmTrace(f) \/ DisarmTrace(f) \/ BeginStart(f) \/ BeginStop(f)
    BY <2>5, RequestIsServed DEF Lease!Next
  <2>6. QED
    BY <2>1, <2>2, <2>3, <2>4, <2>5 DEF Request
<1>3. CASE \E t \in Threads : Notify(t) \/ \E fam \in Families : NotifyEnters(t, fam)
  BY <1>3, NotifyIsPush DEF Lease!Next
<1>4. CASE BeginUnload
  BY <1>4, UnloadIsUnload DEF Lease!Next
<1>5. CASE UNCHANGED vars
  BY <1>5 DEF vars, ownerVars, timelineVars, notifyVars, Lease!leaseVars, OpenFiles
<1>6. QED
  BY <1>1, <1>2, <1>3, <1>4, <1>5 DEF Next

\* The driver implements the lease: whatever its cleanup, its control lock and
\* its notify routines do, a process gets in only after the one before it has
\* nothing running any more, and a live owner's timeline is stopped by its own
\* requests alone.
THEOREM KeepsLease == Spec => ImplementsLease
<1>1. Init => Lease!Init
  BY FilesAssumption DEF Init, Lease!Init, OpenFiles, None
<1>2. QED
  BY <1>1, NextIsLease, Invariance, PTL DEF Spec, ImplementsLease, Lease!Spec

-------------------------------------------------------------------------------
(* The trace in one step *)

\* Steps that move neither the trace nor the image.
LEMMA TraceStays ==
  ASSUME UNCHANGED <<trace, Phase>>
  PROVE  UNCHANGED Trace!traceContractVars
  BY DEF Trace!traceContractVars, Phase

\* The steps that move the trace: arming it for an open file of a loaded
\* driver, and disarming it.
LEMMA TraceMoves ==
  ASSUME IInv, trace' # trace, Next
  PROVE  Trace!Next
<1> USE DEF IInv
<1>1. \/ UnloadDisarms
      \/ \E f \in Files : CloseDisarms(f) \/ ArmTrace(f) \/ DisarmTrace(f)
  BY DEF Next, Continue, Close, Request, Notify, EnsureRing,
         EnsureRingFails, Register, RegisterFails, Enable, Disable, Remove,
         Removed, UnloadStops, UnloadFrees, CloseStops, CloseFinishes, Open,
         WriteMode, BeginStart, BeginStop, Release, NotifyChecks, NotifyPushes,
         NotifyEnters, BeginUnload
<1>2. CASE \E f \in Files : ArmTrace(f)
  <2>1. PICK f \in Files : ArmTrace(f)
    BY <1>2
  <2>2. /\ trace = "off" /\ trace' = "armed" /\ UNCHANGED Phase
    BY <2>1 DEF ArmTrace, Phase
  <2>3. Phase = "loaded"
    BY <2>1, OpenHasOwner DEF ArmTrace, Phase
  <2>4. Trace!Arm("target")
    BY <2>2, <2>3 DEF Trace!Arm, Phase
  <2>5. QED
    BY <2>4 DEF Trace!Next
<1>3. CASE UnloadDisarms \/ \E f \in Files : CloseDisarms(f) \/ DisarmTrace(f)
  <2>1. /\ trace # "off" /\ trace' \in {"off", "busy"} /\ UNCHANGED Phase
    BY <1>3 DEF UnloadDisarms, CloseDisarms, DisarmTrace, Disarmed, Phase
  <2>2. CASE trace' = "off"
    <3>1. Trace!LetGo
      BY <2>1, <2>2 DEF Trace!LetGo, Phase
    <3>2. QED
      BY <3>1 DEF Trace!Next
  <2>3. CASE trace' = "busy"
    <3>1. trace = "armed"
      BY <2>1, <2>3 DEF TypeOK
    <3>2. Trace!Unhook
      BY <2>1, <2>3, <3>1 DEF Trace!Unhook, Phase
    <3>3. QED
      BY <3>2 DEF Trace!Next
  <2>4. QED
    BY <2>1, <2>2, <2>3
<1>4. QED
  BY <1>1, <1>2, <1>3

\* The steps that move the image leave the trace alone, and find it off when
\* the image goes.
LEMMA PhaseMoves ==
  ASSUME IInv, trace' = trace, Phase' # Phase, Next
  PROVE  Trace!Next
<1> USE DEF IInv
<1>1. BeginUnload \/ UnloadFrees \/ Removed
  BY DEF Next, Continue, Close, Request, Notify, EnsureRing,
         EnsureRingFails, Register, RegisterFails, Enable, Disable, Remove,
         UnloadDisarms, UnloadStops, CloseDisarms, CloseStops,
         CloseFinishes, Open, WriteMode, ArmTrace, DisarmTrace, BeginStart,
         BeginStop, Release, NotifyChecks, NotifyPushes, NotifyEnters, Phase
<1>2. ~ Removed
  <2>1. ASSUME Removed PROVE Phase' = Phase
    BY <2>1, HolderIsThere, FilesAssumption DEF Removed, Phase
  <2>2. QED
    BY <2>1
<1>3. CASE BeginUnload
  <2>1. Phase = "loaded" /\ Phase' = "unloading"
    BY <1>3 DEF BeginUnload, Phase
  <2>2. Trace!Unload
    BY <2>1 DEF Trace!Unload, Phase
  <2>3. QED
    BY <2>2 DEF Trace!Next
<1>4. CASE UnloadFrees
  <2>1. Phase = "unloading" /\ Phase' = "gone" /\ trace = "off"
    BY <1>4 DEF UnloadFrees, Phase, StoppedOk
  <2>2. Trace!Go
    BY <2>1 DEF Trace!Go, Phase
  <2>3. QED
    BY <2>2 DEF Trace!Next
<1>5. QED
  BY <1>1, <1>2, <1>3, <1>4

\* The controller uses the trace as the contract that IoTrace implements has
\* it: so the one step it takes stands for IoTrace's, and the image goes only
\* with the trace off.
THEOREM TraceIsUsedAsPromised == Spec => UsesTrace
<1>1. Init => Trace!Init
  BY DEF Init, Trace!Init
<1>2. IInv /\ [Next]_vars => [Trace!Next]_(Trace!traceContractVars)
  <2> SUFFICES ASSUME IInv, [Next]_vars
               PROVE  [Trace!Next]_(Trace!traceContractVars)
    OBVIOUS
  <2>1. CASE UNCHANGED <<trace, Phase>>
    BY <2>1, TraceStays
  <2>2. CASE Next /\ trace' # trace
    BY <2>2, TraceMoves
  <2>3. CASE Next /\ trace' = trace /\ Phase' # Phase
    BY <2>3, PhaseMoves
  <2>4. CASE UNCHANGED vars
    <3>1. UNCHANGED <<trace, Phase>>
      BY <2>4 DEF vars, Phase
    <3>2. QED
      BY <3>1, TraceStays
  <2>5. QED
    BY <2>1, <2>2, <2>3, <2>4
<1>3. QED
  BY <1>1, <1>2, Invariance, PTL DEF Spec, UsesTrace, Trace!Spec

-------------------------------------------------------------------------------
(* The safety half of CleanupsEnd *)

\* A routine that is being removed, and a thread that keeps it from going.
LEMMA RemovalWaitsForSomebody ==
  ASSUME step = "remove", registered # {}, ~ CanContinue
  PROVE  \E t \in Threads : family[t] = NextToRemove
  BY DEF CanContinue

\* No last close and no unload is ever stuck: somebody whose steps the fairness
\* assumes, the closing file, the control lock's holder, unload, or a thread in
\* the routine that is being removed, can go on.  The lock's holder never waits
\* for the close that waits for the lock (KnDbgCreateClose).
THEOREM CleanupsAreNeverStuck == Spec => []CleanupsCanMove
<1>1. IInv => CleanupsCanMove
  <2> SUFFICES ASSUME IInv, closing \/ image \in {"unloading", "freeing"}, ~ CanContinue
               PROVE  \/ \E f \in Files : CanClose(f)
                      \/ \E t \in Threads : CanNotify(t)
    BY DEF CleanupsCanMove
  <2>1. step \in {"free", "remove"}
    BY DEF IInv, TypeOK, Steps, CanContinue
  <2>2. CASE step = "remove"
    <3>1. PICK t \in Threads : family[t] = NextToRemove
      BY <2>2, RemovalWaitsForSomebody DEF CanContinue
    <3>2. family[t] # None
      BY <3>1 DEF NextToRemove, None
    <3>3. notify[t] # "idle"
      BY <3>2 DEF IInv, NotifyOk
    <3>4. QED
      BY <3>3 DEF CanNotify
  <2>3. CASE step = "free"
    <3>1. closing /\ OpenFiles = {} /\ ownerPid # None
      BY <2>3 DEF CanContinue, IInv, FilesOk
    <3>2. PICK f \in Files : file[f] # "closed"
      BY <3>1 DEF IInv, FilesOk
    <3>3. file[f] \in Cleanups
      BY <3>1, <3>2 DEF IInv, TypeOK, OpenFiles
    <3>4. QED
      BY <2>3, <3>3 DEF CanClose, Cleanups
  <2>4. QED
    BY <2>1, <2>2, <2>3
<1>2. QED
  BY <1>1, Invariance, PTL
===============================================================================
