------------------------ MODULE SandboxRegistryProofs ------------------------
(***************************************************************************)
(* SandboxLifecycle implements SessionRegistry for every number of         *)
(* sessions and every choice of timeouts, limits and faults.               *)
(***************************************************************************)
EXTENDS SandboxRegistry, SandboxLifecycleProofs

\* A session whose first command is still to come is unknown to the store and
\* to the collector.
Unregistered == \A s \in Sessions : pc[s] = "store1" => ~Stored(s) /\ s \notin gcTargets

(***************************************************************************)
(* One step as SessionRegistry sees it, for one session and without the    *)
(* functions of the refinement mapping.                                    *)
(***************************************************************************)
Stray(s) == Met(s, Holes)
Status(s) == rec[s].status
SamePhase(s) == PhaseOf(s)' = PhaseOf(s)
SameStatus(s) == Status(s)' = Status(s)
SameObject(s) == ObjectOf(s)' = ObjectOf(s)
SameStray(s) == Stray(s)' <=> Stray(s)

Allowed(s) ==
    \/ /\ PhaseOf(s) = "new" /\ PhaseOf(s)' = "creating"
       /\ Status(s) = "none" /\ Status(s)' = "creating"
       /\ SameObject(s) /\ SameStray(s)
    \/ /\ \/ PhaseOf(s) \in {"new", "creating", "undoing"} /\ PhaseOf(s)' = "over"
          \/ PhaseOf(s) = "creating" /\ PhaseOf(s)' = "undoing"
       /\ SameStatus(s) /\ SameObject(s) /\ SameStray(s)
    \/ /\ ObjectOf(s) = "none" /\ ObjectOf(s)' = "held"
       /\ \/ PhaseOf(s) = "creating" /\ (Status(s) # "none" \/ Stray(s)) /\ SameStray(s)
          \/ PhaseOf(s) \in {"undoing", "over"} /\ Stray(s)'
       /\ SamePhase(s) /\ SameStatus(s)
    \/ /\ PhaseOf(s) = "creating" /\ PhaseOf(s)' \in {"active", "undoing"}
       /\ Status(s) # "none" /\ Status(s)' = "ready"
       /\ ObjectOf(s) # "none"
       /\ SameObject(s) /\ SameStray(s)
    \/ /\ ObjectOf(s) = "held" /\ ObjectOf(s)' = "released"
       /\ SameStray(s) \/ (PhaseOf(s) = "creating" /\ Stray(s)')
       /\ SamePhase(s) /\ SameStatus(s)
    \/ /\ PhaseOf(s) \in {"creating", "undoing"}
       /\ Stray(s)'
       /\ SamePhase(s) /\ SameStatus(s) /\ SameObject(s)
    \/ /\ Status(s) # "none" /\ Status(s)' = "none"
       /\ PhaseOf(s) # "new"
       /\ (ObjectOf(s) = "held" \/ PhaseOf(s) = "creating") => Stray(s)
       /\ SamePhase(s) /\ SameObject(s) /\ SameStray(s)
    \/ SamePhase(s) /\ SameStatus(s) /\ SameObject(s) /\ SameStray(s)

(***************************************************************************)
(* A step that is allowed for every session is a step of SessionRegistry.  *)
(***************************************************************************)
LEMMA AllowedIsStep == (\A s \in Sessions : Allowed(s)) => Registry!Next
<1> SUFFICES ASSUME \A s \in Sessions : Allowed(s), NEW s \in Sessions
             PROVE  Registry!Step(s) \/ Registry!Same(s)
  BY DEF Registry!Next
<1> QED
  BY DEF Allowed, Stray, Status, SamePhase, SameStatus, SameObject, SameStray,
         Registry!Step, Registry!Same, Registry!Register, Registry!GiveUp, Registry!Allocate,
         Registry!Publish, Registry!Release, Registry!GoAstray, Registry!Forget, Registry!Keeps

-----------------------------------------------------------------------------
\* Nothing that SessionRegistry sees of s changes.
Untouched(s) ==
    /\ pc'[s] = pc[s] /\ rec'[s] = rec[s] /\ req'[s] = req[s]
    /\ obj'[s] = obj[s] /\ hist'[s] = hist[s]

LEMMA UntouchedAllowed == ASSUME NEW s \in Sessions, Untouched(s) PROVE Allowed(s)
  BY DEF Untouched, Allowed, PhaseOf, ObjectOf, Status, Stray, Met,
         SamePhase, SameStatus, SameObject, SameStray

\* A step that touches one session and is allowed for it.
LEMMA OneSession == ASSUME NEW s \in Sessions, Allowed(s),
                           \A t \in Sessions \ {s} : Untouched(t)
                    PROVE  \A t \in Sessions : Allowed(t)
  BY UntouchedAllowed

(***************************************************************************)
(* Unregistered is kept by every step: one leaf per action.                *)
(***************************************************************************)
LEMMA UnregisteredStep ==
    ASSUME TypeOK, Bookkeeping, Unregistered, [Next]_vars PROVE Unregistered'
<1> USE DEF Unregistered, Bookkeeping, TypeOK, StoreTypeOK, SandboxInfo, NoRecord, Names,
    Kinds, Absent, Stored,
           StoreStages, CreateStages, RollbackStages, Answered, InProgress, Holes, Events,
           vars, storeVars, k8sVars, createVars, request, deleteVars, gcVars, notCreate, notGC
<1>1. ASSUME NEW s \in Sessions, HandleSandboxCreate(s) PROVE Unregistered'
  BY <1>1 DEF HandleSandboxCreate, Goto, ShutdownTime
<1>2. ASSUME NEW s \in Sessions, StorePlaceHolder(s) PROVE Unregistered'
  BY <1>2 DEF StorePlaceHolder, Goto, StoreCmd, StoreStage, PlaceHolder
<1>3. ASSUME NEW s \in Sessions, StorePlaceHolderFails(s) PROVE Unregistered'
  BY <1>3 DEF StorePlaceHolderFails, Move, Goto
<1>4. ASSUME NEW s \in Sessions, CreateK8sResources(s) PROVE Unregistered'
  BY <1>4 DEF CreateK8sResources, Goto
<1>5. ASSUME NEW s \in Sessions, CreateSucceeds(s) PROVE Unregistered'
  BY <1>5 DEF CreateSucceeds, Move, Goto
<1>6. ASSUME NEW s \in Sessions, CreateFails(s) PROVE Unregistered'
  BY <1>6 DEF CreateFails, Goto
<1>7. ASSUME NEW s \in Sessions, WaitForCreatedSandbox(s) PROVE Unregistered'
  BY <1>7 DEF WaitForCreatedSandbox, Goto
<1>8. ASSUME NEW s \in Sessions, WaitFails(s) PROVE Unregistered'
  BY <1>8 DEF WaitFails, Goto
<1>9. ASSUME NEW s \in Sessions, VerifySandbox(s) PROVE Unregistered'
  BY <1>9 DEF VerifySandbox, Move, Goto
<1>10. ASSUME NEW s \in Sessions, VerifyFails(s) PROVE Unregistered'
  BY <1>10 DEF VerifyFails, Move, Goto
<1>11. ASSUME NEW s \in Sessions, UpdateRecord(s) PROVE Unregistered'
  BY <1>11 DEF UpdateRecord, Goto, UpdateSandbox, StoreCacheInfo, BuildSandboxInfo, PlaceHolder
<1>12. ASSUME NEW s \in Sessions, UpdateRecordFails(s) PROVE Unregistered'
  BY <1>12 DEF UpdateRecordFails, Goto, UpdateSandbox, StoreCacheInfo, BuildSandboxInfo,
      PlaceHolder
<1>13. ASSUME NEW s \in Sessions, RollbackObject(s) PROVE Unregistered'
  BY <1>13 DEF RollbackObject, Goto, DeleteObject
<1>14. ASSUME NEW s \in Sessions, RollbackObjectFails(s) PROVE Unregistered'
  BY <1>14 DEF RollbackObjectFails, Goto, Note
<1>15. ASSUME NEW s \in Sessions, RollbackStore(s) PROVE Unregistered'
  BY <1>15 DEF RollbackStore, Goto, DeleteCmd, RollbackStage
<1>16. ASSUME NEW s \in Sessions, RollbackStoreFails(s) PROVE Unregistered'
  BY <1>16 DEF RollbackStoreFails, Move, Goto
<1>17. ASSUME NEW s \in Sessions, HandleDeleteSandbox(s) PROVE Unregistered'
  BY <1>17 DEF HandleDeleteSandbox
<1>18. ASSUME NEW s \in Sessions, DeleteHandlerObject(s) PROVE Unregistered'
  BY <1>18 DEF DeleteHandlerObject, DeleteObject, Note
<1>19. ASSUME NEW s \in Sessions, DeleteHandlerObjectFails(s) PROVE Unregistered'
  BY <1>19 DEF DeleteHandlerObjectFails, DeleteObject, Note
<1>20. ASSUME NEW s \in Sessions, DeleteHandlerStore(s) PROVE Unregistered'
  BY <1>20 DEF DeleteHandlerStore, DeleteCmd, DeleteStage
<1>21. ASSUME NEW s \in Sessions, DeleteHandlerStoreFails(s) PROVE Unregistered'
  BY <1>21 DEF DeleteHandlerStoreFails
<1>22. ASSUME NEW s \in Sessions, ApiServerCreates(s) PROVE Unregistered'
  BY <1>22 DEF ApiServerCreates
<1>23. ASSUME NEW s \in Sessions, ApiServerRejects(s) PROVE Unregistered'
  BY <1>23 DEF ApiServerRejects
<1>24. ASSUME NEW s \in Sessions, SandboxBecomesReady(s) PROVE Unregistered'
  BY <1>24 DEF SandboxBecomesReady
<1>25. ASSUME NEW s \in Sessions, ShutdownTimePasses(s) PROVE Unregistered'
  BY <1>25 DEF ShutdownTimePasses
<1>26. ASSUME NEW s \in Sessions, Reconcile(s) PROVE Unregistered'
  BY <1>26 DEF Reconcile
<1>27. ASSUME NEW s \in Sessions, RouterTouches(s) PROVE Unregistered'
  BY <1>27 DEF RouterTouches, UpdateSessionLastActivity
<1>28. ASSUME NEW s \in Sessions, GCDeleteObject(s) PROVE Unregistered'
  BY <1>28 DEF GCDeleteObject, DeleteObject, Note
<1>29. ASSUME NEW s \in Sessions, GCDeleteObjectFails(s) PROVE Unregistered'
  BY <1>29 DEF GCDeleteObjectFails, DeleteObject, Note
<1>30. ASSUME NEW s \in Sessions, GCDeleteRecord(s) PROVE Unregistered'
  BY <1>30 DEF GCDeleteRecord, DeleteCmd, GCStage
<1>31. ASSUME GCListInactive PROVE Unregistered'
  BY <1>31 DEF GCListInactive
<1>32. ASSUME GCLoadInactive PROVE Unregistered'
  BY <1>32 DEF GCLoadInactive, Load
<1>33. ASSUME GCListInactiveFails PROVE Unregistered'
  BY <1>33 DEF GCListInactiveFails
<1>34. ASSUME GCListExpired PROVE Unregistered'
  BY <1>34 DEF GCListExpired
<1>35. ASSUME GCLoadExpired PROVE Unregistered'
  BY <1>35 DEF GCLoadExpired, Load
<1>36. ASSUME GCListExpiredFails PROVE Unregistered'
  BY <1>36 DEF GCListExpiredFails
<1>37. ASSUME GCDeleteRecordFails PROVE Unregistered'
  BY <1>37 DEF GCDeleteRecordFails
<1>38. ASSUME GCEnds PROVE Unregistered'
  BY <1>38 DEF GCEnds
<1>39. ASSUME Tick PROVE Unregistered'
  BY <1>39 DEF Tick
<1>40. ASSUME Crash PROVE Unregistered'
  BY <1>40 DEF Crash
<1>41. CASE UNCHANGED vars
  BY <1>41
<1>42. ASSUME GCBegins PROVE Unregistered'
  BY <1>42 DEF GCBegins
<1> QED
  BY <1>1, <1>2, <1>3, <1>4, <1>5, <1>6, <1>7, <1>8, <1>9, <1>10, <1>11, <1>12, <1>13, <1>14,
      <1>15, <1>16, <1>17, <1>18, <1>19, <1>20, <1>21, <1>22, <1>23, <1>24, <1>25, <1>26,
          <1>27, <1>28, <1>29, <1>30, <1>31, <1>32, <1>33, <1>34, <1>35, <1>36, <1>37, <1>38,
              <1>39, <1>40, <1>41, <1>42,
     Zenon DEF Next, CreateStep, RollbackStep, DeleteStep, KubernetesStep, GCStep

\* The stages between the placeholder and the end of the creation.
Underway == {"store2", "store3", "create", "sent", "wait", "verify", "update"}

\* What PhaseOf says of each stage, before and after a step.
LEMMA PhaseAt == ASSUME NEW s \in Sessions
                 PROVE  /\ pc[s] \in {"new", "store1"} => PhaseOf(s) = "new"
                        /\ pc[s] \in Underway => PhaseOf(s) = "creating"
                        /\ pc[s] \in RollbackStages => PhaseOf(s) = "undoing"
                        /\ pc[s] = "ok" => PhaseOf(s) = "active"
                        /\ pc[s] \in {"failed", "crashed"} => PhaseOf(s) = "over"
  BY DEF PhaseOf, Underway, CreateStages, StoreStages, RollbackStages

LEMMA PhaseAfter == ASSUME NEW s \in Sessions
                    PROVE  /\ pc'[s] \in {"new", "store1"} => PhaseOf(s)' = "new"
                           /\ pc'[s] \in Underway => PhaseOf(s)' = "creating"
                           /\ pc'[s] \in RollbackStages => PhaseOf(s)' = "undoing"
                           /\ pc'[s] = "ok" => PhaseOf(s)' = "active"
                           /\ pc'[s] \in {"failed", "crashed"} => PhaseOf(s)' = "over"
  BY DEF PhaseOf, Underway, CreateStages, StoreStages, RollbackStages

\* The parts of a session that a step leaves alone.
LEMMA KeepsPhase == ASSUME NEW s \in Sessions, pc'[s] = pc[s] PROVE SamePhase(s)
  BY DEF SamePhase, PhaseOf

LEMMA KeepsStatus == ASSUME NEW s \in Sessions, rec'[s] = rec[s] PROVE SameStatus(s)
  BY DEF SameStatus, Status

LEMMA KeepsObject == ASSUME NEW s \in Sessions, req'[s] = req[s], obj'[s] = obj[s]
                     PROVE  SameObject(s)
  BY DEF SameObject, ObjectOf

LEMMA KeepsStray == ASSUME NEW s \in Sessions, hist'[s] = hist[s] PROVE SameStray(s)
  BY DEF SameStray, Stray, Met

\* Being reclaimed is none of the holes.
LEMMA ReclaimedKeepsStray ==
    ASSUME NEW s \in Sessions, hist'[s] = hist[s] \cup {"reclaimed"} PROVE SameStray(s)
  BY DEF SameStray, Stray, Met, Holes

LEMMA HoleMakesStray ==
    ASSUME NEW s \in Sessions, NEW e \in Holes, e \in hist'[s] PROVE Stray(s)'
  BY DEF Stray, Met

LEMMA EarlyMakesStray ==
    ASSUME NEW s \in Sessions, pc[s] \in CreateStages,
           hist'[s] = hist[s] \cup {IF pc[s] \in CreateStages THEN "collectedEarly" ELSE "reclaimed"}
    PROVE  Stray(s)'
<1>1. "collectedEarly" \in hist'[s]
  OBVIOUS
<1> QED  BY <1>1, HoleMakesStray DEF Holes

LEMMA StoredStatus == ASSUME TypeOK, NEW s \in Sessions, Stored(s) PROVE Status(s) # "none"
  BY DEF TypeOK, StoreTypeOK, SandboxInfo, Stored, NoRecord, Status

LEMMA WrittenStatus == ASSUME NEW s \in Sessions, rec'[s] = StoreCacheInfo(s)
                       PROVE  Status(s)' = "ready"
  BY DEF StoreCacheInfo, BuildSandboxInfo, Status

\* Only the stage of the handler changes, forwards.
Onward(s) ==
    \/ pc[s] \in {"new", "store1"} /\ pc'[s] = "store1"
    \/ pc[s] \in Underway /\ pc'[s] \in Underway \cup RollbackStages
    \/ pc[s] \in RollbackStages /\ pc'[s] \in RollbackStages
    \/ /\ pc[s] \in {"new", "store1"} \cup Underway \cup RollbackStages
       /\ pc'[s] \in {"failed", "crashed"}

LEMMA OnwardAllowed ==
    ASSUME NEW s \in Sessions, Onward(s),
           SameStatus(s), SameObject(s), SameStray(s)
    PROVE  Allowed(s)
<1>1. \/ SamePhase(s)
      \/ PhaseOf(s) \in {"new", "creating", "undoing"} /\ PhaseOf(s)' = "over"
      \/ PhaseOf(s) = "creating" /\ PhaseOf(s)' = "undoing"
  BY PhaseAt, PhaseAfter, Zenon DEF SamePhase, Onward
<1> QED  BY <1>1, Zenon DEF Allowed

\* The object of s is deleted, if there is one.
LEMMA ReleaseAllowed ==
    ASSUME NEW s \in Sessions, SamePhase(s), SameStatus(s),
           req'[s] = req[s], obj'[s] = "none",
           SameStray(s) \/ (PhaseOf(s) = "creating" /\ Stray(s)')
    PROVE  Allowed(s)
<1>1. SameObject(s) \/ (ObjectOf(s) = "held" /\ ObjectOf(s)' = "released")
  BY DEF SameObject, ObjectOf
<1> QED  BY <1>1, Zenon DEF Allowed

\* The record of s is deleted, if there is one.
LEMMA ForgetAllowed ==
    ASSUME NEW s \in Sessions, TypeOK, rec'[s] = NoRecord,
           Stored(s) => /\ PhaseOf(s) # "new"
                        /\ obj[s] # "none" \/ PhaseOf(s) = "creating" => Stray(s),
           SamePhase(s), SameObject(s), SameStray(s)
    PROVE  Allowed(s)
<1>1. SameStatus(s) \/ (Stored(s) /\ Status(s) # "none" /\ Status(s)' = "none")
  BY DEF SameStatus, Status, Stored, NoRecord, TypeOK, StoreTypeOK, SandboxInfo
<1>2. ObjectOf(s) = "held" => obj[s] # "none"
  BY DEF ObjectOf
<1> QED  BY <1>1, <1>2, Zenon DEF Allowed

(***************************************************************************)
(* Every step is allowed for every session: a lemma per part, with one     *)
(* step per action.                                                        *)
(***************************************************************************)
\* The steps of the create handler.
LEMMA CreateAllowed ==
    ASSUME TypeOK, Bookkeeping, LeakInv, Unregistered, NEW s \in Sessions, CreateStep(s)
    PROVE  \A t \in Sessions : Allowed(t)
<1> DEFINE AllAllowed == \A t \in Sessions : Allowed(t)
<1> USE DEF TypeOK, StoreTypeOK, vars, storeVars, k8sVars, createVars, request, deleteVars,
            gcVars, notCreate, notGC
<1>1. CASE HandleSandboxCreate(s)
  <2>1. \A t \in Sessions \ {s} : Untouched(t)
    BY <1>1 DEF Untouched, HandleSandboxCreate, Goto, ShutdownTime
  <2>2. Allowed(s)
    <3>1. rec'[s] = rec[s] /\ req'[s] = req[s] /\ obj'[s] = obj[s] /\ hist'[s] = hist[s]
      BY <1>1 DEF HandleSandboxCreate, Goto, ShutdownTime
    <3>2. Onward(s)
      BY <1>1 DEF Onward, Underway, StoreStages, CreateStages, RollbackStages,
          HandleSandboxCreate, Goto, ShutdownTime
    <3> QED  BY <3>1, <3>2, OnwardAllowed, KeepsStatus, KeepsObject, KeepsStray, Zenon
  <2> QED  BY <2>1, <2>2, OneSession, Zenon
<1>2. CASE StorePlaceHolder(s)
  <2>1. \A t \in Sessions \ {s} : Untouched(t)
    BY <1>2 DEF Untouched, StorePlaceHolder, Goto, StoreCmd, StoreStage, PlaceHolder
  <2>2. Allowed(s)
    <3>1. req'[s] = req[s] /\ obj'[s] = obj[s] /\ hist'[s] = hist[s]
      BY <1>2 DEF StorePlaceHolder, Goto, StoreCmd, StoreStage, PlaceHolder
    <3>2. CASE pc[s] = "store1"
      <4>1. pc'[s] = "store2" /\ rec[s] = NoRecord /\ rec'[s] = PlaceHolder(s)
        BY <1>2, <3>2 DEF StorePlaceHolder, Goto, StoreCmd, StoreStage, Unregistered, Stored
      <4>2. Status(s) = "none" /\ Status(s)' = "creating"
        BY <4>1 DEF Status, NoRecord, PlaceHolder
      <4>3. PhaseOf(s) = "new" /\ PhaseOf(s)' = "creating"
        BY <3>2, <4>1, PhaseAt, PhaseAfter, Zenon DEF Underway
      <4> QED  BY <3>1, <4>2, <4>3, KeepsObject, KeepsStray, Zenon DEF Allowed
    <3>3. CASE pc[s] # "store1"
      <4>1. rec'[s] = rec[s]
        BY <1>2, <3>3 DEF StorePlaceHolder, Goto, StoreCmd, StoreStage, PlaceHolder
      <4>2. Onward(s)
        BY <1>2, <3>3 DEF Onward, Underway, StorePlaceHolder, Goto, StoreCmd, StoreStage,
            PlaceHolder
      <4> QED  BY <3>1, <4>1, <4>2, OnwardAllowed, KeepsStatus, KeepsObject, KeepsStray, Zenon
    <3> QED  BY <3>2, <3>3, Zenon
  <2> QED  BY <2>1, <2>2, OneSession, Zenon
<1>3. CASE StorePlaceHolderFails(s)
  <2>1. \A t \in Sessions \ {s} : Untouched(t)
    BY <1>3, Zenon DEF Untouched, StorePlaceHolderFails, Move, Goto
  <2>2. Allowed(s)
    <3>1. rec'[s] = rec[s] /\ req'[s] = req[s] /\ obj'[s] = obj[s] /\ hist'[s] = hist[s]
      BY <1>3 DEF StorePlaceHolderFails, Move, Goto
    <3>2. Onward(s)
      BY <1>3, Zenon DEF Onward, Underway, StoreStages, CreateStages, RollbackStages,
          StorePlaceHolderFails, Move, Goto
    <3> QED  BY <3>1, <3>2, OnwardAllowed, KeepsStatus, KeepsObject, KeepsStray, Zenon
  <2> QED  BY <2>1, <2>2, OneSession, Zenon
<1>4. CASE CreateK8sResources(s)
  <2>1. \A t \in Sessions \ {s} : Untouched(t)
    BY <1>4 DEF Untouched, CreateK8sResources, Goto
  <2>2. Allowed(s)
    <3>1. rec'[s] = rec[s] /\ hist'[s] = hist[s]
      BY <1>4, Zenon DEF CreateK8sResources, Goto
    <3>2. Onward(s)
      BY <1>4, Zenon DEF Onward, Underway, CreateK8sResources, Goto
    <3>3. req[s] = "none" /\ req'[s] = "sent"
      BY <1>4 DEF Bookkeeping, Unsent, CreateK8sResources, Goto
    <3>4. SameObject(s)
      BY <3>3, Zenon DEF SameObject, ObjectOf
    <3> QED  BY <3>1, <3>2, <3>4, OnwardAllowed, KeepsStatus, KeepsStray, Zenon
  <2> QED  BY <2>1, <2>2, OneSession, Zenon
<1>5. CASE CreateSucceeds(s)
  <2>1. \A t \in Sessions \ {s} : Untouched(t)
    BY <1>5, Zenon DEF Untouched, CreateSucceeds, Move, Goto
  <2>2. Allowed(s)
    <3>1. rec'[s] = rec[s] /\ req'[s] = req[s] /\ obj'[s] = obj[s] /\ hist'[s] = hist[s]
      BY <1>5 DEF CreateSucceeds, Move, Goto
    <3>2. Onward(s)
      BY <1>5, Zenon DEF Onward, Underway, StoreStages, CreateStages, RollbackStages, CreateSucceeds,
          Move, Goto
    <3> QED  BY <3>1, <3>2, OnwardAllowed, KeepsStatus, KeepsObject, KeepsStray, Zenon
  <2> QED  BY <2>1, <2>2, OneSession, Zenon
<1>6. CASE CreateFails(s)
  <2>1. \A t \in Sessions \ {s} : Untouched(t)
    BY <1>6, Zenon DEF Untouched, CreateFails, Goto
  <2>2. Allowed(s)
    <3>1. rec'[s] = rec[s] /\ req'[s] = req[s] /\ obj'[s] = obj[s] /\ hist'[s] = hist[s]
      BY <1>6, Zenon DEF CreateFails, Goto
    <3>2. Onward(s)
      BY <1>6, Zenon DEF Onward, Underway, StoreStages, CreateStages, RollbackStages, CreateFails, Goto
    <3> QED  BY <3>1, <3>2, OnwardAllowed, KeepsStatus, KeepsObject, KeepsStray, Zenon
  <2> QED  BY <2>1, <2>2, OneSession, Zenon
<1>7. CASE WaitForCreatedSandbox(s)
  <2>1. \A t \in Sessions \ {s} : Untouched(t)
    BY <1>7 DEF Untouched, WaitForCreatedSandbox, Goto
  <2>2. Allowed(s)
    <3>1. rec'[s] = rec[s] /\ req'[s] = req[s] /\ obj'[s] = obj[s] /\ hist'[s] = hist[s]
      BY <1>7 DEF WaitForCreatedSandbox, Goto
    <3>2. Onward(s)
      BY <1>7 DEF Onward, Underway, StoreStages, CreateStages, RollbackStages,
          WaitForCreatedSandbox, Goto
    <3> QED  BY <3>1, <3>2, OnwardAllowed, KeepsStatus, KeepsObject, KeepsStray, Zenon
  <2> QED  BY <2>1, <2>2, OneSession, Zenon
<1>8. CASE WaitFails(s)
  <2>1. \A t \in Sessions \ {s} : Untouched(t)
    BY <1>8 DEF Untouched, WaitFails, Goto
  <2>2. Allowed(s)
    <3>1. rec'[s] = rec[s] /\ req'[s] = req[s] /\ obj'[s] = obj[s] /\ hist'[s] = hist[s]
      BY <1>8 DEF WaitFails, Goto
    <3>2. Onward(s)
      BY <1>8 DEF Onward, Underway, StoreStages, CreateStages, RollbackStages, WaitFails, Goto
    <3> QED  BY <3>1, <3>2, OnwardAllowed, KeepsStatus, KeepsObject, KeepsStray, Zenon
  <2> QED  BY <2>1, <2>2, OneSession, Zenon
<1>9. CASE VerifySandbox(s)
  <2>1. \A t \in Sessions \ {s} : Untouched(t)
    BY <1>9, Zenon DEF Untouched, VerifySandbox, Move, Goto
  <2>2. Allowed(s)
    <3>1. rec'[s] = rec[s] /\ req'[s] = req[s] /\ obj'[s] = obj[s] /\ hist'[s] = hist[s]
      BY <1>9 DEF VerifySandbox, Move, Goto
    <3>2. Onward(s)
      BY <1>9 DEF Onward, Underway, StoreStages, CreateStages, RollbackStages, VerifySandbox,
          Move, Goto
    <3> QED  BY <3>1, <3>2, OnwardAllowed, KeepsStatus, KeepsObject, KeepsStray, Zenon
  <2> QED  BY <2>1, <2>2, OneSession, Zenon
<1>10. CASE VerifyFails(s)
  <2>1. \A t \in Sessions \ {s} : Untouched(t)
    BY <1>10 DEF Untouched, VerifyFails, Move, Goto
  <2>2. Allowed(s)
    <3>1. rec'[s] = rec[s] /\ req'[s] = req[s] /\ obj'[s] = obj[s] /\ hist'[s] = hist[s]
      BY <1>10 DEF VerifyFails, Move, Goto
    <3>2. Onward(s)
      BY <1>10, Zenon DEF Onward, Underway, StoreStages, CreateStages, RollbackStages, VerifyFails,
          Move, Goto
    <3> QED  BY <3>1, <3>2, OnwardAllowed, KeepsStatus, KeepsObject, KeepsStray, Zenon
  <2> QED  BY <2>1, <2>2, OneSession, Zenon
<1>11. CASE UpdateRecord(s)
  <2>1. \A t \in Sessions \ {s} : Untouched(t)
    BY <1>11 DEF Untouched, UpdateRecord, Goto, UpdateSandbox
  <2>2. Allowed(s)
    <3>1. req'[s] = req[s] /\ obj'[s] = obj[s] /\ hist'[s] = hist[s]
      BY <1>11, Zenon DEF UpdateRecord
    <3>2. PhaseOf(s) = "creating" /\ PhaseOf(s)' = "active"
      BY <1>11, PhaseAt, PhaseAfter, Zenon DEF UpdateRecord, Goto, Underway, RollbackStages
    <3>3. Stored(s) /\ rec'[s] = StoreCacheInfo(s)
      BY <1>11, SMTT(20) DEF UpdateRecord, UpdateSandbox
    <3>4. Status(s) # "none" /\ Status(s)' = "ready"
      BY StoredStatus, WrittenStatus, <3>3, Zenon
    <3>5. ObjectOf(s) # "none"
      BY <1>11 DEF ObjectOf, Bookkeeping, UpdateRecord
    <3> QED  BY <3>1, <3>2, <3>4, <3>5, KeepsObject, KeepsStray, Zenon DEF Allowed
  <2> QED  BY <2>1, <2>2, OneSession, Zenon
<1>12. CASE UpdateRecordFails(s)
  <2>1. \A t \in Sessions \ {s} : Untouched(t)
    BY <1>12 DEF Untouched, UpdateRecordFails, Goto, UpdateSandbox
  <2>2. Allowed(s)
    <3>1. req'[s] = req[s] /\ obj'[s] = obj[s] /\ hist'[s] = hist[s]
      BY <1>12 DEF UpdateRecordFails
    <3>2. CASE UpdateSandbox(s, StoreCacheInfo(s))
      <4>1. PhaseOf(s) = "creating" /\ PhaseOf(s)' = "undoing"
        BY <1>12, PhaseAt, PhaseAfter, Zenon DEF UpdateRecordFails, Goto, Underway, RollbackStages
      <4>2. Stored(s) /\ rec'[s] = StoreCacheInfo(s)
        BY <3>2, Zenon DEF UpdateSandbox
      <4>3. Status(s) # "none" /\ Status(s)' = "ready"
        BY StoredStatus, WrittenStatus, <4>2, Zenon
      <4>4. ObjectOf(s) # "none"
        BY <1>12, Zenon DEF ObjectOf, Bookkeeping, UpdateRecordFails
      <4> QED  BY <3>1, <4>1, <4>3, <4>4, KeepsObject, KeepsStray, Zenon DEF Allowed
    <3>3. CASE UNCHANGED storeVars
      <4>1. Onward(s)
        BY <1>12 DEF Onward, Underway, RollbackStages, UpdateRecordFails, Goto
      <4> QED  BY <3>1, <3>3, <4>1, OnwardAllowed, KeepsStatus, KeepsObject, KeepsStray, Zenon
    <3> QED  BY <1>12, <3>2, <3>3, Zenon DEF UpdateRecordFails
  <2> QED  BY <2>1, <2>2, OneSession, Zenon
<1> QED  BY <1>1, <1>2, <1>3, <1>4, <1>5, <1>6, <1>7, <1>8, <1>9, <1>10, <1>11,
    <1>12 DEF CreateStep

\* The steps of its rollback.
LEMMA RollbackAllowed ==
    ASSUME TypeOK, Bookkeeping, LeakInv, Unregistered, NEW s \in Sessions, RollbackStep(s)
    PROVE  \A t \in Sessions : Allowed(t)
<1> DEFINE AllAllowed == \A t \in Sessions : Allowed(t)
<1> USE DEF TypeOK, StoreTypeOK, vars, storeVars, k8sVars, createVars, request, deleteVars,
            gcVars, notCreate, notGC
<1>1. CASE RollbackObject(s)
  <2>1. \A t \in Sessions \ {s} : Untouched(t)
    BY <1>1 DEF Untouched, RollbackObject, Goto, DeleteObject
  <2>2. Allowed(s)
    <3>1. rec'[s] = rec[s] /\ hist'[s] = hist[s] /\ req'[s] = req[s] /\ obj'[s] = "none"
      BY <1>1 DEF RollbackObject, Goto, DeleteObject
    <3>2. SamePhase(s)
      BY <1>1, PhaseAt, PhaseAfter, Zenon DEF SamePhase, RollbackStages, RollbackObject, Goto,
          DeleteObject
    <3> QED  BY <3>1, <3>2, ReleaseAllowed, KeepsStatus, KeepsStray, Zenon
  <2> QED  BY <2>1, <2>2, OneSession, Zenon
<1>2. CASE RollbackObjectFails(s)
  <2>1. \A t \in Sessions \ {s} : Untouched(t)
    BY <1>2, Zenon DEF Untouched, RollbackObjectFails, Goto, Note
  <2>2. Allowed(s)
    <3>1. rec'[s] = rec[s] /\ req'[s] = req[s] /\ obj'[s] = obj[s] /\ "rollbackFailed" \in hist'[s]
      BY <1>2 DEF RollbackObjectFails, Goto, Note
    <3>2. PhaseOf(s) = "undoing" /\ SamePhase(s)
      BY <1>2, PhaseAt, PhaseAfter, Zenon DEF SamePhase, RollbackStages, RollbackObjectFails, Goto, Note
    <3>3. Stray(s)'
      BY <3>1, HoleMakesStray, Zenon DEF Holes
    <3> QED  BY <3>1, <3>2, <3>3, KeepsStatus, KeepsObject, Zenon DEF Allowed
  <2> QED  BY <2>1, <2>2, OneSession, Zenon
<1>3. CASE RollbackStore(s)
  <2>1. \A t \in Sessions \ {s} : Untouched(t)
    BY <1>3, ZenonT(40) DEF Untouched, RollbackStore, Goto, DeleteCmd, RollbackStage
  <2>2. Allowed(s)
    <3>1. req'[s] = req[s] /\ obj'[s] = obj[s] /\ hist'[s] = hist[s]
      BY <1>3, Zenon DEF RollbackStore, Goto, DeleteCmd, RollbackStage
    <3>2. CASE pc[s] = "rb1"
      <4>1. pc'[s] = "rb2" /\ rec'[s] = NoRecord
        BY <1>3, <3>2, SMTT(20) DEF RollbackStore, Goto, DeleteCmd, RollbackStage
      <4>2. PhaseOf(s) = "undoing" /\ SamePhase(s)
        BY <3>2, <4>1, PhaseAt, PhaseAfter, Zenon DEF SamePhase, RollbackStages
      <4>3. obj[s] # "none" => Stray(s)
        BY <3>2 DEF LeakInv, Clean, Stray
      <4> QED  BY <3>1, <4>1, <4>2, <4>3, ForgetAllowed, KeepsObject, KeepsStray, Zenon
    <3>3. CASE pc[s] # "rb1"
      <4>1. rec'[s] = rec[s]
        BY <1>3, <3>3 DEF RollbackStore, Goto, DeleteCmd, RollbackStage
      <4>2. Onward(s)
        BY <1>3, <3>3 DEF Onward, RollbackStages, RollbackStore, Goto, DeleteCmd, RollbackStage
      <4> QED  BY <3>1, <4>1, <4>2, OnwardAllowed, KeepsStatus, KeepsObject, KeepsStray, Zenon
    <3> QED  BY <3>2, <3>3, Zenon
  <2> QED  BY <2>1, <2>2, OneSession, Zenon
<1>4. CASE RollbackStoreFails(s)
  <2>1. \A t \in Sessions \ {s} : Untouched(t)
    BY <1>4 DEF Untouched, RollbackStoreFails, Move, Goto
  <2>2. Allowed(s)
    <3>1. rec'[s] = rec[s] /\ req'[s] = req[s] /\ obj'[s] = obj[s] /\ hist'[s] = hist[s]
      BY <1>4 DEF RollbackStoreFails, Move, Goto
    <3>2. Onward(s)
      BY <1>4, Zenon DEF Onward, Underway, StoreStages, CreateStages, RollbackStages,
          RollbackStoreFails, Move, Goto
    <3> QED  BY <3>1, <3>2, OnwardAllowed, KeepsStatus, KeepsObject, KeepsStray, Zenon
  <2> QED  BY <2>1, <2>2, OneSession, Zenon
<1> QED  BY <1>1, <1>2, <1>3, <1>4 DEF RollbackStep

\* The steps of the delete handler.
LEMMA DeleteAllowed ==
    ASSUME TypeOK, Bookkeeping, LeakInv, Unregistered, NEW s \in Sessions, DeleteStep(s)
    PROVE  \A t \in Sessions : Allowed(t)
<1> DEFINE AllAllowed == \A t \in Sessions : Allowed(t)
<1> USE DEF TypeOK, StoreTypeOK, vars, storeVars, k8sVars, createVars, request, deleteVars,
            gcVars, notCreate, notGC
<1>1. CASE HandleDeleteSandbox(s)
  <2>1. \A t \in Sessions : Untouched(t)
    BY <1>1, Zenon DEF Untouched, HandleDeleteSandbox
  <2> QED  BY <2>1, UntouchedAllowed, Zenon
<1>2. CASE DeleteHandlerObject(s)
  <2>1. \A t \in Sessions \ {s} : Untouched(t)
    BY <1>2, Zenon DEF Untouched, DeleteHandlerObject, DeleteObject, Note
  <2>2. Allowed(s)
    <3>1. /\ pc'[s] = pc[s] /\ rec'[s] = rec[s] /\ req'[s] = req[s] /\ obj'[s] = "none"
          /\ hist'[s] = hist[s] \cup {"reclaimed"}
      BY <1>2 DEF Bookkeeping, DeleteHandlerObject, DeleteObject, Note
    <3> QED  BY <3>1, ReleaseAllowed, KeepsPhase, KeepsStatus, ReclaimedKeepsStray, Zenon
  <2> QED  BY <2>1, <2>2, OneSession, Zenon
<1>3. CASE DeleteHandlerObjectFails(s)
  <2>1. \A t \in Sessions \ {s} : Untouched(t)
    BY <1>3, ZenonT(30) DEF Untouched, DeleteHandlerObjectFails, DeleteObject, Note
  <2>2. Allowed(s)
    <3>1. CASE DeleteObject(s, dname[s]) /\ Note(s, "reclaimed")
      <4>1. /\ pc'[s] = pc[s] /\ rec'[s] = rec[s] /\ req'[s] = req[s] /\ obj'[s] = "none"
            /\ hist'[s] = hist[s] \cup {"reclaimed"}
        BY <1>3, <3>1 DEF Bookkeeping, DeleteHandlerObjectFails, DeleteObject, Note
      <4> QED  BY <4>1, ReleaseAllowed, KeepsPhase, KeepsStatus, ReclaimedKeepsStray, Zenon
    <3>2. CASE UNCHANGED <<k8sVars, hist>>
      <4>1. Untouched(s)
        BY <1>3, <3>2 DEF Untouched, DeleteHandlerObjectFails
      <4> QED  BY <4>1, UntouchedAllowed, Zenon
    <3> QED  BY <1>3, <3>1, <3>2, Zenon DEF DeleteHandlerObjectFails
  <2> QED  BY <2>1, <2>2, OneSession, Zenon
<1>4. CASE DeleteHandlerStore(s)
  <2>1. \A t \in Sessions \ {s} : Untouched(t)
    BY <1>4, ZenonT(30) DEF Untouched, DeleteHandlerStore, DeleteCmd, DeleteStage
  <2>2. Allowed(s)
    <3>1. pc'[s] = pc[s] /\ req'[s] = req[s] /\ obj'[s] = obj[s] /\ hist'[s] = hist[s]
      BY <1>4 DEF DeleteHandlerStore
    <3>2. CASE dpc[s] = "del1"
      <4>1. pc[s] = "ok" /\ rec'[s] = NoRecord
        BY <1>4, <3>2 DEF Bookkeeping, DeleteHandlerStore, DeleteCmd, DeleteStage
      <4>2. PhaseOf(s) = "active"
        BY <4>1, PhaseAt, Zenon
      <4>3. obj[s] # "none" => Stray(s)
        BY <3>2, Zenon DEF LeakInv, Clean, Stray
      <4> QED  BY <3>1, <4>1, <4>2, <4>3, ForgetAllowed, KeepsPhase, KeepsObject, KeepsStray,
          Zenon
    <3>3. CASE dpc[s] # "del1"
      <4>1. Untouched(s)
        BY <1>4, <3>1, <3>3 DEF Untouched, DeleteHandlerStore, DeleteCmd, DeleteStage
      <4> QED  BY <4>1, UntouchedAllowed, Zenon
    <3> QED  BY <3>2, <3>3, Zenon
  <2> QED  BY <2>1, <2>2, OneSession, Zenon
<1>5. CASE DeleteHandlerStoreFails(s)
  <2>1. \A t \in Sessions : Untouched(t)
    BY <1>5, Zenon DEF Untouched, DeleteHandlerStoreFails
  <2> QED  BY <2>1, UntouchedAllowed, Zenon
<1> QED  BY <1>1, <1>2, <1>3, <1>4, <1>5 DEF DeleteStep

\* The steps of Kubernetes and the reconciler.
LEMMA KubernetesAllowed ==
    ASSUME TypeOK, Bookkeeping, LeakInv, Unregistered, NEW s \in Sessions, KubernetesStep(s)
    PROVE  \A t \in Sessions : Allowed(t)
<1> DEFINE AllAllowed == \A t \in Sessions : Allowed(t)
<1> USE DEF TypeOK, StoreTypeOK, vars, storeVars, k8sVars, createVars, request, deleteVars,
            gcVars, notCreate, notGC
<1>1. CASE ApiServerCreates(s)
  <2>1. \A t \in Sessions \ {s} : Untouched(t)
    BY <1>1, Zenon DEF Untouched, ApiServerCreates
  <2>2. Allowed(s)
    <3>1. /\ pc'[s] = pc[s] /\ rec'[s] = rec[s]
          /\ req[s] = "sent" /\ req'[s] = "applied" /\ obj'[s] = "pending"
      BY <1>1, Zenon DEF ApiServerCreates
    <3>2. ObjectOf(s) = "none" /\ ObjectOf(s)' = "held"
      BY <3>1, Zenon DEF ObjectOf
    <3>3. CASE pc[s] = "sent"
      <4>1. PhaseOf(s) = "creating"
        BY <3>3, PhaseAt, Zenon DEF Underway
      <4>2. Stray(s) \/ Stored(s)
        BY <3>3, Zenon DEF LeakInv, Clean, Findable, Stray
      <4>3. Stored(s) => Status(s) # "none"
        BY Zenon, StoredStatus
      <4>4. SameStray(s)
        BY <1>1, <3>3, KeepsStray, Zenon DEF ApiServerCreates
      <4> QED  BY <3>1, <3>2, <4>1, <4>2, <4>3, <4>4, KeepsPhase, KeepsStatus, Zenon DEF Allowed
    <3>4. CASE pc[s] # "sent"
      <4>1. pc[s] \in RollbackStages \cup {"failed", "crashed"}
        BY <3>1, <3>4, Zenon DEF Bookkeeping, Unsent, InProgress, Answered, CreateStages, StoreStages
      <4>2. PhaseOf(s) \in {"undoing", "over"}
        BY <4>1, PhaseAt, Zenon
      <4>3. "lateCreate" \in hist'[s]
        BY <1>1, <3>4, Zenon DEF ApiServerCreates
      <4>4. Stray(s)'
        BY <4>3, HoleMakesStray, Zenon DEF Holes
      <4> QED  BY <3>1, <3>2, <4>2, <4>4, KeepsPhase, KeepsStatus, Zenon DEF Allowed
    <3> QED  BY <3>3, <3>4, Zenon
  <2> QED  BY <2>1, <2>2, OneSession, Zenon
<1>2. CASE ApiServerRejects(s)
  <2>1. \A t \in Sessions \ {s} : Untouched(t)
    BY <1>2 DEF Untouched, ApiServerRejects
  <2>2. Allowed(s)
    <3>1. pc'[s] = pc[s] /\ rec'[s] = rec[s] /\ hist'[s] = hist[s]
      BY <1>2, Zenon DEF ApiServerRejects
    <3>2. SameObject(s)
      BY <1>2, Zenon DEF SameObject, ObjectOf, ApiServerRejects
    <3> QED  BY <3>1, <3>2, KeepsPhase, KeepsStatus, KeepsStray, Zenon DEF Allowed
  <2> QED  BY <2>1, <2>2, OneSession, Zenon
<1>3. CASE SandboxBecomesReady(s)
  <2>1. \A t \in Sessions \ {s} : Untouched(t)
    BY <1>3, Zenon DEF Untouched, SandboxBecomesReady
  <2>2. Allowed(s)
    <3>1. pc'[s] = pc[s] /\ rec'[s] = rec[s] /\ hist'[s] = hist[s]
      BY <1>3, Zenon DEF SandboxBecomesReady
    <3>2. SameObject(s)
      BY <1>3, Zenon DEF SameObject, ObjectOf, SandboxBecomesReady
    <3> QED  BY <3>1, <3>2, KeepsPhase, KeepsStatus, KeepsStray, Zenon DEF Allowed
  <2> QED  BY <2>1, <2>2, OneSession, Zenon
<1>4. CASE ShutdownTimePasses(s)
  <2>1. \A t \in Sessions \ {s} : Untouched(t)
    BY <1>4, Zenon DEF Untouched, ShutdownTimePasses
  <2>2. Allowed(s)
    <3>1. /\ pc'[s] = pc[s] /\ rec'[s] = rec[s] /\ req'[s] = req[s] /\ obj'[s] = "none"
          /\ hist'[s] = hist[s]
      BY <1>4, Zenon DEF ShutdownTimePasses
    <3> QED  BY <3>1, ReleaseAllowed, KeepsPhase, KeepsStatus, KeepsStray, Zenon
  <2> QED  BY <2>1, <2>2, OneSession, Zenon
<1>5. CASE Reconcile(s)
  <2>1. \A t \in Sessions : Untouched(t)
    BY <1>5, Zenon DEF Untouched, Reconcile
  <2> QED  BY <2>1, UntouchedAllowed, Zenon
<1> QED  BY <1>1, <1>2, <1>3, <1>4, <1>5 DEF KubernetesStep

\* The steps of the collector.
LEMMA GCAllowed ==
    ASSUME TypeOK, Bookkeeping, LeakInv, Unregistered, GCStep
    PROVE  \A t \in Sessions : Allowed(t)
<1> DEFINE AllAllowed == \A t \in Sessions : Allowed(t)
<1> USE DEF TypeOK, StoreTypeOK, vars, storeVars, k8sVars, createVars, request, deleteVars,
            gcVars, notCreate, notGC
<1>1. ASSUME NEW s \in Sessions, GCDeleteObject(s) PROVE AllAllowed
  <2>1. \A t \in Sessions \ {s} : Untouched(t)
    BY <1>1, Zenon DEF Untouched, GCDeleteObject, DeleteObject, Note
  <2>2. Allowed(s)
    <3>1. /\ pc'[s] = pc[s] /\ rec'[s] = rec[s] /\ req'[s] = req[s] /\ obj'[s] = "none"
          /\ hist'[s] = hist[s] \cup {IF pc[s] \in CreateStages THEN "collectedEarly" ELSE "reclaimed"}
      BY <1>1, SMTT(20) DEF Bookkeeping, GCDeleteObject, DeleteObject, Note
    <3>2. pc[s] \notin {"new", "store1"}
      BY <1>1, Zenon DEF Bookkeeping, Unregistered, GCDeleteObject
    <3>3. CASE pc[s] \in CreateStages
      <4>1. PhaseOf(s) = "creating"
        BY <3>2, <3>3, PhaseAt, Zenon DEF CreateStages, StoreStages, Underway
      <4>2. Stray(s)'
        BY <3>1, <3>3, EarlyMakesStray, Zenon
      <4> QED  BY <3>1, <4>1, <4>2, ReleaseAllowed, KeepsPhase, KeepsStatus, Zenon
    <3>4. CASE pc[s] \notin CreateStages
      BY <3>1, <3>4, ReleaseAllowed, KeepsPhase, KeepsStatus, ReclaimedKeepsStray, Zenon
    <3> QED  BY <3>3, <3>4, Zenon
  <2> QED  BY <2>1, <2>2, OneSession, Zenon
<1>2. ASSUME NEW s \in Sessions, GCDeleteObjectFails(s) PROVE AllAllowed
  <2>1. \A t \in Sessions \ {s} : Untouched(t)
    BY <1>2, ZenonT(30) DEF Untouched, GCDeleteObjectFails, DeleteObject, Note
  <2>2. Allowed(s)
    <3>1. CASE /\ DeleteObject(s, gcName[s])
               /\ Note(s, IF pc[s] \in CreateStages THEN "collectedEarly" ELSE "reclaimed")
      <4>1. /\ pc'[s] = pc[s] /\ rec'[s] = rec[s] /\ req'[s] = req[s] /\ obj'[s] = "none"
            /\ hist'[s] = hist[s] \cup {IF pc[s] \in CreateStages THEN "collectedEarly" ELSE "reclaimed"}
        BY <1>2, <3>1, SMTT(20) DEF Bookkeeping, GCDeleteObjectFails, DeleteObject, Note
      <4>2. pc[s] \notin {"new", "store1"}
        BY <1>2, Zenon DEF Bookkeeping, Unregistered, GCDeleteObjectFails
      <4>3. CASE pc[s] \in CreateStages
        <5>1. PhaseOf(s) = "creating"
          BY <4>2, <4>3, PhaseAt DEF CreateStages, StoreStages, Underway
        <5>2. Stray(s)'
          BY <4>1, <4>3, EarlyMakesStray, Zenon
        <5> QED  BY <4>1, <5>1, <5>2, ReleaseAllowed, KeepsPhase, KeepsStatus, Zenon
      <4>4. CASE pc[s] \notin CreateStages
        BY <4>1, <4>4, ReleaseAllowed, KeepsPhase, KeepsStatus, ReclaimedKeepsStray, Zenon
      <4> QED  BY <4>3, <4>4
    <3>2. CASE UNCHANGED <<k8sVars, hist>>
      <4>1. Untouched(s)
        BY <1>2, <3>2, Zenon DEF Untouched, GCDeleteObjectFails
      <4> QED  BY <4>1, UntouchedAllowed, Zenon
    <3> QED  BY <1>2, <3>1, <3>2, Zenon DEF GCDeleteObjectFails
  <2> QED  BY <2>1, <2>2, OneSession, Zenon
<1>3. ASSUME NEW s \in Sessions, GCDeleteRecord(s) PROVE AllAllowed
  <2>1. \A t \in Sessions \ {s} : Untouched(t)
    BY <1>3, Zenon DEF Untouched, GCDeleteRecord, DeleteCmd, GCStage
  <2>2. Allowed(s)
    <3>1. pc'[s] = pc[s] /\ req'[s] = req[s] /\ obj'[s] = obj[s] /\ hist'[s] = hist[s]
      BY <1>3, Zenon DEF GCDeleteRecord
    <3>2. CASE gcpc = "gc1"
      <4>1. rec'[s] = NoRecord
        BY <1>3, <3>2 DEF GCDeleteRecord, DeleteCmd, GCStage
      <4>2. Stored(s) => PhaseOf(s) # "new"
        <5>1. Stored(s) => pc[s] \notin {"new", "store1"}
          BY Zenon DEF Bookkeeping, Unregistered
        <5> QED  BY <5>1 DEF PhaseOf
      <4>3. obj[s] # "none" \/ pc[s] \in {"new"} \cup CreateStages => Stray(s)
        BY <1>3, <3>2, Zenon DEF LeakInv, Clean, Collecting, Stray, GCDeleteRecord
      <4>4. PhaseOf(s) = "creating" => pc[s] \in CreateStages
        BY DEF PhaseOf
      <4> QED
        BY <3>1, <4>1, <4>2, <4>3, <4>4, ForgetAllowed, KeepsPhase, KeepsObject, KeepsStray, Zenon
    <3>3. CASE gcpc # "gc1"
      <4>1. Untouched(s)
        BY <1>3, <3>1, <3>3 DEF Untouched, GCDeleteRecord, DeleteCmd, GCStage
      <4> QED  BY <4>1, UntouchedAllowed, Zenon
    <3> QED  BY <3>2, <3>3, Zenon
  <2> QED  BY <2>1, <2>2, OneSession, Zenon
<1>4. ASSUME GCListInactive PROVE AllAllowed
  <2>1. \A t \in Sessions : Untouched(t)
    BY <1>4, Zenon DEF Untouched, GCListInactive
  <2> QED  BY <2>1, UntouchedAllowed, Zenon
<1>5. ASSUME GCLoadInactive PROVE AllAllowed
  <2>1. \A t \in Sessions : Untouched(t)
    BY <1>5, Zenon DEF Untouched, GCLoadInactive
  <2> QED  BY <2>1, UntouchedAllowed, Zenon
<1>6. ASSUME GCListInactiveFails PROVE AllAllowed
  <2>1. \A t \in Sessions : Untouched(t)
    BY <1>6, Zenon DEF Untouched, GCListInactiveFails
  <2> QED  BY <2>1, UntouchedAllowed, Zenon
<1>7. ASSUME GCListExpired PROVE AllAllowed
  <2>1. \A t \in Sessions : Untouched(t)
    BY <1>7, Zenon DEF Untouched, GCListExpired
  <2> QED  BY <2>1, UntouchedAllowed, Zenon
<1>8. ASSUME GCLoadExpired PROVE AllAllowed
  <2>1. \A t \in Sessions : Untouched(t)
    BY <1>8, Zenon DEF Untouched, GCLoadExpired
  <2> QED  BY <2>1, UntouchedAllowed, Zenon
<1>9. ASSUME GCListExpiredFails PROVE AllAllowed
  <2>1. \A t \in Sessions : Untouched(t)
    BY <1>9, Zenon DEF Untouched, GCListExpiredFails
  <2> QED  BY <2>1, UntouchedAllowed, Zenon
<1>10. ASSUME GCDeleteRecordFails PROVE AllAllowed
  <2>1. \A t \in Sessions : Untouched(t)
    BY <1>10, Zenon DEF Untouched, GCDeleteRecordFails
  <2> QED  BY <2>1, UntouchedAllowed, Zenon
<1>11. ASSUME GCEnds PROVE AllAllowed
  <2>1. \A t \in Sessions : Untouched(t)
    BY <1>11, Zenon DEF Untouched, GCEnds
  <2> QED  BY <2>1, UntouchedAllowed, Zenon
<1>12. ASSUME GCBegins PROVE AllAllowed
  <2>1. \A t \in Sessions : Untouched(t)
    BY <1>12, Zenon DEF Untouched, GCBegins
  <2> QED  BY <2>1, UntouchedAllowed, Zenon
<1> QED
  BY <1>1, <1>2, <1>3, <1>4, <1>5, <1>6, <1>7, <1>8, <1>9, <1>10, <1>11, <1>12, Zenon DEF GCStep

LEMMA StepAllowed ==
    ASSUME TypeOK, Bookkeeping, LeakInv, Unregistered, [Next]_vars
    PROVE  \A t \in Sessions : Allowed(t)
<1> DEFINE AllAllowed == \A t \in Sessions : Allowed(t)
<1> USE DEF TypeOK, StoreTypeOK, vars, storeVars, k8sVars, createVars, request, deleteVars,
            gcVars, notCreate, notGC
<1>1. ASSUME NEW s \in Sessions, RouterTouches(s) PROVE AllAllowed
  <2>1. \A t \in Sessions : Untouched(t)
    BY <1>1, Zenon DEF Untouched, RouterTouches, UpdateSessionLastActivity
  <2> QED  BY <2>1, UntouchedAllowed, Zenon
<1>2. ASSUME Tick PROVE AllAllowed
  <2>1. \A t \in Sessions : Untouched(t)
    BY <1>2, Zenon DEF Untouched, Tick
  <2> QED  BY <2>1, UntouchedAllowed, Zenon
<1>3. ASSUME Crash PROVE AllAllowed
  <2> SUFFICES ASSUME NEW s \in Sessions PROVE Allowed(s)
    BY Zenon
  <2>1. rec'[s] = rec[s] /\ req'[s] = req[s] /\ obj'[s] = obj[s] /\ hist'[s] = hist[s]
    BY <1>3, Zenon DEF Crash
  <2>2. CASE pc[s] \in InProgress
    <3>1. Onward(s)
      BY <1>3, <2>2, Zenon DEF Crash, Onward, InProgress, Underway, StoreStages, CreateStages,
          RollbackStages
    <3> QED  BY <2>1, <3>1, OnwardAllowed, KeepsStatus, KeepsObject, KeepsStray, Zenon
  <2>3. CASE pc[s] \notin InProgress
    <3>1. Untouched(s)
      BY <1>3, <2>1, <2>3, Zenon DEF Crash, Untouched
    <3> QED  BY <3>1, UntouchedAllowed, Zenon
  <2> QED  BY <2>2, <2>3, Zenon
<1>4. CASE UNCHANGED vars
  <2>1. \A t \in Sessions : Untouched(t)
    BY <1>4, Zenon DEF Untouched
  <2> QED  BY <2>1, UntouchedAllowed, Zenon
<1> QED
  BY <1>1, <1>2, <1>3, <1>4, CreateAllowed, RollbackAllowed, DeleteAllowed, KubernetesAllowed,
     GCAllowed, Zenon DEF Next

-----------------------------------------------------------------------------
\* The initial states are initial states of SessionRegistry.
LEMMA RegistryInit == Init => Registry!Init
  BY DEF Init, StoreInit, NoRecord, PhaseOf, ObjectOf, Met, Holes, Registry!Init

\* Unregistered holds throughout.
LEMMA UnregisteredAlways == Spec => []Unregistered
<1>1. Init => Unregistered
  BY DEF Init, Unregistered
<1>2. IInv /\ Unregistered /\ [Next]_vars => Unregistered'
  BY UnregisteredStep DEF IInv
<1> QED  BY <1>1, <1>2, Invariance, PTL DEF Spec

(***************************************************************************)
(* createSandbox, its rollback, handleDeleteSandbox, the collector, the    *)
(* API server and crashes, in any interleaving, take every session through *)
(* the life that SessionRegistry promises.                                 *)
(***************************************************************************)
THEOREM Refinement == Spec => ImplementsRegistry
<1>1. IInv /\ Unregistered /\ [Next]_vars => [Registry!Next]_(Registry!vars)
  BY StepAllowed, AllowedIsStep DEF IInv
<1> QED
  BY <1>1, RegistryInit, Invariance, UnregisteredAlways, PTL DEF Spec, Registry!Spec,
      ImplementsRegistry

(***************************************************************************)
(* Every step of SessionRegistry is allowed for every session.             *)
(***************************************************************************)
LEMMA StepIsAllowed ==
    ASSUME NEW s \in Sessions, Registry!Step(s) \/ Registry!Same(s)
    PROVE  Allowed(s)
BY DEF Allowed, Stray, Status, SamePhase, SameStatus, SameObject, SameStray,
       Registry!Step, Registry!Same, Registry!Register, Registry!GiveUp, Registry!Allocate,
       Registry!Publish, Registry!Release, Registry!GoAstray, Registry!Forget, Registry!Keeps

(***************************************************************************)
(* The promise of SessionRegistry follows from its steps alone.            *)
(***************************************************************************)
LEMMA PromiseStep ==
    ASSUME Registry!Promise, [Registry!Next]_(Registry!vars)
    PROVE  Registry!Promise'
<1>1. CASE Registry!Next
  <2> SUFFICES ASSUME NEW s \in Sessions, Registry!Step(s) \/ Registry!Same(s)
               PROVE  /\ PhaseOf(s)' = "new" =>
                            Status(s)' = "none" /\ ObjectOf(s)' = "none" /\ ~Stray(s)'
                      /\ PhaseOf(s)' = "active" \/ Status(s)' = "ready" => ObjectOf(s)' # "none"
                      /\ Status(s)' = "none" /\ (PhaseOf(s)' = "creating" \/ ObjectOf(s)' = "held")
                            => Stray(s)'
    BY <1>1 DEF Registry!Next, Registry!Promise, Status, Stray
  <2>1. Allowed(s)
    BY StepIsAllowed
  <2>2. /\ PhaseOf(s) = "new" => Status(s) = "none" /\ ObjectOf(s) = "none" /\ ~Stray(s)
        /\ PhaseOf(s) = "active" \/ Status(s) = "ready" => ObjectOf(s) # "none"
        /\ Status(s) = "none" /\ (PhaseOf(s) = "creating" \/ ObjectOf(s) = "held") => Stray(s)
    BY DEF Registry!Promise, Status, Stray
  <2> QED  BY <2>1, <2>2 DEF Allowed, SamePhase, SameStatus, SameObject, SameStray
<1>2. CASE UNCHANGED Registry!vars
  BY <1>2 DEF Registry!vars, Registry!Promise
<1> QED  BY <1>1, <1>2

(***************************************************************************)
(* A session that may hold an object, or is about to get one, is in the    *)
(* registry or marked as stray, and an active one was given its object:    *)
(* the life that SessionRegistry describes keeps this, and so do the       *)
(* handlers, the collector and the cluster, which live it.                 *)
(***************************************************************************)
THEOREM PromiseKept == Spec => []Registry!Promise
<1>1. Registry!Init => Registry!Promise
  BY DEF Registry!Init, Registry!Promise
<1>2. Registry!Spec => []Registry!Promise
  BY <1>1, PromiseStep, PTL DEF Registry!Spec
<1> QED  BY <1>2, Refinement, PTL DEF ImplementsRegistry

(***************************************************************************)
(* No step of the handlers, the collector or the cluster takes a session   *)
(* back: not its creation, its record or its object.                       *)
(***************************************************************************)
THEOREM NeverBack == Spec => Registry!LivedOnce
<1>1. Registry!Next => Registry!Once
  <2> SUFFICES ASSUME NEW s \in Sessions, Registry!Step(s) \/ Registry!Same(s)
               PROVE  /\ PhaseOf(s) \in {"active", "over"} => PhaseOf(s)' = PhaseOf(s)
                      /\ PhaseOf(s) # "new" => PhaseOf(s)' # "new"
                      /\ PhaseOf(s) # "new" /\ Status(s) = "none" => Status(s)' = "none"
                      /\ ObjectOf(s) = "released" => ObjectOf(s)' = "released"
                      /\ ObjectOf(s) = "held" => ObjectOf(s)' # "none"
                      /\ Stray(s) => Stray(s)'
    BY DEF Registry!Next, Registry!Once, Status, Stray
  <2>1. Allowed(s)
    BY StepIsAllowed
  <2> QED  BY <2>1 DEF Allowed, SamePhase, SameStatus, SameObject, SameStray
<1> QED  BY <1>1, Refinement, PTL DEF Registry!Spec, Registry!LivedOnce, ImplementsRegistry
=============================================================================
