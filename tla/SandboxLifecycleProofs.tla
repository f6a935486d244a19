------------------------ MODULE SandboxLifecycleProofs ------------------------
(***************************************************************************)
(* Proofs about SandboxLifecycle.  For any set of sessions, any timeouts,  *)
(* any candidate limit and any choice of faults, the inductive invariant   *)
(* IInv holds, and the safety properties the runs check follow from it.    *)
(***************************************************************************)
EXTENDS SandboxLifecycleInvariant

(***************************************************************************)
(* Every step keeps every object reachable: by its record, by the request  *)
(* that still owns it, or by one of the recorded exceptions.               *)
(***************************************************************************)
LEMMA LeakStep == ASSUME TypeOK, TypeOK', Bookkeeping, LeakInv, [Next]_vars PROVE LeakInv'
<1>a. \A s \in Sessions : Clean(s)' => Clean(s)
  BY HistoryGrows DEF Clean, Met, Events
<1> USE <1>a DEF LeakInv, Collecting, Findable, Bookkeeping, Unsent, Stored,
           TypeOK, StoreTypeOK, SandboxInfo, NoRecord, Names, Kinds, Absent,
           StoreStages, CreateStages, RollbackStages, Answered, InProgress, Holes, Events,
           vars, storeVars, k8sVars, createVars, request, deleteVars, gcVars, notCreate, notGC
<1>1. ASSUME NEW s \in Sessions, HandleSandboxCreate(s) PROVE LeakInv'
  BY <1>1 DEF HandleSandboxCreate, Goto, ShutdownTime
<1>2. ASSUME NEW s \in Sessions, StorePlaceHolder(s) PROVE LeakInv'
  BY <1>2 DEF StorePlaceHolder, Stamps, Goto, StoreCmd, StoreStage, PlaceHolder
<1>3. ASSUME NEW s \in Sessions, StorePlaceHolderFails(s) PROVE LeakInv'
  BY <1>3 DEF StorePlaceHolderFails, Move, Goto
<1>4. ASSUME NEW s \in Sessions, CreateK8sResources(s) PROVE LeakInv'
  BY <1>4 DEF CreateK8sResources, Goto
<1>5. ASSUME NEW s \in Sessions, CreateSucceeds(s) PROVE LeakInv'
  BY <1>5 DEF CreateSucceeds, Move, Goto
<1>6. ASSUME NEW s \in Sessions, CreateFails(s) PROVE LeakInv'
  BY <1>6 DEF CreateFails, Goto
<1>7. ASSUME NEW s \in Sessions, WaitForCreatedSandbox(s) PROVE LeakInv'
  BY <1>7 DEF WaitForCreatedSandbox, Goto
<1>8. ASSUME NEW s \in Sessions, WaitFails(s) PROVE LeakInv'
  BY <1>8 DEF WaitFails, Goto
<1>9. ASSUME NEW s \in Sessions, VerifySandbox(s) PROVE LeakInv'
  BY <1>9 DEF VerifySandbox, Move, Goto
<1>10. ASSUME NEW s \in Sessions, VerifyFails(s) PROVE LeakInv'
  BY <1>10 DEF VerifyFails, Move, Goto
<1>11. ASSUME NEW s \in Sessions, UpdateRecord(s) PROVE LeakInv'
  BY <1>11 DEF UpdateRecord, Goto, UpdateSandbox, StoreCacheInfo, BuildSandboxInfo, PlaceHolder
<1>12. ASSUME NEW s \in Sessions, UpdateRecordFails(s) PROVE LeakInv'
  BY <1>12 DEF UpdateRecordFails, Goto, UpdateSandbox, StoreCacheInfo, BuildSandboxInfo,
               PlaceHolder
<1>13. ASSUME NEW s \in Sessions, RollbackObject(s) PROVE LeakInv'
  BY <1>13 DEF RollbackObject, Goto, DeleteObject
<1>14. ASSUME NEW s \in Sessions, RollbackObjectFails(s) PROVE LeakInv'
  <2>1. ~Clean(s)'
    BY <1>14 DEF RollbackObjectFails, Note, Clean, Met
  <2> QED  BY <1>14, <2>1 DEF RollbackObjectFails, Goto
<1>15. ASSUME NEW s \in Sessions, RollbackStore(s) PROVE LeakInv'
  BY <1>15 DEF RollbackStore, Goto, DeleteCmd, RollbackStage
<1>16. ASSUME NEW s \in Sessions, RollbackStoreFails(s) PROVE LeakInv'
  BY <1>16 DEF RollbackStoreFails, Move, Goto
<1>17. ASSUME NEW s \in Sessions, HandleDeleteSandbox(s) PROVE LeakInv'
  BY <1>17 DEF HandleDeleteSandbox
<1>18. ASSUME NEW s \in Sessions, DeleteHandlerObject(s) PROVE LeakInv'
  BY <1>18 DEF DeleteHandlerObject, DeleteObject, Note
<1>19. ASSUME NEW s \in Sessions, DeleteHandlerObjectFails(s) PROVE LeakInv'
  BY <1>19 DEF DeleteHandlerObjectFails, DeleteObject, Note
<1>20. ASSUME NEW s \in Sessions, DeleteHandlerStore(s) PROVE LeakInv'
  BY <1>20, SMTT(30) DEF DeleteHandlerStore, DeleteCmd, DeleteStage
<1>21. ASSUME NEW s \in Sessions, DeleteHandlerStoreFails(s) PROVE LeakInv'
  BY <1>21 DEF DeleteHandlerStoreFails
<1>22. ASSUME NEW s \in Sessions, ApiServerCreates(s) PROVE LeakInv'
  <2>1. pc[s] # "sent" => ~Clean(s)'
    BY <1>22 DEF ApiServerCreates, Clean, Met
  <2> QED  BY <1>22, <2>1 DEF ApiServerCreates
<1>23. ASSUME NEW s \in Sessions, ApiServerRejects(s) PROVE LeakInv'
  BY <1>23 DEF ApiServerRejects
<1>24. ASSUME NEW s \in Sessions, SandboxBecomesReady(s) PROVE LeakInv'
  BY <1>24 DEF SandboxBecomesReady
<1>25. ASSUME NEW s \in Sessions, ShutdownTimePasses(s) PROVE LeakInv'
  BY <1>25 DEF ShutdownTimePasses
<1>26. ASSUME NEW s \in Sessions, Reconcile(s) PROVE LeakInv'
  BY <1>26, ZenonT(40) DEF Reconcile
<1>27. ASSUME NEW s \in Sessions, RouterTouches(s) PROVE LeakInv'
  <2>1. \A t \in Sessions : activityIdx[t] # Absent => activityIdx'[t] # Absent
    BY <1>27 DEF RouterTouches, Stamps, UpdateSessionLastActivity
  <2>2. UNCHANGED <<rec, expiryIdx, pc, obj, dpc, gcpc, gcCur, hist>>
    BY <1>27, Zenon DEF RouterTouches, UpdateSessionLastActivity
  <2> QED  BY <2>1, <2>2, Zenon DEF Clean
<1>28. ASSUME NEW s \in Sessions, GCDeleteObject(s) PROVE LeakInv'
  <2>1. pc[s] \in CreateStages => ~Clean(s)'
    BY <1>28 DEF GCDeleteObject, Note, Clean, Met
  <2> QED  BY <1>28, <2>1 DEF GCDeleteObject, DeleteObject
<1>29. ASSUME NEW s \in Sessions, GCDeleteObjectFails(s) PROVE LeakInv'
  <2>1. CASE DeleteObject(s, gcName[s]) /\ Note(s, IF pc[s] \in CreateStages THEN "collectedEarly" ELSE "reclaimed")
    <3>1. pc[s] \in CreateStages => ~Clean(s)'
      BY <2>1 DEF Note, Clean, Met
    <3> QED  BY <1>29, <2>1, <3>1 DEF GCDeleteObjectFails, DeleteObject
  <2>2. CASE UNCHANGED <<k8sVars, hist>>
    BY <1>29, <2>2 DEF GCDeleteObjectFails
  <2> QED  BY <1>29, <2>1, <2>2, Zenon DEF GCDeleteObjectFails
<1>30. ASSUME NEW s \in Sessions, GCDeleteRecord(s) PROVE LeakInv'
  BY <1>30 DEF GCDeleteRecord, DeleteCmd, GCStage
<1>31. CASE GCListInactive
  BY <1>31 DEF GCListInactive, Scores, RangeByScore, InRange
<1>32. CASE GCLoadInactive
  BY <1>32 DEF GCLoadInactive, NoScores, Load, Listed
<1>33. CASE GCListInactiveFails
  BY <1>33, Zenon DEF GCListInactiveFails, NoScores
<1>34. CASE GCListExpired
  BY <1>34, Zenon DEF GCListExpired, Scores, RangeByScore, InRange
<1>35. CASE GCLoadExpired
  BY <1>35 DEF GCLoadExpired, NoScores, Load, Listed
<1>36. CASE GCListExpiredFails
  BY <1>36 DEF GCListExpiredFails, NoScores
<1>37. CASE GCDeleteRecordFails
  BY <1>37, Zenon DEF GCDeleteRecordFails
<1>38. CASE GCEnds
  BY <1>38 DEF GCEnds
<1>39. CASE Crash
  BY <1>39, Zenon DEF Crash, NoScores
<1>40. CASE Tick
  BY <1>40, Zenon DEF Tick
<1>41. CASE UNCHANGED vars
  BY <1>41
<1>42. CASE GCBegins
  BY <1>42, Zenon DEF GCBegins
<1> QED
  BY <1>1, <1>2, <1>3, <1>4, <1>5, <1>6, <1>7, <1>8, <1>9, <1>10, <1>11, <1>12, <1>13, <1>14,
     <1>15, <1>16, <1>17, <1>18, <1>19, <1>20, <1>21, <1>22, <1>23, <1>24, <1>25, <1>26, <1>27,
     <1>28, <1>29, <1>30, <1>31, <1>32, <1>33, <1>34, <1>35, <1>36, <1>37, <1>38, <1>39, <1>40,
     <1>41, <1>42, ZenonT(40) DEF Next, CreateStep, RollbackStep, DeleteStep, KubernetesStep, GCStep

(***************************************************************************)
(* Every step keeps a session that was answered usable, or accounts for    *)
(* who took it away.                                                       *)
(***************************************************************************)
LEMMA UsableStep == ASSUME TypeOK, TypeOK', Bookkeeping, UsableInv, [Next]_vars PROVE UsableInv'
<1>a. \A s \in Sessions : Taken(s) => Taken(s)'
  BY HistoryGrows DEF Taken, Met, Events, Holes
<1> USE <1>a DEF UsableInv, ObjectUp, Collecting, Bookkeeping, Unsent, Stored,
           TypeOK, StoreTypeOK, SandboxInfo, NoRecord, Names, Kinds, Absent,
           StoreStages, CreateStages, RollbackStages, Answered, InProgress, Holes, Events,
           vars, storeVars, k8sVars, createVars, request, deleteVars, gcVars, notCreate, notGC
<1>1. ASSUME NEW s \in Sessions, HandleSandboxCreate(s) PROVE UsableInv'
  BY <1>1 DEF HandleSandboxCreate, Goto, ShutdownTime
<1>2. ASSUME NEW s \in Sessions, StorePlaceHolder(s) PROVE UsableInv'
  BY <1>2 DEF StorePlaceHolder, Goto, StoreCmd, StoreStage, PlaceHolder
<1>3. ASSUME NEW s \in Sessions, StorePlaceHolderFails(s) PROVE UsableInv'
  BY <1>3 DEF StorePlaceHolderFails, Move, Goto
<1>4. ASSUME NEW s \in Sessions, CreateK8sResources(s) PROVE UsableInv'
  BY <1>4 DEF CreateK8sResources, Goto
<1>5. ASSUME NEW s \in Sessions, CreateSucceeds(s) PROVE UsableInv'
  BY <1>5 DEF CreateSucceeds, Move, Goto
<1>6. ASSUME NEW s \in Sessions, CreateFails(s) PROVE UsableInv'
  BY <1>6 DEF CreateFails, Goto
<1>7. ASSUME NEW s \in Sessions, WaitForCreatedSandbox(s) PROVE UsableInv'
  BY <1>7 DEF WaitForCreatedSandbox, Goto
<1>8. ASSUME NEW s \in Sessions, WaitFails(s) PROVE UsableInv'
  BY <1>8 DEF WaitFails, Goto
<1>9. ASSUME NEW s \in Sessions, VerifySandbox(s) PROVE UsableInv'
  BY <1>9 DEF VerifySandbox, Move, Goto
<1>10. ASSUME NEW s \in Sessions, VerifyFails(s) PROVE UsableInv'
  BY <1>10 DEF VerifyFails, Move, Goto
<1>11. ASSUME NEW s \in Sessions, UpdateRecord(s) PROVE UsableInv'
  BY <1>11 DEF UpdateRecord, Goto, UpdateSandbox, StoreCacheInfo, BuildSandboxInfo, PlaceHolder
<1>12. ASSUME NEW s \in Sessions, UpdateRecordFails(s) PROVE UsableInv'
  BY <1>12 DEF UpdateRecordFails, Goto, UpdateSandbox, StoreCacheInfo, BuildSandboxInfo,
               PlaceHolder
<1>13. ASSUME NEW s \in Sessions, RollbackObject(s) PROVE UsableInv'
  BY <1>13 DEF RollbackObject, Goto, DeleteObject
<1>14. ASSUME NEW s \in Sessions, RollbackObjectFails(s) PROVE UsableInv'
  BY <1>14 DEF RollbackObjectFails, Goto, Note
<1>15. ASSUME NEW s \in Sessions, RollbackStore(s) PROVE UsableInv'
  BY <1>15 DEF RollbackStore, Goto, DeleteCmd, RollbackStage
<1>16. ASSUME NEW s \in Sessions, RollbackStoreFails(s) PROVE UsableInv'
  BY <1>16 DEF RollbackStoreFails, Move, Goto
<1>17. ASSUME NEW s \in Sessions, HandleDeleteSandbox(s) PROVE UsableInv'
  BY <1>17 DEF HandleDeleteSandbox
<1>18. ASSUME NEW s \in Sessions, DeleteHandlerObject(s) PROVE UsableInv'
  <2>1. Taken(s)'
    BY <1>18 DEF DeleteHandlerObject, Note, Taken, Met
  <2> QED  BY <1>18, <2>1 DEF DeleteHandlerObject, DeleteObject
<1>19. ASSUME NEW s \in Sessions, DeleteHandlerObjectFails(s) PROVE UsableInv'
  <2>1. CASE DeleteObject(s, dname[s]) /\ Note(s, "reclaimed")
    <3>1. Taken(s)'
      BY <2>1 DEF Note, Taken, Met
    <3> QED  BY <1>19, <2>1, <3>1 DEF DeleteHandlerObjectFails, DeleteObject
  <2>2. CASE UNCHANGED <<k8sVars, hist>>
    BY <1>19, <2>2 DEF DeleteHandlerObjectFails
  <2> QED  BY <1>19, <2>1, <2>2, Zenon DEF DeleteHandlerObjectFails
<1>20. ASSUME NEW s \in Sessions, DeleteHandlerStore(s) PROVE UsableInv'
  BY <1>20 DEF DeleteHandlerStore, DeleteCmd, DeleteStage
<1>21. ASSUME NEW s \in Sessions, DeleteHandlerStoreFails(s) PROVE UsableInv'
  BY <1>21 DEF DeleteHandlerStoreFails
<1>22. ASSUME NEW s \in Sessions, ApiServerCreates(s) PROVE UsableInv'
  BY <1>22 DEF ApiServerCreates
<1>23. ASSUME NEW s \in Sessions, ApiServerRejects(s) PROVE UsableInv'
  BY <1>23 DEF ApiServerRejects
<1>24. ASSUME NEW s \in Sessions, SandboxBecomesReady(s) PROVE UsableInv'
  BY <1>24 DEF SandboxBecomesReady
<1>25. ASSUME NEW s \in Sessions, ShutdownTimePasses(s) PROVE UsableInv'
  BY <1>25 DEF ShutdownTimePasses
<1>26. ASSUME NEW s \in Sessions, Reconcile(s) PROVE UsableInv'
  BY <1>26, ZenonT(40) DEF Reconcile
<1>27. ASSUME NEW s \in Sessions, RouterTouches(s) PROVE UsableInv'
  <2>1. UNCHANGED <<rec, pc, obj, req, kind, deadline, now, dpc, gcpc, gcCur>>
    BY <1>27, Zenon DEF RouterTouches, UpdateSessionLastActivity
  <2> QED  BY <2>1, ZenonT(40)
<1>28. ASSUME NEW s \in Sessions, GCDeleteObject(s) PROVE UsableInv'
  <2>1. Taken(s)'
    BY <1>28 DEF GCDeleteObject, Note, Taken, Met
  <2> QED  BY <1>28, <2>1 DEF GCDeleteObject, DeleteObject
<1>29. ASSUME NEW s \in Sessions, GCDeleteObjectFails(s) PROVE UsableInv'
  <2>1. CASE \E event \in {"collectedEarly", "reclaimed"} : DeleteObject(s, gcName[s]) /\ Note(s, event)
    <3>1. Taken(s)'
      BY <2>1 DEF Note, Taken, Met
    <3> QED  BY <1>29, <2>1, <3>1 DEF GCDeleteObjectFails, DeleteObject
  <2>2. CASE UNCHANGED <<k8sVars, hist>>
    BY <1>29, <2>2, ZenonT(40) DEF GCDeleteObjectFails
  <2> QED  BY <1>29, <2>1, <2>2, Zenon DEF GCDeleteObjectFails
<1>30. ASSUME NEW s \in Sessions, GCDeleteRecord(s) PROVE UsableInv'
  BY <1>30 DEF GCDeleteRecord, DeleteCmd, GCStage
<1>31. CASE GCListInactive
  BY <1>31, Zenon DEF GCListInactive, Scores, RangeByScore, InRange
<1>32. CASE GCLoadInactive
  BY <1>32, Zenon DEF GCLoadInactive, NoScores, Load, Listed
<1>33. CASE GCListInactiveFails
  BY <1>33, Zenon DEF GCListInactiveFails, NoScores
<1>34. CASE GCListExpired
  BY <1>34, Zenon DEF GCListExpired, Scores, RangeByScore, InRange
<1>35. CASE GCLoadExpired
  BY <1>35, Zenon DEF GCLoadExpired, NoScores, Load, Listed
<1>36. CASE GCListExpiredFails
  BY <1>36, Zenon DEF GCListExpiredFails, NoScores
<1>37. CASE GCDeleteRecordFails
  BY <1>37, Zenon DEF GCDeleteRecordFails
<1>38. CASE GCEnds
  BY <1>38, Zenon DEF GCEnds
<1>39. CASE Crash
  BY <1>39, ZenonT(40) DEF Crash, NoScores
<1>40. CASE Tick
  BY <1>40 DEF Tick
<1>41. CASE UNCHANGED vars
  BY <1>41, Zenon
<1>42. CASE GCBegins
  BY <1>42, Zenon DEF GCBegins
<1> QED
  BY <1>1, <1>2, <1>3, <1>4, <1>5, <1>6, <1>7, <1>8, <1>9, <1>10, <1>11, <1>12, <1>13, <1>14,
     <1>15, <1>16, <1>17, <1>18, <1>19, <1>20, <1>21, <1>22, <1>23, <1>24, <1>25, <1>26, <1>27,
     <1>28, <1>29, <1>30, <1>31, <1>32, <1>33, <1>34, <1>35, <1>36, <1>37, <1>38, <1>39, <1>40,
     <1>41, <1>42, Zenon DEF Next, CreateStep, RollbackStep, DeleteStep, KubernetesStep, GCStep

-----------------------------------------------------------------------------
(***************************************************************************)
(* The inductive invariant and what follows from it.                       *)
(***************************************************************************)
IInv == TypeOK /\ Bookkeeping /\ LeakInv /\ ExpiryInv /\ CollectInv /\ UsableInv

(***************************************************************************)
(* The initial state satisfies the inductive invariant.                    *)
(***************************************************************************)
LEMMA InitIInv == Init => IInv
<1> SUFFICES ASSUME Init PROVE IInv
  OBVIOUS
<1> USE LifecycleAssumption DEF Init, StoreInit, Stored, NoRecord, Absent
<1>1. TypeOK
  BY DEF TypeOK, StoreTypeOK, SandboxInfo, Names, Kinds, Events, Holes, InProgress,
         Answered, CreateStages, StoreStages, RollbackStages
<1>2. Bookkeeping
  BY DEF Bookkeeping, Unsent, StoreStages
<1>3. LeakInv
  BY DEF LeakInv, Collecting, CreateStages, StoreStages
<1>4. ExpiryInv
  BY DEF ExpiryInv
<1>5. CollectInv
  BY DEF CollectInv, Unscored
<1>6. UsableInv
  BY DEF UsableInv, Collecting
<1> QED  BY <1>1, <1>2, <1>3, <1>4, <1>5, <1>6 DEF IInv

(***************************************************************************)
(* The inductive invariant is preserved: the step lemmas together.         *)
(***************************************************************************)
LEMMA NextIInv == IInv /\ [Next]_vars => IInv'
  BY TypeStep, BookkeepingStep, LeakStep, ExpiryStep, CollectStep, UsableStep DEF IInv

(***************************************************************************)
(* The inductive invariant holds throughout.                               *)
(***************************************************************************)
LEMMA Invariance == Spec => []IInv
  BY InitIInv, NextIInv, PTL DEF Spec

(***************************************************************************)
(* Type correctness of the model, for every number of sessions, timeouts   *)
(* and bounds.                                                             *)
(***************************************************************************)
THEOREM TypeCorrect == Spec => []TypeOK
<1>1. IInv => TypeOK
  BY DEF IInv
<1> QED  BY Invariance, <1>1, PTL

(***************************************************************************)
(* createSandbox, rollbackSandboxCreation, handleDeleteSandbox and the     *)
(* collector together never lose track of a Kubernetes object, but for the *)
(* three holes that NoLeak names.                                          *)
(***************************************************************************)
THEOREM LeakFreedom == Spec => []NoLeak
<1>1. IInv => NoLeak
  BY DEF IInv, LeakInv, Clean, NoLeak
<1> QED  BY Invariance, <1>1, PTL

(***************************************************************************)
(* The record that createSandbox writes at the end agrees with the expiry  *)
(* set that StoreSandbox filled at the beginning.                          *)
(***************************************************************************)
THEOREM ExpiryAgreement == Spec => []ExpiryAgrees
<1>1. IInv => ExpiryAgrees
  BY DEF IInv, ExpiryInv, ExpiryAgrees
<1> QED  BY Invariance, <1>1, PTL

(***************************************************************************)
(* garbageCollector.once takes only sessions that had expired or whose     *)
(* recorded activity was old enough when the round began, however its      *)
(* lists, the touches and the stamps these carry interleave, unless a      *)
(* touch reached the store after the round had listed the session.         *)
(***************************************************************************)
THEOREM CollectionJustified == Spec => []CollectsOnlyIdleOrExpired
<1>1. IInv => CollectsOnlyIdleOrExpired
  BY DEF IInv, TypeOK, CollectInv, CollectsOnlyIdleOrExpired
<1> QED  BY Invariance, <1>1, PTL

(***************************************************************************)
(* A session answered with 200 is usable until it is reclaimed.            *)
(***************************************************************************)
THEOREM AnsweredUsable == Spec => []AnsweredSessionUsable
<1>1. IInv => AnsweredSessionUsable
  BY DEF IInv, UsableInv, Taken, ObjectUp, AnsweredSessionUsable
<1> QED  BY Invariance, <1>1, PTL

(***************************************************************************)
(* UpdateSandbox never brings back a record that the collector or a delete *)
(* request has removed.                                                    *)
(***************************************************************************)
THEOREM NoRecordReturns == Spec => NoResurrection
<1> DEFINE Kept == \A s \in Sessions : pc[s] # "store1" /\ ~Stored(s) => ~Stored(s)'
<1>1. ASSUME TypeOK, [Next]_vars PROVE Kept
  <2> USE DEF TypeOK, StoreTypeOK, Stored,
              vars, storeVars, k8sVars, createVars, request, deleteVars, gcVars, notCreate, notGC
  <2>1. CASE UNCHANGED rec
    BY <2>1
  <2>2. ASSUME NEW t \in Sessions, StorePlaceHolder(t) PROVE Kept
    BY <2>2 DEF StorePlaceHolder, StoreCmd, StoreStage
  <2>3. ASSUME NEW t \in Sessions, UpdateSandbox(t, StoreCacheInfo(t)) PROVE Kept
    BY <2>3 DEF UpdateSandbox
  <2>4. ASSUME NEW t \in Sessions, NEW k \in 1..3, DeleteCmd(k, t) PROVE Kept
    BY <2>4, SMTT(20) DEF DeleteCmd
  <2>5. ASSUME NEW t \in Sessions, CreateStep(t) PROVE Kept
    BY <2>5, <2>1, <2>2, <2>3, Zenon
       DEF CreateStep, HandleSandboxCreate, StorePlaceHolderFails, CreateK8sResources,
           CreateSucceeds, CreateFails, WaitForCreatedSandbox, WaitFails, VerifySandbox,
           VerifyFails, UpdateRecord, UpdateRecordFails, Move
  <2>6. ASSUME NEW t \in Sessions, RollbackStep(t) PROVE Kept
    BY <2>6, <2>1, <2>4, Zenon
       DEF RollbackStep, RollbackObject, RollbackObjectFails, RollbackStore, RollbackStoreFails,
           Move
  <2>7. ASSUME NEW t \in Sessions, DeleteStep(t) PROVE Kept
    BY <2>7, <2>1, <2>4, Zenon
       DEF DeleteStep, HandleDeleteSandbox, DeleteHandlerObject, DeleteHandlerObjectFails,
           DeleteHandlerStore, DeleteHandlerStoreFails
  <2>8. ASSUME NEW t \in Sessions, KubernetesStep(t) \/ RouterTouches(t) PROVE Kept
    BY <2>8, <2>1, Zenon
       DEF KubernetesStep, ApiServerCreates, ApiServerRejects, SandboxBecomesReady,
           ShutdownTimePasses, Reconcile, RouterTouches, UpdateSessionLastActivity
  <2>9. CASE GCStep
    BY <2>9, <2>1, <2>4, Zenon
       DEF GCStep, GCBegins, GCListInactive, GCLoadInactive, GCListInactiveFails, GCListExpired,
           GCLoadExpired, GCListExpiredFails, GCDeleteObject, GCDeleteObjectFails,
           GCDeleteRecord, GCDeleteRecordFails, GCEnds
  <2>10. CASE Crash \/ Tick \/ UNCHANGED vars
    BY <2>10, <2>1 DEF Crash, Tick
  <2> QED  BY <1>1, <2>5, <2>6, <2>7, <2>8, <2>9, <2>10, Zenon DEF Next
<1>2. TypeOK /\ [Next]_vars => [Kept]_vars
  BY <1>1
<1>3. Spec => [][Kept]_vars
  BY TypeCorrect, <1>2, PTL DEF Spec
<1> QED  BY <1>3 DEF NoResurrection
===============================================================================
