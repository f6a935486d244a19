----------------------- MODULE SandboxLifecycleInvariant -----------------------
(***************************************************************************)
(* The inductive invariant of SandboxLifecycle, and the proofs that every  *)
(* step keeps its types, its bookkeeping, the expiries and what the        *)
(* collector has read.  SandboxLifecycleProofs has the other parts and the *)
(* theorems.                                                               *)
(***************************************************************************)
EXTENDS SandboxLifecycle, TLAPS

(***************************************************************************)
(* Bookkeeping that holds whatever goes wrong.  Before its create request  *)
(* is sent a session has no object; objects come from applied requests     *)
(* only; only an answered session is being deleted; and every name that is *)
(* recorded or read is the one the workload manager gave the object.       *)
(***************************************************************************)
Unsent == {"new", "create"} \cup StoreStages

Bookkeeping ==
    \A s \in Sessions :
        /\ pc[s] \in Unsent => req[s] = "none"
        /\ obj[s] # "none" => req[s] = "applied"
        /\ pc[s] \in {"wait", "verify", "update", "ok"} => req[s] = "applied"
        /\ dpc[s] # "idle" => pc[s] = "ok"
        /\ rec[s].name = "requested"
        /\ dname[s] = "requested"
        /\ gcName[s] = "requested"
        /\ pc[s] = "new" =>
              ~Stored(s) /\ expiryIdx[s] = Absent /\ activityIdx[s] = Absent
        /\ pc[s] = "new" => s \notin gcTargets /\ gcScore[s] = Absent

(***************************************************************************)
(* What keeps an object findable, for a session that met none of the three *)
(* holes: the record and its index entries outlive the object.             *)
(***************************************************************************)
Clean(s) == ~Met(s, Holes)
Collecting(s) == s \in gcCur /\ gcpc \in {"gc1", "gc2", "gc3"}

LeakInv ==
    \A s \in Sessions : Clean(s) =>
        /\ obj[s] # "none" => Findable(s)
        /\ pc[s] \in {"store2", "store3"} => Stored(s)
        /\ pc[s] = "store3" => expiryIdx[s] # Absent
        /\ pc[s] \in {"create", "sent", "wait", "verify", "update"} => Findable(s)
        /\ pc[s] \in {"rb1", "rb2", "rb3"} => obj[s] = "none"
        /\ dpc[s] \in {"del1", "del2", "del3"} => obj[s] = "none"
        /\ Collecting(s) => obj[s] = "none" /\ pc[s] \notin {"new"} \cup CreateStages

(***************************************************************************)
(* Record and expiry set both hold the expiry of the placeholder.          *)
(***************************************************************************)
ExpiryInv ==
    \A s \in Sessions :
        /\ Stored(s) => rec[s].expires = deadline[s]
        /\ expiryIdx[s] # Absent => expiryIdx[s] = deadline[s]

(***************************************************************************)
(* A score in the collector's hands is the session's score still, unless   *)
(* the session has been touched since it was listed or has been removed.   *)
(* The third command of StoreSandbox cannot come between, for there is no  *)
(* score to be listed before it.                                           *)
(***************************************************************************)
Unscored == {"new"} \cup StoreStages

CollectInv ==
    /\ gcpc \in {"idle", "list1", "load1"} => gcTargets = {}
    /\ \A s \in Sessions :
          /\ pc[s] \in Unscored => activityIdx[s] = Absent
          /\ gcpc = "load1" /\ gcScore[s] # Absent =>
                /\ pc[s] \notin Unscored
                /\ activityIdx[s] \in {gcScore[s], Absent} \/ s \in overtaken
          /\ gcpc = "load2" /\ gcScore[s] # Absent => deadline[s] <= gcNow
          /\ s \in gcTargets =>
                \/ deadline[s] <= gcNow
                \/ s \in overtaken
                \/ pc[s] \notin Unscored /\ activityIdx[s] + idle[s] <= gcNow

(***************************************************************************)
(* A session that nobody has taken keeps its object from the time it is    *)
(* created, up to its shutdown time, and its record from the answer on.    *)
(***************************************************************************)
Taken(s) == Met(s, {"reclaimed", "collectedEarly"})
ObjectUp(s) == obj[s] # "none" \/ (kind[s] = "Sandbox" /\ deadline[s] <= now)

UsableInv ==
    \A s \in Sessions :
        /\ Collecting(s) \/ dpc[s] \in {"del1", "del2", "del3"} => Taken(s)
        /\ ~Taken(s) => 
              /\ pc[s] = "sent" /\ req[s] = "applied" => ObjectUp(s)
              /\ pc[s] \in {"wait", "verify", "update", "ok"} => ObjectUp(s)
              /\ pc[s] = "ok" => Stored(s) /\ rec[s].status = "ready"

-----------------------------------------------------------------------------
(***************************************************************************)
(* Every step keeps the types: one leaf per action.                        *)
(***************************************************************************)
LEMMA TypeStep == ASSUME TypeOK, [Next]_vars PROVE TypeOK'
<1> USE LifecycleAssumption
       DEF TypeOK, StoreTypeOK, SandboxInfo, NoRecord, Names, Kinds, Absent,
           StoreStages, CreateStages, RollbackStages, Answered, InProgress, Holes, Events,
           vars, storeVars, k8sVars, createVars, request, deleteVars, gcVars, notCreate, notGC
<1>1. ASSUME NEW s \in Sessions, HandleSandboxCreate(s) PROVE TypeOK'
  <2>1. CASE \E k \in Kinds, i \in IdleTimeouts :
                 /\ kind' = [kind EXCEPT ![s] = k]
                 /\ idle' = [idle EXCEPT ![s] = IF i = 0 THEN DefaultIdle ELSE i]
                 /\ deadline' = [deadline EXCEPT ![s] = ShutdownTime]
                 /\ Goto(s, "store1")
    <3> PICK k \in Kinds, i \in IdleTimeouts :
                 /\ kind' = [kind EXCEPT ![s] = k]
                 /\ idle' = [idle EXCEPT ![s] = IF i = 0 THEN DefaultIdle ELSE i]
                 /\ deadline' = [deadline EXCEPT ![s] = ShutdownTime]
                 /\ Goto(s, "store1")
      BY <2>1, Zenon
    <3>1. (IF i = 0 THEN DefaultIdle ELSE i) \in Nat  OBVIOUS
    <3>2. ShutdownTime \in Nat  BY DEF ShutdownTime
    <3> QED  BY <1>1, <3>1, <3>2 DEF HandleSandboxCreate, Goto
  <2>2. CASE Goto(s, "failed") /\ UNCHANGED <<kind, idle, deadline>>
    BY <1>1, <2>2 DEF HandleSandboxCreate, Goto
  <2> QED  BY <1>1, <2>1, <2>2, Zenon DEF HandleSandboxCreate
<1>2. ASSUME NEW s \in Sessions, StorePlaceHolder(s) PROVE TypeOK'
  BY <1>2 DEF StorePlaceHolder, Stamps, Goto, StoreCmd, StoreStage, PlaceHolder, Stored
<1>3. ASSUME NEW s \in Sessions, StorePlaceHolderFails(s) PROVE TypeOK'
  BY <1>3 DEF StorePlaceHolderFails, Move, Goto
<1>4. ASSUME NEW s \in Sessions, CreateK8sResources(s) PROVE TypeOK'
  BY <1>4 DEF CreateK8sResources, Goto
<1>5. ASSUME NEW s \in Sessions, CreateSucceeds(s) PROVE TypeOK'
  BY <1>5 DEF CreateSucceeds, Move, Goto
<1>6. ASSUME NEW s \in Sessions, CreateFails(s) PROVE TypeOK'
  BY <1>6 DEF CreateFails, Goto
<1>7. ASSUME NEW s \in Sessions, WaitForCreatedSandbox(s) PROVE TypeOK'
  BY <1>7 DEF WaitForCreatedSandbox, Goto
<1>8. ASSUME NEW s \in Sessions, WaitFails(s) PROVE TypeOK'
  BY <1>8 DEF WaitFails, Goto
<1>9. ASSUME NEW s \in Sessions, VerifySandbox(s) PROVE TypeOK'
  BY <1>9 DEF VerifySandbox, Move, Goto
<1>10. ASSUME NEW s \in Sessions, VerifyFails(s) PROVE TypeOK'
  BY <1>10 DEF VerifyFails, Move, Goto
<1>11. ASSUME NEW s \in Sessions, UpdateRecord(s) PROVE TypeOK'
  BY <1>11 DEF UpdateRecord, Goto, UpdateSandbox, StoreCacheInfo, BuildSandboxInfo, PlaceHolder,
               Stored
<1>12. ASSUME NEW s \in Sessions, UpdateRecordFails(s) PROVE TypeOK'
  BY <1>12 DEF UpdateRecordFails, Goto, UpdateSandbox, StoreCacheInfo, BuildSandboxInfo,
               PlaceHolder
<1>13. ASSUME NEW s \in Sessions, RollbackObject(s) PROVE TypeOK'
  BY <1>13 DEF RollbackObject, Goto, DeleteObject
<1>14. ASSUME NEW s \in Sessions, RollbackObjectFails(s) PROVE TypeOK'
  BY <1>14 DEF RollbackObjectFails, Goto, Note
<1>15. ASSUME NEW s \in Sessions, RollbackStore(s) PROVE TypeOK'
  BY <1>15 DEF RollbackStore, Goto, DeleteCmd, RollbackStage
<1>16. ASSUME NEW s \in Sessions, RollbackStoreFails(s) PROVE TypeOK'
  BY <1>16 DEF RollbackStoreFails, Move, Goto
<1>17. ASSUME NEW s \in Sessions, HandleDeleteSandbox(s) PROVE TypeOK'
  BY <1>17 DEF HandleDeleteSandbox
<1>18. ASSUME NEW s \in Sessions, DeleteHandlerObject(s) PROVE TypeOK'
  BY <1>18 DEF DeleteHandlerObject, DeleteObject, Note
<1>19. ASSUME NEW s \in Sessions, DeleteHandlerObjectFails(s) PROVE TypeOK'
  BY <1>19 DEF DeleteHandlerObjectFails, DeleteObject, Note
<1>20. ASSUME NEW s \in Sessions, DeleteHandlerStore(s) PROVE TypeOK'
  BY <1>20 DEF DeleteHandlerStore, DeleteCmd, DeleteStage
<1>21. ASSUME NEW s \in Sessions, DeleteHandlerStoreFails(s) PROVE TypeOK'
  BY <1>21 DEF DeleteHandlerStoreFails
<1>22. ASSUME NEW s \in Sessions, ApiServerCreates(s) PROVE TypeOK'
  BY <1>22 DEF ApiServerCreates
<1>23. ASSUME NEW s \in Sessions, ApiServerRejects(s) PROVE TypeOK'
  BY <1>23 DEF ApiServerRejects
<1>24. ASSUME NEW s \in Sessions, SandboxBecomesReady(s) PROVE TypeOK'
  BY <1>24 DEF SandboxBecomesReady
<1>25. ASSUME NEW s \in Sessions, ShutdownTimePasses(s) PROVE TypeOK'
  BY <1>25 DEF ShutdownTimePasses
<1>26. ASSUME NEW s \in Sessions, Reconcile(s) PROVE TypeOK'
  BY <1>26 DEF Reconcile
<1>27. ASSUME NEW s \in Sessions, RouterTouches(s) PROVE TypeOK'
  BY <1>27 DEF RouterTouches, Stamps, UpdateSessionLastActivity, Stored
<1>28. ASSUME NEW s \in Sessions, GCDeleteObject(s) PROVE TypeOK'
  BY <1>28 DEF GCDeleteObject, DeleteObject, Note
<1>29. ASSUME NEW s \in Sessions, GCDeleteObjectFails(s) PROVE TypeOK'
  BY <1>29, SMTT(30) DEF GCDeleteObjectFails, DeleteObject, Note
<1>30. ASSUME NEW s \in Sessions, GCDeleteRecord(s) PROVE TypeOK'
  BY <1>30 DEF GCDeleteRecord, DeleteCmd, GCStage
<1>31. CASE GCListInactive
  BY <1>31 DEF GCListInactive, Scores, RangeByScore, InRange
<1>32. CASE GCLoadInactive
  BY <1>32 DEF GCLoadInactive, NoScores, Load, Listed, Stored
<1>33. CASE GCListInactiveFails
  BY <1>33 DEF GCListInactiveFails, NoScores
<1>34. CASE GCListExpired
  BY <1>34 DEF GCListExpired, Scores, RangeByScore, InRange
<1>35. CASE GCLoadExpired
  BY <1>35 DEF GCLoadExpired, NoScores, Load, Listed, Stored
<1>36. CASE GCListExpiredFails
  BY <1>36 DEF GCListExpiredFails, NoScores
<1>37. CASE GCDeleteRecordFails
  BY <1>37 DEF GCDeleteRecordFails
<1>38. CASE GCEnds
  BY <1>38 DEF GCEnds
<1>39. CASE Crash
  BY <1>39 DEF Crash, NoScores
<1>40. CASE Tick
  BY <1>40 DEF Tick
<1>41. CASE UNCHANGED vars
  BY <1>41
<1>42. CASE GCBegins
  BY <1>42 DEF GCBegins
<1> QED
  BY <1>1, <1>2, <1>3, <1>4, <1>5, <1>6, <1>7, <1>8, <1>9, <1>10, <1>11, <1>12, <1>13, <1>14,
     <1>15, <1>16, <1>17, <1>18, <1>19, <1>20, <1>21, <1>22, <1>23, <1>24, <1>25, <1>26, <1>27,
     <1>28, <1>29, <1>30, <1>31, <1>32, <1>33, <1>34, <1>35, <1>36, <1>37, <1>38, <1>39, <1>40,
     <1>41, <1>42, Zenon DEF Next, CreateStep, RollbackStep, DeleteStep, KubernetesStep, GCStep

(***************************************************************************)
(* What has happened to a session stays on record.                         *)
(***************************************************************************)
LEMMA HistoryGrows ==
    ASSUME TypeOK, [Next]_vars
    PROVE  \A s \in Sessions : \A e \in Events : e \in hist[s] => e \in hist'[s]
<1> DEFINE Grows == \A s \in Sessions : \A e \in Events : e \in hist[s] => e \in hist'[s]
<1>1. hist \in [Sessions -> SUBSET Events]
  BY DEF TypeOK
<1>2. CASE UNCHANGED hist
  BY <1>2
<1>3. ASSUME NEW s \in Sessions, NEW event, Note(s, event) PROVE Grows
  BY <1>1, <1>3 DEF Note
<1>4. ASSUME NEW s \in Sessions, CreateStep(s) PROVE UNCHANGED hist
  BY <1>4 DEF CreateStep, HandleSandboxCreate, StorePlaceHolder, StorePlaceHolderFails,
     CreateK8sResources, CreateSucceeds, CreateFails, WaitForCreatedSandbox, WaitFails,
     VerifySandbox, VerifyFails, UpdateRecord, UpdateRecordFails, Move
<1>5. ASSUME NEW s \in Sessions, RollbackStep(s) PROVE Grows
  BY <1>2, <1>3, <1>5 DEF RollbackStep, RollbackObject, RollbackObjectFails, RollbackStore,
     RollbackStoreFails, Move
<1>6. ASSUME NEW s \in Sessions, DeleteStep(s) PROVE Grows
  BY <1>2, <1>3, <1>6 DEF DeleteStep, HandleDeleteSandbox, DeleteHandlerObject,
     DeleteHandlerObjectFails, DeleteHandlerStore, DeleteHandlerStoreFails
<1>7. ASSUME NEW s \in Sessions, KubernetesStep(s) PROVE Grows
  <2>1. CASE ApiServerCreates(s)
    BY <1>1, <2>1 DEF ApiServerCreates
  <2> QED  BY <1>2, <1>7, <2>1 DEF KubernetesStep, ApiServerRejects, SandboxBecomesReady,
     ShutdownTimePasses, Reconcile
<1>8. ASSUME GCStep PROVE Grows
  BY <1>2, <1>3, <1>8, Zenon DEF GCStep, GCBegins, GCListInactive, GCLoadInactive,
     GCListInactiveFails, GCListExpired, GCLoadExpired, GCListExpiredFails, GCDeleteObject, GCDeleteObjectFails,
     GCDeleteRecord, GCDeleteRecordFails, GCEnds
<1> QED
  BY <1>2, <1>4, <1>5, <1>6, <1>7, <1>8 DEF Next, RouterTouches, Crash, Tick, vars

(***************************************************************************)
(* Every step keeps the stages of the handlers, the collector and the      *)
(* request in flight consistent with one another.                          *)
(***************************************************************************)
LEMMA BookkeepingStep == ASSUME TypeOK, TypeOK', Bookkeeping, [Next]_vars PROVE Bookkeeping'
<1> USE DEF Bookkeeping, Unsent, Stored,
           TypeOK, StoreTypeOK, SandboxInfo, NoRecord, Names, Kinds, Absent,
           StoreStages, CreateStages, RollbackStages, Answered, InProgress, Holes, Events,
           vars, storeVars, k8sVars, createVars, request, deleteVars, gcVars, notCreate, notGC
<1>1. ASSUME NEW s \in Sessions, HandleSandboxCreate(s) PROVE Bookkeeping'
  BY <1>1 DEF HandleSandboxCreate, Goto, ShutdownTime
<1>2. ASSUME NEW s \in Sessions, StorePlaceHolder(s) PROVE Bookkeeping'
  BY <1>2 DEF StorePlaceHolder, Goto, StoreCmd, StoreStage, PlaceHolder
<1>3. ASSUME NEW s \in Sessions, StorePlaceHolderFails(s) PROVE Bookkeeping'
  BY <1>3 DEF StorePlaceHolderFails, Move, Goto
<1>4. ASSUME NEW s \in Sessions, CreateK8sResources(s) PROVE Bookkeeping'
  BY <1>4 DEF CreateK8sResources, Goto
<1>5. ASSUME NEW s \in Sessions, CreateSucceeds(s) PROVE Bookkeeping'
  BY <1>5 DEF CreateSucceeds, Move, Goto
<1>6. ASSUME NEW s \in Sessions, CreateFails(s) PROVE Bookkeeping'
  BY <1>6 DEF CreateFails, Goto
<1>7. ASSUME NEW s \in Sessions, WaitForCreatedSandbox(s) PROVE Bookkeeping'
  BY <1>7 DEF WaitForCreatedSandbox, Goto
<1>8. ASSUME NEW s \in Sessions, WaitFails(s) PROVE Bookkeeping'
  BY <1>8 DEF WaitFails, Goto
<1>9. ASSUME NEW s \in Sessions, VerifySandbox(s) PROVE Bookkeeping'
  BY <1>9 DEF VerifySandbox, Move, Goto
<1>10. ASSUME NEW s \in Sessions, VerifyFails(s) PROVE Bookkeeping'
  BY <1>10 DEF VerifyFails, Move, Goto
<1>11. ASSUME NEW s \in Sessions, UpdateRecord(s) PROVE Bookkeeping'
  BY <1>11 DEF UpdateRecord, Goto, UpdateSandbox, StoreCacheInfo, BuildSandboxInfo, PlaceHolder
<1>12. ASSUME NEW s \in Sessions, UpdateRecordFails(s) PROVE Bookkeeping'
  BY <1>12 DEF UpdateRecordFails, Goto, UpdateSandbox, StoreCacheInfo, BuildSandboxInfo,
               PlaceHolder
<1>13. ASSUME NEW s \in Sessions, RollbackObject(s) PROVE Bookkeeping'
  BY <1>13 DEF RollbackObject, Goto, DeleteObject
<1>14. ASSUME NEW s \in Sessions, RollbackObjectFails(s) PROVE Bookkeeping'
  BY <1>14 DEF RollbackObjectFails, Goto, Note
<1>15. ASSUME NEW s \in Sessions, RollbackStore(s) PROVE Bookkeeping'
  BY <1>15 DEF RollbackStore, Goto, DeleteCmd, RollbackStage
<1>16. ASSUME NEW s \in Sessions, RollbackStoreFails(s) PROVE Bookkeeping'
  BY <1>16 DEF RollbackStoreFails, Move, Goto
<1>17. ASSUME NEW s \in Sessions, HandleDeleteSandbox(s) PROVE Bookkeeping'
  BY <1>17 DEF HandleDeleteSandbox
<1>18. ASSUME NEW s \in Sessions, DeleteHandlerObject(s) PROVE Bookkeeping'
  BY <1>18 DEF DeleteHandlerObject, DeleteObject, Note
<1>19. ASSUME NEW s \in Sessions, DeleteHandlerObjectFails(s) PROVE Bookkeeping'
  BY <1>19 DEF DeleteHandlerObjectFails, DeleteObject, Note
<1>20. ASSUME NEW s \in Sessions, DeleteHandlerStore(s) PROVE Bookkeeping'
  BY <1>20 DEF DeleteHandlerStore, DeleteCmd, DeleteStage
<1>21. ASSUME NEW s \in Sessions, DeleteHandlerStoreFails(s) PROVE Bookkeeping'
  BY <1>21 DEF DeleteHandlerStoreFails
<1>22. ASSUME NEW s \in Sessions, ApiServerCreates(s) PROVE Bookkeeping'
  BY <1>22 DEF ApiServerCreates
<1>23. ASSUME NEW s \in Sessions, ApiServerRejects(s) PROVE Bookkeeping'
  BY <1>23 DEF ApiServerRejects
<1>24. ASSUME NEW s \in Sessions, SandboxBecomesReady(s) PROVE Bookkeeping'
  BY <1>24 DEF SandboxBecomesReady
<1>25. ASSUME NEW s \in Sessions, ShutdownTimePasses(s) PROVE Bookkeeping'
  BY <1>25 DEF ShutdownTimePasses
<1>26. ASSUME NEW s \in Sessions, Reconcile(s) PROVE Bookkeeping'
  BY <1>26 DEF Reconcile
<1>27. ASSUME NEW s \in Sessions, RouterTouches(s) PROVE Bookkeeping'
  BY <1>27 DEF RouterTouches, UpdateSessionLastActivity
<1>28. ASSUME NEW s \in Sessions, GCDeleteObject(s) PROVE Bookkeeping'
  BY <1>28 DEF GCDeleteObject, DeleteObject, Note
<1>29. ASSUME NEW s \in Sessions, GCDeleteObjectFails(s) PROVE Bookkeeping'
  BY <1>29 DEF GCDeleteObjectFails, DeleteObject, Note
<1>30. ASSUME NEW s \in Sessions, GCDeleteRecord(s) PROVE Bookkeeping'
  BY <1>30 DEF GCDeleteRecord, DeleteCmd, GCStage
<1>31. CASE GCListInactive
  BY <1>31 DEF GCListInactive, Scores, RangeByScore, InRange
<1>32. CASE GCLoadInactive
  BY <1>32, Zenon DEF GCLoadInactive, NoScores, Load, Listed
<1>33. CASE GCListInactiveFails
  BY <1>33, Zenon DEF GCListInactiveFails, NoScores
<1>34. CASE GCListExpired
  BY <1>34 DEF GCListExpired, Scores, RangeByScore, InRange
<1>35. CASE GCLoadExpired
  BY <1>35, Zenon DEF GCLoadExpired, NoScores, Load, Listed
<1>36. CASE GCListExpiredFails
  BY <1>36, Zenon DEF GCListExpiredFails, NoScores
<1>37. CASE GCDeleteRecordFails
  BY <1>37, Zenon DEF GCDeleteRecordFails
<1>38. CASE GCEnds
  BY <1>38 DEF GCEnds
<1>39. CASE Crash
  BY <1>39 DEF Crash, NoScores
<1>40. CASE Tick
  BY <1>40 DEF Tick
<1>41. CASE UNCHANGED vars
  BY <1>41
<1>42. CASE GCBegins
  BY <1>42 DEF GCBegins
<1> QED
  BY <1>1, <1>2, <1>3, <1>4, <1>5, <1>6, <1>7, <1>8, <1>9, <1>10, <1>11, <1>12, <1>13, <1>14,
     <1>15, <1>16, <1>17, <1>18, <1>19, <1>20, <1>21, <1>22, <1>23, <1>24, <1>25, <1>26, <1>27,
     <1>28, <1>29, <1>30, <1>31, <1>32, <1>33, <1>34, <1>35, <1>36, <1>37, <1>38, <1>39, <1>40,
     <1>41, <1>42, Zenon DEF Next, CreateStep, RollbackStep, DeleteStep, KubernetesStep, GCStep

(***************************************************************************)
(* Every step keeps the expiry index in agreement with the records.        *)
(***************************************************************************)
LEMMA ExpiryStep == ASSUME TypeOK, Bookkeeping, ExpiryInv, [Next]_vars PROVE ExpiryInv'
<1> USE DEF storeVars, k8sVars, createVars, request, deleteVars, gcVars, notCreate, notGC
<1>1. ASSUME NEW s \in Sessions, HandleSandboxCreate(s) PROVE ExpiryInv'
  BY <1>1 DEF HandleSandboxCreate, Goto, TypeOK, StoreTypeOK, Bookkeeping, ExpiryInv, Stored
<1>2. ASSUME NEW s \in Sessions, StorePlaceHolder(s) PROVE ExpiryInv'
  BY <1>2 DEF StorePlaceHolder, StoreCmd, StoreStage, PlaceHolder, TypeOK, StoreTypeOK,
              ExpiryInv, Stored
<1>3. ASSUME NEW s \in Sessions, UpdateSandbox(s, StoreCacheInfo(s)), UNCHANGED deadline
      PROVE  ExpiryInv'
  BY <1>3, Zenon DEF UpdateSandbox, StoreCacheInfo, BuildSandboxInfo, PlaceHolder, TypeOK,
                     StoreTypeOK, Kinds, ExpiryInv, Stored
<1>4. ASSUME NEW s \in Sessions, NEW k \in 1..3, DeleteCmd(k, s), UNCHANGED deadline
      PROVE  ExpiryInv'
  BY <1>4, Zenon DEF DeleteCmd, TypeOK, StoreTypeOK, ExpiryInv, Stored
<1>5. CASE UNCHANGED <<rec, expiryIdx, deadline>>
  BY <1>5, SMTT(20) DEF ExpiryInv, Stored
<1>6. ASSUME NEW s \in Sessions, CreateStep(s) PROVE ExpiryInv'
  BY <1>1, <1>2, <1>3, <1>5, <1>6, Zenon
     DEF CreateStep, StorePlaceHolderFails, CreateK8sResources, CreateSucceeds, CreateFails,
         WaitForCreatedSandbox, WaitFails, VerifySandbox, VerifyFails, UpdateRecord, UpdateRecordFails, Move
<1>7. ASSUME NEW s \in Sessions, RollbackStep(s) PROVE ExpiryInv'
  BY <1>4, <1>5, <1>7, Zenon
     DEF RollbackStep, RollbackObject, RollbackObjectFails, RollbackStore, RollbackStoreFails,
         Move
<1>8. ASSUME NEW s \in Sessions, DeleteStep(s) PROVE ExpiryInv'
  BY <1>4, <1>5, <1>8, Zenon
     DEF DeleteStep, HandleDeleteSandbox, DeleteHandlerObject, DeleteHandlerObjectFails,
         DeleteHandlerStore, DeleteHandlerStoreFails
<1>9. ASSUME NEW s \in Sessions, KubernetesStep(s) \/ RouterTouches(s) PROVE ExpiryInv'
  <2>1. UNCHANGED <<rec, expiryIdx, deadline>>
    BY <1>9, Zenon
       DEF KubernetesStep, ApiServerCreates, ApiServerRejects, SandboxBecomesReady,
           ShutdownTimePasses, Reconcile, RouterTouches, UpdateSessionLastActivity
  <2> QED  BY <2>1, <1>5, Zenon
<1>10. CASE GCStep
  BY <1>4, <1>5, <1>10, Zenon
     DEF GCStep, GCBegins, GCListInactive, GCLoadInactive, GCListInactiveFails, GCListExpired,
         GCLoadExpired, GCListExpiredFails, GCDeleteObject, GCDeleteObjectFails, GCDeleteRecord,
         GCDeleteRecordFails, GCEnds
<1>11. CASE Crash \/ Tick \/ UNCHANGED vars
  BY <1>5, <1>11 DEF Crash, Tick, vars
<1> QED  BY <1>6, <1>7, <1>8, <1>9, <1>10, <1>11 DEF Next

(***************************************************************************)
(* Every step keeps what the collector is holding justified by the scores  *)
(* it has read.                                                            *)
(***************************************************************************)
LEMMA CollectStep ==
    ASSUME TypeOK, Bookkeeping, ExpiryInv, CollectInv, [Next]_vars
    PROVE  CollectInv'
<1> USE DEF storeVars, k8sVars, createVars, request, deleteVars, gcVars, notCreate, notGC
<1> DEFINE Rest == <<gcVars, now, idle, deadline>>
           Onward == \A t \in Sessions : pc'[t] \in Unscored => pc[t] \in Unscored
<1>1. Onward
  <2> USE DEF Unscored, StoreStages, TypeOK
  <2>1. ASSUME NEW s \in Sessions, NEW stage, Goto(s, stage), pc[s] \in Unscored \/ stage \notin Unscored
        PROVE  Onward
    BY <2>1 DEF Goto
  <2>2. CASE UNCHANGED pc
    BY <2>2
  <2> HIDE DEF Onward, TypeOK
  <2>3. ASSUME NEW s \in Sessions, CreateStep(s) PROVE Onward
    <3>1. CASE HandleSandboxCreate(s) \/ StorePlaceHolder(s)
      <4>1. pc[s] \in Unscored
        BY <3>1 DEF HandleSandboxCreate, StorePlaceHolder, StoreStage
      <4> QED  BY <2>1, <3>1, <4>1, Zenon DEF HandleSandboxCreate, StorePlaceHolder
    <3> QED
      BY <2>1, <2>3, <3>1
         DEF CreateStep, StorePlaceHolderFails, CreateK8sResources, CreateSucceeds, CreateFails,
             WaitForCreatedSandbox, WaitFails, VerifySandbox, VerifyFails, UpdateRecord,
             UpdateRecordFails, Move
  <2>4. ASSUME NEW s \in Sessions, RollbackStep(s) PROVE Onward
    BY <2>1, <2>4
       DEF RollbackStep, RollbackObject, RollbackObjectFails, RollbackStore, RollbackStoreFails,
           RollbackStage, Move
  <2>5. CASE Crash
    BY <2>5 DEF Crash, InProgress, CreateStages, Onward
  <2>6. CASE \E s \in Sessions : DeleteStep(s) \/ KubernetesStep(s) \/ RouterTouches(s)
    BY <2>2, <2>6, Zenon
       DEF DeleteStep, HandleDeleteSandbox, DeleteHandlerObject, DeleteHandlerObjectFails,
           DeleteHandlerStore, DeleteHandlerStoreFails, KubernetesStep, ApiServerCreates,
           ApiServerRejects, SandboxBecomesReady, ShutdownTimePasses, Reconcile, RouterTouches
  <2>7. CASE GCStep \/ Tick \/ UNCHANGED vars
    BY <2>2, <2>7, Zenon
       DEF GCStep, GCBegins, GCListInactive, GCLoadInactive, GCListInactiveFails, GCListExpired,
           GCLoadExpired, GCListExpiredFails, GCDeleteObject, GCDeleteObjectFails,
           GCDeleteRecord, GCDeleteRecordFails, GCEnds, Tick, vars
  <2> QED  BY <2>3, <2>4, <2>5, <2>6, <2>7, Zenon DEF Next
<1>2. ASSUME NEW s \in Sessions, HandleSandboxCreate(s) PROVE CollectInv'
  <2>1. \A t \in Sessions : t # s => idle'[t] = idle[t] /\ deadline'[t] = deadline[t]
    BY <1>2 DEF HandleSandboxCreate, TypeOK
  <2>2. s \notin gcTargets /\ gcScore[s] = Absent
    BY <1>2, Zenon DEF HandleSandboxCreate, Bookkeeping
  <2>3. UNCHANGED <<activityIdx, gcVars, now>>
    BY <1>2, Zenon DEF HandleSandboxCreate
  <2> QED  BY <1>1, <2>1, <2>2, <2>3, Zenon DEF CollectInv
<1>3. ASSUME NEW s \in Sessions, NEW k \in 1..3, DeleteCmd(k, s), UNCHANGED Rest PROVE CollectInv'
  <2>1. \A t \in Sessions : activityIdx'[t] \in {activityIdx[t], Absent}
    BY <1>3 DEF DeleteCmd, TypeOK, StoreTypeOK
  <2> QED  BY <1>1, <1>3, <2>1 DEF CollectInv, TypeOK, StoreTypeOK, Absent
<1>4. CASE UNCHANGED <<activityIdx, Rest>>
  BY <1>1, <1>4, Zenon DEF CollectInv
<1>5. ASSUME NEW s \in Sessions, StorePlaceHolder(s) PROVE CollectInv'
  <2>1. PICK k \in 1..3, at \in Stamps(s) :
            /\ pc[s] = StoreStage[k]
            /\ StoreCmd(k, s, PlaceHolder(s), at)
            /\ Goto(s, StoreStage[k + 1])
    BY <1>5, Zenon DEF StorePlaceHolder
  <2>2. UNCHANGED Rest
    BY <1>5, Zenon DEF StorePlaceHolder
  <2>3. CASE k # 3
    BY <1>4, <2>1, <2>2, <2>3, Zenon DEF StoreCmd
  <2>4. CASE k = 3
    <3>1. pc[s] \in Unscored /\ pc'[s] \notin Unscored
      BY <2>1, <2>4 DEF StoreStage, Goto, Unscored, StoreStages, TypeOK
    <3>2. \A t \in Sessions : t # s => activityIdx'[t] = activityIdx[t]
      BY <2>1, <2>4 DEF StoreCmd, TypeOK, StoreTypeOK
    <3> QED  BY <1>1, <2>2, <3>1, <3>2, Zenon DEF CollectInv
  <2> QED  BY <2>3, <2>4
<1>6. ASSUME NEW s \in Sessions, CreateStep(s) PROVE CollectInv'
  BY <1>2, <1>4, <1>5, <1>6, Zenon
     DEF CreateStep, StorePlaceHolderFails, CreateK8sResources, CreateSucceeds, CreateFails,
         WaitForCreatedSandbox, WaitFails, VerifySandbox, VerifyFails, UpdateRecord, UpdateRecordFails,
         UpdateSandbox, Move
<1>7. ASSUME NEW s \in Sessions, RollbackStep(s) PROVE CollectInv'
  BY <1>3, <1>4, <1>7
     DEF RollbackStep, RollbackObject, RollbackObjectFails, RollbackStore, RollbackStoreFails,
         Move
<1>8. ASSUME NEW s \in Sessions, DeleteStep(s) PROVE CollectInv'
  BY <1>3, <1>4, <1>8, Zenon
     DEF DeleteStep, HandleDeleteSandbox, DeleteHandlerObject, DeleteHandlerObjectFails,
         DeleteHandlerStore, DeleteHandlerStoreFails
<1>9. ASSUME NEW s \in Sessions, KubernetesStep(s) PROVE CollectInv'
  BY <1>4, <1>9, Zenon
     DEF KubernetesStep, ApiServerCreates, ApiServerRejects, SandboxBecomesReady,
         ShutdownTimePasses, Reconcile
<1>10. ASSUME NEW s \in Sessions, RouterTouches(s) PROVE CollectInv'
  <2>1. \A t \in Sessions : t # s => activityIdx'[t] = activityIdx[t]
    BY <1>10 DEF RouterTouches, UpdateSessionLastActivity, TypeOK, StoreTypeOK
  <2>2. pc'[s] \notin Unscored
    BY <1>10 DEF RouterTouches, Unscored, StoreStages
  <2>3. s \in overtaken' \/ (s \notin gcTargets /\ gcScore[s] = Absent)
    BY <1>10 DEF RouterTouches, Listed
  <2>4. overtaken \subseteq overtaken'
    BY <1>10 DEF RouterTouches
  <2>5. UNCHANGED <<gcpc, gcNow, gcScore, gcTargets, idle, deadline>>
    BY <1>10, Zenon DEF RouterTouches
  <2> QED  BY <1>1, <2>1, <2>2, <2>3, <2>4, <2>5 DEF CollectInv
<1>11. CASE GCStep
  <2>1. UNCHANGED <<pc, idle, deadline>>
    BY <1>11, Zenon
       DEF GCStep, GCBegins, GCListInactive, GCLoadInactive, GCListInactiveFails, GCListExpired,
           GCLoadExpired, GCListExpiredFails, GCDeleteObject, GCDeleteObjectFails,
           GCDeleteRecord, GCDeleteRecordFails, GCEnds
  <2> USE <2>1 DEF CollectInv, TypeOK, StoreTypeOK, Absent
  <2>2. CASE GCBegins
    BY <2>2, Zenon DEF GCBegins
  <2>3. CASE GCListInactive
    BY <2>3, Zenon DEF GCListInactive, Scores, RangeByScore, InRange
  <2>4. CASE GCLoadInactive
    <3>1. \A s \in gcTargets' : gcScore[s] # Absent /\ gcScore[s] + idle[s] <= gcNow
      BY <2>4 DEF GCLoadInactive, Load, Listed, IdleTooLong
    <3>2. UNCHANGED <<activityIdx, overtaken, gcNow>> /\ gcpc = "load1" /\ gcpc' = "list2"
      BY <2>4, Zenon DEF GCLoadInactive
    <3> QED  BY <2>4, <3>1, <3>2 DEF GCLoadInactive
  <2>5. CASE GCListInactiveFails
    BY <2>5, Zenon DEF GCListInactiveFails, NoScores
  <2>6. CASE GCListExpired
    BY <2>6, Zenon DEF GCListExpired, Scores, RangeByScore, InRange, ExpiryInv
  <2>7. CASE GCLoadExpired
    BY <2>7, Zenon DEF GCLoadExpired, NoScores, Load, Listed
  <2>8. CASE GCListExpiredFails
    BY <2>8, Zenon DEF GCListExpiredFails, NoScores
  <2>9. ASSUME NEW s \in Sessions, GCDeleteObject(s) \/ GCDeleteObjectFails(s) PROVE CollectInv'
    BY <2>9, Zenon DEF GCDeleteObject, GCDeleteObjectFails
  <2>10. ASSUME NEW s \in Sessions, GCDeleteRecord(s) PROVE CollectInv'
    BY <2>10 DEF GCDeleteRecord, DeleteCmd, GCStage
  <2>11. CASE GCDeleteRecordFails \/ GCEnds
    BY <2>11 DEF GCDeleteRecordFails, GCEnds
  <2> HIDE DEF CollectInv
  <2> QED  BY <1>11, <2>2, <2>3, <2>4, <2>5, <2>6, <2>7, <2>8, <2>9, <2>10, <2>11 DEF GCStep
<1>12. CASE Crash
  BY <1>1, <1>12 DEF Crash, NoScores, CollectInv
<1>13. CASE Tick
  BY <1>1, <1>13, Zenon DEF Tick, CollectInv
<1>14. CASE UNCHANGED vars
  BY <1>4, <1>14 DEF vars
<1> QED  BY <1>6, <1>7, <1>8, <1>9, <1>10, <1>11, <1>12, <1>13, <1>14, SMTT(20) DEF Next
================================================================================
