----------------------------- MODULE ValkeyProofs -----------------------------
(***************************************************************************)
(* Proofs about ValkeySessions, for any number of sessions, any timeouts,  *)
(* any candidate limit and any number of calls that break.                 *)
(***************************************************************************)
EXTENDS ValkeySessions, TLAPS

\* The collector knows of s.
Known(s) == s \in gcList \cup gcTargets \cup gcCur

(***************************************************************************)
(* The collector deletes one session at a time.                            *)
(***************************************************************************)
CollectorInv ==
    /\ gcpc \notin Deleting => gcCur = {}
    /\ \A s, t \in gcCur : s = t

(***************************************************************************)
(* Until the second command of StoreSandbox no sorted set leads to the     *)
(* session, and neither the collector nor a touch has met it.              *)
(***************************************************************************)
StoringInv ==
    \A s \in Sessions :
        /\ pc[s] \in {"new", "store2"} =>
              expiryIdx[s] = Absent /\ activityIdx[s] = Absent /\ ~Known(s)
        /\ pc[s] # "live" => touch[s] = Absent
        /\ pc[s] = "new" => ~Stored(s)
        /\ pc[s] = "store2" => Stored(s)
        /\ pc[s] = "store3" /\ Stored(s) => expiryIdx[s] = rec[s].expires
        /\ pc[s] = "end" => s \in cut

(***************************************************************************)
(* A deletion takes the record first, and what a writer that it crossed    *)
(* has still to send is on record.                                         *)
(***************************************************************************)
DeletingInv ==
    \A s \in Sessions :
        /\ s \in gcCur /\ gcpc \in {"del2", "del3"} => ~Stored(s)
        /\ s \in gcCur /\ gcpc = "del3" => expiryIdx[s] = Absent
        /\ ~Stored(s) /\ (touch[s] # Absent \/ pc[s] = "store3") => s \in crossed

(***************************************************************************)
(* What a session that is deleted leaves once the deletion is over.        *)
(***************************************************************************)
DeletedInv ==
    \A s \in Sessions :
        ~Stored(s) /\ s \notin cut /\ s \notin gcCur =>
            expiryIdx[s] = Absent /\ (activityIdx[s] = Absent \/ s \in crossed)

IInv == TypeOK /\ CollectorInv /\ StoringInv /\ DeletingInv /\ DeletedInv /\ RecordIndexed

-----------------------------------------------------------------------------
\* The commands of StoreSandbox and of DeleteSandboxBySessionID by number.
StoreSandboxCmd(k, s) ==
    /\ pc[s] = StoreStage[k]
    /\ \E at \in Stamps(s) : StoreCmd(k, s, IF k = 1 THEN PlaceHolder ELSE rec[s], at)
    /\ Goto(s, StoreStage[k + 1])
    /\ Works
    /\ UNCHANGED <<touch, gcVars, crossed>>

GCDeletesCmd(k, s) ==
    /\ s \in gcCur
    /\ gcpc = DeleteStage("loop")[k]
    /\ DeleteSandboxBySessionID(k, s)
    /\ gcpc' = DeleteStage("loop")[k + 1]
    /\ gcCur' = IF k = 3 THEN {} ELSE gcCur
    /\ Works
    /\ UNCHANGED <<sessionVars, gcNow, gcList, gcTargets>>

Store(s) == StoreSandboxCmd(1, s) \/ StoreSandboxCmd(2, s) \/ StoreSandboxCmd(3, s)
Delete(s) == GCDeletesCmd(1, s) \/ GCDeletesCmd(2, s) \/ GCDeletesCmd(3, s)

\* The steps there are, with the commands of the two pipelines one by one.
LEMMA StepCases ==
    ASSUME [Next]_vars
    PROVE  \/ \E s \in Sessions :
                \/ Store(s) \/ StoreSandboxBreaks(s) \/ TouchExists(s) \/ TouchAdd(s)
                \/ TouchBreaks(s) \/ GCDeleteObject(s) \/ GCSkips(s) \/ Delete(s)
           \/ GCBegins \/ GCListInactive \/ GCLoadInactive \/ GCListExpired \/ GCLoadExpired
           \/ GCListBreaks \/ GCDeleteBreaks \/ GCEnds \/ Tick \/ UNCHANGED vars
<1>1. ASSUME NEW s \in Sessions, StoreSandbox(s) PROVE Store(s)
  <2>1. PICK k \in 1..3 : StoreSandboxCmd(k, s)
    BY <1>1, Zenon DEF StoreSandbox, StoreSandboxCmd
  <2>2. k = 1 \/ k = 2 \/ k = 3
    OBVIOUS
  <2> QED  BY <2>1, <2>2, Zenon DEF Store
<1>2. ASSUME NEW s \in Sessions, GCDeletes(s) PROVE Delete(s)
  <2>1. PICK k \in 1..3 : GCDeletesCmd(k, s)
    BY <1>2, Zenon DEF GCDeletes, GCDeletesCmd
  <2>2. k = 1 \/ k = 2 \/ k = 3
    OBVIOUS
  <2> QED  BY <2>1, <2>2, Zenon DEF Delete
<1> QED  BY <1>1, <1>2, Zenon DEF Next, SessionStep, GCStep

-----------------------------------------------------------------------------
(***************************************************************************)
(* Every step keeps the types: one leaf per action.                        *)
(***************************************************************************)
LEMMA TypeStep == ASSUME TypeOK, [Next]_vars PROVE TypeOK'
<1> USE ValkeyAssumption
        DEF TypeOK, StoreTypeOK, SandboxInfo, NoRecord, Names, Absent, Stored, Deleting,
            vars, storeVars, sessionVars, gcVars
<1>1. ASSUME NEW s \in Sessions, StoreSandboxCmd(1, s) PROVE TypeOK'
  BY <1>1 DEF StoreSandboxCmd, StoreStage, Stamps, StoreCmd, PlaceHolder, Goto, Works
<1>2. ASSUME NEW s \in Sessions, StoreSandboxCmd(2, s) PROVE TypeOK'
  BY <1>2 DEF StoreSandboxCmd, StoreStage, Stamps, StoreCmd, PlaceHolder, Goto, Works
<1>3. ASSUME NEW s \in Sessions, StoreSandboxCmd(3, s) PROVE TypeOK'
  BY <1>3 DEF StoreSandboxCmd, StoreStage, Stamps, StoreCmd, PlaceHolder, Goto, Works
<1>4. ASSUME NEW s \in Sessions, StoreSandboxBreaks(s) PROVE TypeOK'
  BY <1>4 DEF StoreSandboxBreaks, Breaks, Goto
<1>5. ASSUME NEW s \in Sessions, TouchExists(s) PROVE TypeOK'
  BY <1>5 DEF TouchExists, Stamps, Works
<1>6. ASSUME NEW s \in Sessions, TouchAdd(s) PROVE TypeOK'
  BY <1>6 DEF TouchAdd, Works
<1>7. ASSUME NEW s \in Sessions, TouchBreaks(s) PROVE TypeOK'
  BY <1>7 DEF TouchBreaks, Breaks
<1>8. ASSUME NEW s \in Sessions, GCDeleteObject(s) PROVE TypeOK'
  BY <1>8 DEF GCDeleteObject, Works
<1>9. ASSUME NEW s \in Sessions, GCSkips(s) PROVE TypeOK'
  BY <1>9 DEF GCSkips, Works
<1>10. ASSUME NEW s \in Sessions, GCDeletesCmd(1, s) PROVE TypeOK'
  BY <1>10 DEF GCDeletesCmd, DeleteStage, DeleteSandboxBySessionID, DeleteCmd, Works
<1>11. ASSUME NEW s \in Sessions, GCDeletesCmd(2, s) PROVE TypeOK'
  BY <1>11 DEF GCDeletesCmd, DeleteStage, DeleteSandboxBySessionID, DeleteCmd, Works
<1>12. ASSUME NEW s \in Sessions, GCDeletesCmd(3, s) PROVE TypeOK'
  BY <1>12 DEF GCDeletesCmd, DeleteStage, DeleteSandboxBySessionID, DeleteCmd, Works
<1>13. CASE GCListInactive
  BY <1>13 DEF GCListInactive, Works, ListInactiveSandboxes, RangeByScore, InRange
<1>14. CASE GCLoadInactive
  BY <1>14 DEF GCLoadInactive, Works, Load
<1>15. CASE GCListExpired
  BY <1>15 DEF GCListExpired, Works, RangeByScore, InRange
<1>16. CASE GCLoadExpired
  BY <1>16 DEF GCLoadExpired, Works, Load
<1>17. CASE GCListBreaks
  BY <1>17 DEF GCListBreaks, Breaks
<1>18. CASE GCDeleteBreaks
  BY <1>18 DEF GCDeleteBreaks, Breaks
<1>19. CASE GCEnds
  BY <1>19 DEF GCEnds, Works
<1>20. CASE Tick
  BY <1>20 DEF Tick
<1>21. CASE UNCHANGED vars
  BY <1>21
<1>22. CASE GCBegins
  BY <1>22 DEF GCBegins, Works
<1> QED
  BY <1>1, <1>2, <1>3, <1>4, <1>5, <1>6, <1>7, <1>8, <1>9, <1>10, <1>11, <1>12, <1>13, <1>14,
     <1>15, <1>16, <1>17, <1>18, <1>19, <1>20, <1>21, <1>22, StepCases, Zenon DEF Store, Delete

(***************************************************************************)
(* The collector is never between two deletions.                           *)
(***************************************************************************)
LEMMA CollectorKept == ASSUME TypeOK, CollectorInv, [Next]_vars PROVE CollectorInv'
<1> USE ValkeyAssumption
        DEF TypeOK, StoreTypeOK, SandboxInfo, NoRecord, Names, Absent, Stored, Deleting,
            vars, storeVars, sessionVars, gcVars, CollectorInv
<1>1. ASSUME NEW s \in Sessions, StoreSandboxCmd(1, s) PROVE CollectorInv'
  BY <1>1 DEF StoreSandboxCmd, StoreStage, Stamps, StoreCmd, PlaceHolder, Goto, Works
<1>2. ASSUME NEW s \in Sessions, StoreSandboxCmd(2, s) PROVE CollectorInv'
  BY <1>2 DEF StoreSandboxCmd, StoreStage, Stamps, StoreCmd, PlaceHolder, Goto, Works
<1>3. ASSUME NEW s \in Sessions, StoreSandboxCmd(3, s) PROVE CollectorInv'
  BY <1>3 DEF StoreSandboxCmd, StoreStage, Stamps, StoreCmd, PlaceHolder, Goto, Works
<1>4. ASSUME NEW s \in Sessions, StoreSandboxBreaks(s) PROVE CollectorInv'
  BY <1>4 DEF StoreSandboxBreaks, Breaks, Goto
<1>5. ASSUME NEW s \in Sessions, TouchExists(s) PROVE CollectorInv'
  BY <1>5 DEF TouchExists, Stamps, Works
<1>6. ASSUME NEW s \in Sessions, TouchAdd(s) PROVE CollectorInv'
  BY <1>6 DEF TouchAdd, Works
<1>7. ASSUME NEW s \in Sessions, TouchBreaks(s) PROVE CollectorInv'
  BY <1>7 DEF TouchBreaks, Breaks
<1>8. ASSUME NEW s \in Sessions, GCDeleteObject(s) PROVE CollectorInv'
  BY <1>8 DEF GCDeleteObject, Works
<1>9. ASSUME NEW s \in Sessions, GCSkips(s) PROVE CollectorInv'
  BY <1>9 DEF GCSkips, Works
<1>10. ASSUME NEW s \in Sessions, GCDeletesCmd(1, s) PROVE CollectorInv'
  BY <1>10 DEF GCDeletesCmd, DeleteStage, DeleteSandboxBySessionID, DeleteCmd, Works
<1>11. ASSUME NEW s \in Sessions, GCDeletesCmd(2, s) PROVE CollectorInv'
  BY <1>11 DEF GCDeletesCmd, DeleteStage, DeleteSandboxBySessionID, DeleteCmd, Works
<1>12. ASSUME NEW s \in Sessions, GCDeletesCmd(3, s) PROVE CollectorInv'
  BY <1>12 DEF GCDeletesCmd, DeleteStage, DeleteSandboxBySessionID, DeleteCmd, Works
<1>13. CASE GCListInactive
  BY <1>13 DEF GCListInactive, Works, ListInactiveSandboxes, RangeByScore, InRange
<1>14. CASE GCLoadInactive
  BY <1>14 DEF GCLoadInactive, Works, Load
<1>15. CASE GCListExpired
  BY <1>15 DEF GCListExpired, Works, RangeByScore, InRange
<1>16. CASE GCLoadExpired
  BY <1>16 DEF GCLoadExpired, Works, Load
<1>17. CASE GCListBreaks
  BY <1>17 DEF GCListBreaks, Breaks
<1>18. CASE GCDeleteBreaks
  BY <1>18 DEF GCDeleteBreaks, Breaks
<1>19. CASE GCEnds
  BY <1>19 DEF GCEnds, Works
<1>20. CASE Tick
  BY <1>20 DEF Tick
<1>21. CASE UNCHANGED vars
  BY <1>21
<1>22. CASE GCBegins
  BY <1>22 DEF GCBegins, Works
<1> QED
  BY <1>1, <1>2, <1>3, <1>4, <1>5, <1>6, <1>7, <1>8, <1>9, <1>10, <1>11, <1>12, <1>13, <1>14,
     <1>15, <1>16, <1>17, <1>18, <1>19, <1>20, <1>21, <1>22, StepCases, Zenon DEF Store, Delete

(***************************************************************************)
(* A session whose pipeline has just begun stays unknown.                  *)
(***************************************************************************)
LEMMA StoringKept ==
    ASSUME TypeOK, CollectorInv, StoringInv, DeletingInv, [Next]_vars
    PROVE  StoringInv'
<1> USE ValkeyAssumption
        DEF TypeOK, StoreTypeOK, SandboxInfo, NoRecord, Names, Absent, Stored, Deleting,
            vars, storeVars, sessionVars, gcVars, StoringInv, DeletingInv, CollectorInv, Known
<1>1. ASSUME NEW s \in Sessions, StoreSandboxCmd(1, s) PROVE StoringInv'
  BY <1>1 DEF StoreSandboxCmd, StoreStage, Stamps, StoreCmd, PlaceHolder, Goto, Works
<1>2. ASSUME NEW s \in Sessions, StoreSandboxCmd(2, s) PROVE StoringInv'
  BY <1>2 DEF StoreSandboxCmd, StoreStage, Stamps, StoreCmd, PlaceHolder, Goto, Works
<1>3. ASSUME NEW s \in Sessions, StoreSandboxCmd(3, s) PROVE StoringInv'
  BY <1>3 DEF StoreSandboxCmd, StoreStage, Stamps, StoreCmd, PlaceHolder, Goto, Works
<1>4. ASSUME NEW s \in Sessions, StoreSandboxBreaks(s) PROVE StoringInv'
  BY <1>4 DEF StoreSandboxBreaks, Breaks, Goto
<1>5. ASSUME NEW s \in Sessions, TouchExists(s) PROVE StoringInv'
  BY <1>5 DEF TouchExists, Stamps, Works
<1>6. ASSUME NEW s \in Sessions, TouchAdd(s) PROVE StoringInv'
  BY <1>6 DEF TouchAdd, Works
<1>7. ASSUME NEW s \in Sessions, TouchBreaks(s) PROVE StoringInv'
  BY <1>7 DEF TouchBreaks, Breaks
<1>8. ASSUME NEW s \in Sessions, GCDeleteObject(s) PROVE StoringInv'
  BY <1>8 DEF GCDeleteObject, Works
<1>9. ASSUME NEW s \in Sessions, GCSkips(s) PROVE StoringInv'
  BY <1>9 DEF GCSkips, Works
<1>10. ASSUME NEW s \in Sessions, GCDeletesCmd(1, s) PROVE StoringInv'
  BY <1>10 DEF GCDeletesCmd, DeleteStage, DeleteSandboxBySessionID, DeleteCmd, Works
<1>11. ASSUME NEW s \in Sessions, GCDeletesCmd(2, s) PROVE StoringInv'
  BY <1>11 DEF GCDeletesCmd, DeleteStage, DeleteSandboxBySessionID, DeleteCmd, Works
<1>12. ASSUME NEW s \in Sessions, GCDeletesCmd(3, s) PROVE StoringInv'
  BY <1>12 DEF GCDeletesCmd, DeleteStage, DeleteSandboxBySessionID, DeleteCmd, Works
<1>13. CASE GCListInactive
  BY <1>13 DEF GCListInactive, Works, ListInactiveSandboxes, RangeByScore, InRange
<1>14. CASE GCLoadInactive
  BY <1>14 DEF GCLoadInactive, Works, Load
<1>15. CASE GCListExpired
  BY <1>15 DEF GCListExpired, Works, RangeByScore, InRange
<1>16. CASE GCLoadExpired
  BY <1>16 DEF GCLoadExpired, Works, Load
<1>17. CASE GCListBreaks
  BY <1>17 DEF GCListBreaks, Breaks
<1>18. CASE GCDeleteBreaks
  BY <1>18 DEF GCDeleteBreaks, Breaks
<1>19. CASE GCEnds
  BY <1>19 DEF GCEnds, Works
<1>20. CASE Tick
  BY <1>20 DEF Tick
<1>21. CASE UNCHANGED vars
  BY <1>21
<1>22. CASE GCBegins
  BY <1>22 DEF GCBegins, Works
<1> QED
  BY <1>1, <1>2, <1>3, <1>4, <1>5, <1>6, <1>7, <1>8, <1>9, <1>10, <1>11, <1>12, <1>13, <1>14,
     <1>15, <1>16, <1>17, <1>18, <1>19, <1>20, <1>21, <1>22, StepCases, Zenon DEF Store, Delete

(***************************************************************************)
(* A deletion keeps ahead of its sorted sets, and its crossings are kept.  *)
(***************************************************************************)
LEMMA DeletingKept ==
    ASSUME TypeOK, CollectorInv, StoringInv, DeletingInv, [Next]_vars
    PROVE  DeletingInv'
<1> USE ValkeyAssumption
        DEF TypeOK, StoreTypeOK, SandboxInfo, NoRecord, Names, Absent, Stored, Deleting,
            vars, storeVars, sessionVars, gcVars, DeletingInv, CollectorInv, StoringInv, Known
<1>1. ASSUME NEW s \in Sessions, StoreSandboxCmd(1, s) PROVE DeletingInv'
  BY <1>1 DEF StoreSandboxCmd, StoreStage, Stamps, StoreCmd, PlaceHolder, Goto, Works
<1>2. ASSUME NEW s \in Sessions, StoreSandboxCmd(2, s) PROVE DeletingInv'
  BY <1>2 DEF StoreSandboxCmd, StoreStage, Stamps, StoreCmd, PlaceHolder, Goto, Works
<1>3. ASSUME NEW s \in Sessions, StoreSandboxCmd(3, s) PROVE DeletingInv'
  BY <1>3 DEF StoreSandboxCmd, StoreStage, Stamps, StoreCmd, PlaceHolder, Goto, Works
<1>4. ASSUME NEW s \in Sessions, StoreSandboxBreaks(s) PROVE DeletingInv'
  BY <1>4 DEF StoreSandboxBreaks, Breaks, Goto
<1>5. ASSUME NEW s \in Sessions, TouchExists(s) PROVE DeletingInv'
  BY <1>5 DEF TouchExists, Stamps, Works
<1>6. ASSUME NEW s \in Sessions, TouchAdd(s) PROVE DeletingInv'
  BY <1>6 DEF TouchAdd, Works
<1>7. ASSUME NEW s \in Sessions, TouchBreaks(s) PROVE DeletingInv'
  BY <1>7 DEF TouchBreaks, Breaks
<1>8. ASSUME NEW s \in Sessions, GCDeleteObject(s) PROVE DeletingInv'
  BY <1>8 DEF GCDeleteObject, Works
<1>9. ASSUME NEW s \in Sessions, GCSkips(s) PROVE DeletingInv'
  BY <1>9 DEF GCSkips, Works
<1>10. ASSUME NEW s \in Sessions, GCDeletesCmd(1, s) PROVE DeletingInv'
  BY <1>10 DEF GCDeletesCmd, DeleteStage, DeleteSandboxBySessionID, DeleteCmd, Works
<1>11. ASSUME NEW s \in Sessions, GCDeletesCmd(2, s) PROVE DeletingInv'
  BY <1>11 DEF GCDeletesCmd, DeleteStage, DeleteSandboxBySessionID, DeleteCmd, Works
<1>12. ASSUME NEW s \in Sessions, GCDeletesCmd(3, s) PROVE DeletingInv'
  BY <1>12 DEF GCDeletesCmd, DeleteStage, DeleteSandboxBySessionID, DeleteCmd, Works
<1>13. CASE GCListInactive
  BY <1>13 DEF GCListInactive, Works, ListInactiveSandboxes, RangeByScore, InRange
<1>14. CASE GCLoadInactive
  BY <1>14 DEF GCLoadInactive, Works, Load
<1>15. CASE GCListExpired
  BY <1>15 DEF GCListExpired, Works, RangeByScore, InRange
<1>16. CASE GCLoadExpired
  BY <1>16 DEF GCLoadExpired, Works, Load
<1>17. CASE GCListBreaks
  BY <1>17 DEF GCListBreaks, Breaks
<1>18. CASE GCDeleteBreaks
  BY <1>18 DEF GCDeleteBreaks, Breaks
<1>19. CASE GCEnds
  BY <1>19 DEF GCEnds, Works
<1>20. CASE Tick
  BY <1>20 DEF Tick
<1>21. CASE UNCHANGED vars
  BY <1>21
<1>22. CASE GCBegins
  BY <1>22 DEF GCBegins, Works
<1> QED
  BY <1>1, <1>2, <1>3, <1>4, <1>5, <1>6, <1>7, <1>8, <1>9, <1>10, <1>11, <1>12, <1>13, <1>14,
     <1>15, <1>16, <1>17, <1>18, <1>19, <1>20, <1>21, <1>22, StepCases, Zenon DEF Store, Delete

(***************************************************************************)
(* Nothing comes back for a session that was deleted but what is crossed.  *)
(***************************************************************************)
LEMMA DeletedKept ==
    ASSUME TypeOK, CollectorInv, StoringInv, DeletingInv, DeletedInv, [Next]_vars
    PROVE  DeletedInv'
<1> USE ValkeyAssumption
        DEF TypeOK, StoreTypeOK, SandboxInfo, NoRecord, Names, Absent, Stored, Deleting,
            vars, storeVars, sessionVars, gcVars, DeletedInv, DeletingInv, CollectorInv, StoringInv, Known
<1>1. ASSUME NEW s \in Sessions, StoreSandboxCmd(1, s) PROVE DeletedInv'
  BY <1>1 DEF StoreSandboxCmd, StoreStage, Stamps, StoreCmd, PlaceHolder, Goto, Works
<1>2. ASSUME NEW s \in Sessions, StoreSandboxCmd(2, s) PROVE DeletedInv'
  BY <1>2 DEF StoreSandboxCmd, StoreStage, Stamps, StoreCmd, PlaceHolder, Goto, Works
<1>3. ASSUME NEW s \in Sessions, StoreSandboxCmd(3, s) PROVE DeletedInv'
  BY <1>3 DEF StoreSandboxCmd, StoreStage, Stamps, StoreCmd, PlaceHolder, Goto, Works
<1>4. ASSUME NEW s \in Sessions, StoreSandboxBreaks(s) PROVE DeletedInv'
  BY <1>4 DEF StoreSandboxBreaks, Breaks, Goto
<1>5. ASSUME NEW s \in Sessions, TouchExists(s) PROVE DeletedInv'
  BY <1>5 DEF TouchExists, Stamps, Works
<1>6. ASSUME NEW s \in Sessions, TouchAdd(s) PROVE DeletedInv'
  BY <1>6 DEF TouchAdd, Works
<1>7. ASSUME NEW s \in Sessions, TouchBreaks(s) PROVE DeletedInv'
  BY <1>7 DEF TouchBreaks, Breaks
<1>8. ASSUME NEW s \in Sessions, GCDeleteObject(s) PROVE DeletedInv'
  BY <1>8 DEF GCDeleteObject, Works
<1>9. ASSUME NEW s \in Sessions, GCSkips(s) PROVE DeletedInv'
  BY <1>9 DEF GCSkips, Works
<1>10. ASSUME NEW s \in Sessions, GCDeletesCmd(1, s) PROVE DeletedInv'
  BY <1>10 DEF GCDeletesCmd, DeleteStage, DeleteSandboxBySessionID, DeleteCmd, Works
<1>11. ASSUME NEW s \in Sessions, GCDeletesCmd(2, s) PROVE DeletedInv'
  BY <1>11 DEF GCDeletesCmd, DeleteStage, DeleteSandboxBySessionID, DeleteCmd, Works
<1>12. ASSUME NEW s \in Sessions, GCDeletesCmd(3, s) PROVE DeletedInv'
  BY <1>12 DEF GCDeletesCmd, DeleteStage, DeleteSandboxBySessionID, DeleteCmd, Works
<1>13. CASE GCListInactive
  BY <1>13 DEF GCListInactive, Works, ListInactiveSandboxes, RangeByScore, InRange
<1>14. CASE GCLoadInactive
  BY <1>14 DEF GCLoadInactive, Works, Load
<1>15. CASE GCListExpired
  BY <1>15 DEF GCListExpired, Works, RangeByScore, InRange
<1>16. CASE GCLoadExpired
  BY <1>16 DEF GCLoadExpired, Works, Load
<1>17. CASE GCListBreaks
  BY <1>17 DEF GCListBreaks, Breaks
<1>18. CASE GCDeleteBreaks
  BY <1>18 DEF GCDeleteBreaks, Breaks
<1>19. CASE GCEnds
  BY <1>19 DEF GCEnds, Works
<1>20. CASE Tick
  BY <1>20 DEF Tick
<1>21. CASE UNCHANGED vars
  BY <1>21
<1>22. CASE GCBegins
  BY <1>22 DEF GCBegins, Works
<1> QED
  BY <1>1, <1>2, <1>3, <1>4, <1>5, <1>6, <1>7, <1>8, <1>9, <1>10, <1>11, <1>12, <1>13, <1>14,
     <1>15, <1>16, <1>17, <1>18, <1>19, <1>20, <1>21, <1>22, StepCases, Zenon DEF Store, Delete

(***************************************************************************)
(* A record stays indexed as long as it is there.                          *)
(***************************************************************************)
LEMMA IndexedKept ==
    ASSUME TypeOK, CollectorInv, StoringInv, DeletingInv, RecordIndexed, [Next]_vars
    PROVE  RecordIndexed'
<1> USE ValkeyAssumption
        DEF TypeOK, StoreTypeOK, SandboxInfo, NoRecord, Names, Absent, Stored, Deleting,
            vars, storeVars, sessionVars, gcVars, RecordIndexed, DeletingInv, CollectorInv, StoringInv, Known
<1>1. ASSUME NEW s \in Sessions, StoreSandboxCmd(1, s) PROVE RecordIndexed'
  BY <1>1 DEF StoreSandboxCmd, StoreStage, Stamps, StoreCmd, PlaceHolder, Goto, Works
<1>2. ASSUME NEW s \in Sessions, StoreSandboxCmd(2, s) PROVE RecordIndexed'
  BY <1>2 DEF StoreSandboxCmd, StoreStage, Stamps, StoreCmd, PlaceHolder, Goto, Works
<1>3. ASSUME NEW s \in Sessions, StoreSandboxCmd(3, s) PROVE RecordIndexed'
  BY <1>3 DEF StoreSandboxCmd, StoreStage, Stamps, StoreCmd, PlaceHolder, Goto, Works
<1>4. ASSUME NEW s \in Sessions, StoreSandboxBreaks(s) PROVE RecordIndexed'
  BY <1>4 DEF StoreSandboxBreaks, Breaks, Goto
<1>5. ASSUME NEW s \in Sessions, TouchExists(s) PROVE RecordIndexed'
  BY <1>5 DEF TouchExists, Stamps, Works
<1>6. ASSUME NEW s \in Sessions, TouchAdd(s) PROVE RecordIndexed'
  BY <1>6 DEF TouchAdd, Works
<1>7. ASSUME NEW s \in Sessions, TouchBreaks(s) PROVE RecordIndexed'
  BY <1>7 DEF TouchBreaks, Breaks
<1>8. ASSUME NEW s \in Sessions, GCDeleteObject(s) PROVE RecordIndexed'
  BY <1>8 DEF GCDeleteObject, Works
<1>9. ASSUME NEW s \in Sessions, GCSkips(s) PROVE RecordIndexed'
  BY <1>9 DEF GCSkips, Works
<1>10. ASSUME NEW s \in Sessions, GCDeletesCmd(1, s) PROVE RecordIndexed'
  BY <1>10 DEF GCDeletesCmd, DeleteStage, DeleteSandboxBySessionID, DeleteCmd, Works
<1>11. ASSUME NEW s \in Sessions, GCDeletesCmd(2, s) PROVE RecordIndexed'
  BY <1>11 DEF GCDeletesCmd, DeleteStage, DeleteSandboxBySessionID, DeleteCmd, Works
<1>12. ASSUME NEW s \in Sessions, GCDeletesCmd(3, s) PROVE RecordIndexed'
  BY <1>12 DEF GCDeletesCmd, DeleteStage, DeleteSandboxBySessionID, DeleteCmd, Works
<1>13. CASE GCListInactive
  BY <1>13 DEF GCListInactive, Works, ListInactiveSandboxes, RangeByScore, InRange
<1>14. CASE GCLoadInactive
  BY <1>14 DEF GCLoadInactive, Works, Load
<1>15. CASE GCListExpired
  BY <1>15 DEF GCListExpired, Works, RangeByScore, InRange
<1>16. CASE GCLoadExpired
  BY <1>16 DEF GCLoadExpired, Works, Load
<1>17. CASE GCListBreaks
  BY <1>17 DEF GCListBreaks, Breaks
<1>18. CASE GCDeleteBreaks
  BY <1>18 DEF GCDeleteBreaks, Breaks
<1>19. CASE GCEnds
  BY <1>19 DEF GCEnds, Works
<1>20. CASE Tick
  BY <1>20 DEF Tick
<1>21. CASE UNCHANGED vars
  BY <1>21
<1>22. CASE GCBegins
  BY <1>22 DEF GCBegins, Works
<1> QED
  BY <1>1, <1>2, <1>3, <1>4, <1>5, <1>6, <1>7, <1>8, <1>9, <1>10, <1>11, <1>12, <1>13, <1>14,
     <1>15, <1>16, <1>17, <1>18, <1>19, <1>20, <1>21, <1>22, StepCases, Zenon DEF Store, Delete

-----------------------------------------------------------------------------
\* The initial state satisfies the inductive invariant.
LEMMA InitIInv == Init => IInv
<1> SUFFICES ASSUME Init PROVE IInv
  OBVIOUS
<1> USE ValkeyAssumption DEF Init, Absent, NoRecord, Stored, Deleting
<1>1. TypeOK
  BY DEF TypeOK, StoreTypeOK
<1>2. CollectorInv
  BY DEF CollectorInv
<1>3. StoringInv
  BY DEF StoringInv, Known
<1>4. DeletingInv /\ DeletedInv
  BY DEF DeletingInv, DeletedInv
<1>5. RecordIndexed
  BY DEF RecordIndexed
<1> QED  BY <1>1, <1>2, <1>3, <1>4, <1>5 DEF IInv

\* The inductive invariant is preserved: the step lemmas together.
LEMMA NextIInv == IInv /\ [Next]_vars => IInv'
  BY TypeStep, CollectorKept, StoringKept, DeletingKept, DeletedKept, IndexedKept DEF IInv

\* The inductive invariant holds throughout.
LEMMA Invariance == Spec => []IInv
  BY InitIInv, NextIInv, PTL DEF Spec

(***************************************************************************)
(* The type invariant: a score in either sorted set is a time, or the      *)
(* member is absent, and the collector only ever holds sessions, whatever  *)
(* the commands of a cut pipeline have left behind.                        *)
(***************************************************************************)
THEOREM TypeCorrect == Spec => []TypeOK
<1>1. IInv => TypeOK
  BY DEF IInv
<1> QED  BY Invariance, <1>1, PTL

(***************************************************************************)
(* StoreSandbox, DeleteSandboxBySessionID and UpdateSessionLastActivity of *)
(* the Valkey store keep every record in both sorted sets, in any          *)
(* interleaving of their commands, unless a pipeline broke.                *)
(***************************************************************************)
THEOREM RecordsIndexed == Spec => []RecordIndexed
<1>1. IInv => RecordIndexed
  BY DEF IInv
<1> QED  BY Invariance, <1>1, PTL

(***************************************************************************)
(* The only entries of the sorted sets that outlive their record are those *)
(* of a pipeline that broke, or that a touch or the last command of        *)
(* storing wrote after the deletion that it crossed.                       *)
(***************************************************************************)
THEOREM NothingElseLeft == Spec => []NothingLeft
<1>1. IInv => NothingLeft
  BY DEF IInv, DeletedInv, AtRest, NothingLeft
<1> QED  BY Invariance, <1>1, PTL
==============================================================================
