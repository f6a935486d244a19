---------------------------- MODULE ManagerProofs ----------------------------
(***************************************************************************)
(* Proofs about three parts of the workload manager process that share no  *)
(* state: CertWatcher, for any number of rotations; the readiness watch of *)
(* ReadyWatch, for any number of handlers and workers; the life of the     *)
(* process in ManagerServer, for any set of requests.                      *)
(***************************************************************************)
EXTENDS CertWatcher, ReadyWatch, ManagerServer, TLAPS

-----------------------------------------------------------------------------
(***************************************************************************)
(* What the reload under way, or the constructor, has read so far.         *)
(***************************************************************************)
HasRead(f) ==
    \/ f = "cert" /\ pc \in {"readKey", "readCA", "publish", "newKey", "newCA", "watch"}
    \/ f = "key" /\ pc \in {"readCA", "publish", "newCA", "watch"}
    \/ f = "ca" /\ pc \in {"publish", "watch"}

(***************************************************************************)
(* A value that was read is still in its file, or something will make the  *)
(* loop read again, or the change was missed by the constructor.           *)
(***************************************************************************)
Again == events \/ debounce \/ missed

ReadsFresh ==
    /\ \A f \in Files : HasRead(f) => buf[f] \in Versions \cup {Torn} /\ (buf[f] = disk[f] \/ Again)
    /\ pc \in Constructor => (\A f \in Files : ~HasRead(f) => buf[f] = None)
    /\ pc \in Constructor => ~events /\ ~debounce

(***************************************************************************)
(* Between reloads: what is served is on disk, a rotation is under way, or *)
(* the loop will read again.                                               *)
(***************************************************************************)
ServesFresh ==
    /\ pc = "select" => live = disk \/ (\E f \in Files : disk[f] # next) \/ Again
    /\ pc \in {"publish", "watch"} => KeyPair

CertIInv == CertTypeOK /\ ReadsFresh /\ ServesFresh /\ ServesKeyPair

(***************************************************************************)
(* The initial state satisfies the inductive invariant.                    *)
(***************************************************************************)
LEMMA InitCertIInv == CertInit => CertIInv
<1> SUFFICES ASSUME CertInit PROVE CertIInv
  OBVIOUS
<1> USE CertAssumption DEF CertInit, Files, Versions, Torn, None, Constructor, Reload, Stopped
<1>1. CertTypeOK
  <2>1. 0 \in Versions
    OBVIOUS
  <2>2. disk \in [Files -> Versions \cup {Torn}] /\ buf \in [Files -> Versions \cup {Torn, None}]
    BY <2>1
  <2>3. live \in [Files -> Versions \cup {None}]
    BY <2>1
  <2> QED  BY <2>1, <2>2, <2>3, Zenon DEF CertTypeOK
<1>2. ReadsFresh
  BY DEF ReadsFresh, HasRead
<1>3. ServesFresh /\ ServesKeyPair
  BY DEF ServesFresh, ServesKeyPair, Watching
<1> QED  BY <1>1, <1>2, <1>3 DEF CertIInv

(***************************************************************************)
(* A change of a file keeps the invariant: it is an event, or it is missed *)
(* in the constructor, or nothing had been read from the file.             *)
(***************************************************************************)
LEMMA ChangedIInv ==
    ASSUME CertIInv, NEW f \in Files, NEW v \in Versions \cup {Torn}, Changed(f, v), next' = next
    PROVE  CertIInv'
<1> USE CertAssumption DEF CertIInv, Files, Versions, Torn, None, Constructor, Reload, Stopped,
                           Changed
<1>1. events' \in BOOLEAN /\ missed' \in BOOLEAN
  BY Zenon
<1>2. CertTypeOK'
  BY <1>1 DEF CertTypeOK
<1>3. Watching => events'
  BY Zenon
<1>4. pc \in Constructor /\ buf[f] # None => missed'
  BY Zenon
<1>5. (events => events') /\ (missed => missed')
  BY Zenon
<1>6. pc \in Constructor => ~events'
  BY Zenon DEF ReadsFresh, Watching
<1>7. ReadsFresh'
  <2>1. ASSUME NEW g \in Files, HasRead(g)'
        PROVE  buf'[g] \in Versions \cup {Torn} /\ (buf'[g] = disk'[g] \/ Again')
    <3>1. HasRead(g) /\ buf'[g] = buf[g]
      BY <2>1 DEF HasRead
    <3>2. CASE g = f
      <4>1. Watching \/ (pc \in Constructor /\ buf[f] # None)
        BY <3>1, <3>2 DEF HasRead, ReadsFresh, Watching
      <4> QED  BY <3>1, <4>1, <1>3, <1>4 DEF ReadsFresh, Again
    <3>3. CASE g # f
      BY <3>1, <3>3, <1>5 DEF ReadsFresh, Again, CertTypeOK
    <3> QED  BY <3>2, <3>3
  <2> QED  BY <2>1, <1>6 DEF ReadsFresh, HasRead
<1>8. ServesFresh' /\ ServesKeyPair'
  BY <1>3 DEF ServesFresh, ServesKeyPair, Watching, Again, KeyPair
<1> QED  BY <1>2, <1>7, <1>8

(***************************************************************************)
(* The inductive invariant is preserved.                                   *)
(***************************************************************************)
LEMMA NextCertIInv == CertIInv /\ [CertNext]_certVars => CertIInv'
<1> SUFFICES ASSUME CertIInv, [CertNext]_certVars PROVE CertIInv'
  OBVIOUS
<1> USE CertAssumption
        DEF CertIInv, CertTypeOK, ReadsFresh, ServesFresh, ServesKeyPair, HasRead, Again, Watching, Files,
            Versions, Torn, None, Constructor, Reload, Stopped, KeyPair, Loaded, certVars, fileVars
<1>1. CASE BeginRotation
  BY <1>1 DEF BeginRotation
<1>2. ASSUME NEW f \in Files, Truncate(f) PROVE CertIInv'
  <2>1. Changed(f, Torn) /\ next' = next
    BY <1>2 DEF Truncate
  <2> QED  BY <2>1, ChangedIInv
<1>3. ASSUME NEW f \in Files, Fill(f) PROVE CertIInv'
  <2>1. Changed(f, next) /\ next' = next /\ next \in Versions
    BY <1>3 DEF Fill
  <2> QED  BY <2>1, ChangedIInv
<1>4. CASE NewReadsCert
  BY <1>4 DEF NewReadsCert, Read
<1>5. CASE NewReadsKey
  BY <1>5 DEF NewReadsKey, Read
<1>6. CASE NewReadsCA
  BY <1>6 DEF NewReadsCA, Read
<1>7. CASE NewCertWatcher
  BY <1>7 DEF NewCertWatcher
<1>8. CASE NewFails
  BY <1>8 DEF NewFails
<1>9. CASE Event
  BY <1>9, Zenon DEF Event
<1>10. CASE Debounce
  BY <1>10, Zenon DEF Debounce
<1>11. CASE ReadCert
  BY <1>11 DEF ReadCert, Read
<1>12. CASE ReadKey
  BY <1>12 DEF ReadKey, Read
<1>13. CASE ReadCA
  BY <1>13 DEF ReadCA, Read
<1>14. CASE Publish
  BY <1>14 DEF Publish
<1>15. CASE ReloadFails
  BY <1>15 DEF ReloadFails
<1>16. CASE Stop
  BY <1>16 DEF Stop
<1>17. CASE UNCHANGED certVars
  BY <1>17
<1> QED
  BY <1>1, <1>2, <1>3, <1>4, <1>5, <1>6, <1>7, <1>8, <1>9, <1>10, <1>11, <1>12, <1>13, <1>14, Zenon,
     <1>15, <1>16, <1>17 DEF CertNext, Rotate, Construct, Watch

(***************************************************************************)
(* The inductive invariant holds throughout.                               *)
(***************************************************************************)
LEMMA Invariance == CertSpec => []CertIInv
  BY InitCertIInv, NextCertIInv, PTL DEF CertSpec

(***************************************************************************)
(* Whatever the order in which files are replaced and read, handshakes are *)
(* given a certificate with its key, and a whole CA bundle.                *)
(***************************************************************************)
THEOREM KeyPairServed == CertSpec => []ServesKeyPair
<1>1. CertIInv => ServesKeyPair
  BY DEF CertIInv
<1> QED  BY Invariance, <1>1, PTL

(***************************************************************************)
(* The debounced loop overlooks no change that happens while it watches.   *)
(***************************************************************************)
THEOREM NothingOverlooked == CertSpec => []CurrentAtRest
<1>1. CertIInv => CurrentAtRest
  BY DEF CertIInv, ServesFresh, Again, CurrentAtRest, AtRest
<1> QED  BY Invariance, <1>1, PTL

(***************************************************************************)
(* The type invariant: nothing torn is ever handed to handshakes.          *)
(***************************************************************************)
THEOREM TypeCorrect == CertSpec => []CertTypeOK
<1>1. CertIInv => CertTypeOK
  BY DEF CertIInv
<1> QED  BY Invariance, <1>1, PTL

-----------------------------------------------------------------------------
(***************************************************************************)
(* Versions only grow on the way from the files to the handshakes: what is *)
(* in use is no newer than what the reload has read, and that no newer     *)
(* than what is on disk.                                                   *)
(***************************************************************************)
Growing ==
    \A f \in Files :
        /\ disk[f] # Torn => disk[f] <= next
        /\ live[f] # None => live[f] <= next /\ (disk[f] # Torn => live[f] <= disk[f])
        /\ HasRead(f) /\ buf[f] # Torn =>
              /\ buf[f] <= next /\ (disk[f] # Torn => buf[f] <= disk[f])
              /\ live[f] # None => live[f] <= buf[f]

(***************************************************************************)
(* The steps of the rotation and of the watcher keep it.                   *)
(***************************************************************************)
LEMMA GrowingStep == ASSUME CertIInv, Growing, [CertNext]_certVars PROVE Growing'
<1> USE CertAssumption
        DEF CertIInv, CertTypeOK, Growing, HasRead, Files, Versions, Torn, None, certVars, fileVars
<1>1. CASE BeginRotation
  BY <1>1 DEF BeginRotation
<1>2. ASSUME NEW f \in Files, Truncate(f) \/ Fill(f) PROVE Growing'
  BY <1>2 DEF Truncate, Fill, Changed
<1>3. CASE NewReadsCert \/ ReadCert
  BY <1>3 DEF NewReadsCert, ReadCert, Read
<1>4. CASE NewReadsKey \/ ReadKey
  BY <1>4 DEF NewReadsKey, ReadKey, Read
<1>5. CASE NewReadsCA \/ ReadCA
  BY <1>5 DEF NewReadsCA, ReadCA, Read
<1>6. CASE NewCertWatcher \/ Publish
  BY <1>6 DEF NewCertWatcher, Publish, Loaded, KeyPair
<1>7. CASE NewFails \/ Event \/ Debounce \/ ReloadFails \/ Stop \/ UNCHANGED certVars
  BY <1>7 DEF NewFails, Event, Debounce, ReloadFails, Stop
<1> QED
  BY <1>1, <1>2, <1>3, <1>4, <1>5, <1>6, <1>7, Zenon DEF CertNext, Rotate, Construct, Watch

(***************************************************************************)
(* However a reload falls into a rotation, reloadAll never puts an older   *)
(* certificate, key or CA bundle in the place of a newer one.              *)
(***************************************************************************)
THEOREM NothingOlder == CertSpec => NeverOlder
<1> DEFINE NotOlder == \A f \in Files : live[f] # None => live'[f] >= live[f]
<1>1. CertInit => Growing
  BY CertAssumption DEF CertInit, Growing, HasRead, Files, None, Torn
<1>2. CertIInv /\ Growing /\ [CertNext]_certVars => Growing'
  BY GrowingStep
<1>3. CertIInv /\ Growing /\ [CertNext]_certVars => [NotOlder]_certVars
  <2> SUFFICES ASSUME CertIInv, Growing, CertNext PROVE NotOlder
    OBVIOUS
  <2> USE CertAssumption DEF CertIInv, CertTypeOK, Files, Versions, Torn, None
  <2>1. CASE NewCertWatcher \/ Publish
    BY <2>1 DEF Growing, HasRead, NewCertWatcher, Publish, Loaded, KeyPair
  <2>2. CASE UNCHANGED live
    BY <2>2
  <2>3. NewCertWatcher \/ Publish \/ UNCHANGED live
    BY DEF CertNext, Rotate, BeginRotation, Truncate, Fill, Changed, Construct, NewReadsCert,
           NewReadsKey, NewReadsCA, NewFails, Watch, Event, Debounce, ReadCert, ReadKey, ReadCA,
           Read, ReloadFails, Stop
  <2> QED  BY <2>1, <2>2, <2>3
<1> QED  BY <1>1, <1>2, <1>3, Invariance, PTL DEF CertSpec, NeverOlder

-----------------------------------------------------------------------------
(***************************************************************************)
(* A busy worker has one name, and no two workers have the same.           *)
(***************************************************************************)
WorkersExclusive ==
    /\ \A w \in Workers : wpc[w] # "idle" => \E h \in Handlers : wkey[w] = {h}
    /\ \A w \in Workers : wpc[w] = "idle" => wkey[w] = {}
    /\ \A v, w \in Workers : \A h \in Handlers : h \in wkey[v] /\ h \in wkey[w] => v = w

Sending(h) == \E w \in Workers : wpc[w] = "send" /\ h \in wkey[w]

(***************************************************************************)
(* The channel of a handler is in one place at a time: in the map, in a    *)
(* worker's hands, or filled.  While the handler may still wait it is in   *)
(* one of them, and before it registers it is in none.                     *)
(***************************************************************************)
ChannelPlaced ==
    \A h \in Handlers :
        /\ h \in watchers => ~chan[h] /\ ~Sending(h) /\ hpc[h] \notin {"new", "returned"}
        /\ Sending(h) => ~chan[h]
        /\ hpc[h] = "new" => ~chan[h] /\ ~Sending(h)
        /\ hpc[h] \in {"registered", "waiting"} => h \in watchers \/ chan[h] \/ Sending(h)

(***************************************************************************)
(* Nothing is known of a sandbox that has not been created.                *)
(***************************************************************************)
NotYetCreated ==
    \A h \in Handlers :
        hpc[h] \in {"new", "registered"} => sandbox[h] = "none" /\ cache[h] = "none"

(***************************************************************************)
(* Whoever knows of a readiness, on the way from the object to the         *)
(* handler, knows of one that happened.                                    *)
(***************************************************************************)
Told(h) ==
    \/ sandbox[h] = "ready" \/ cache[h] = "ready"
    \/ \E w \in Workers : wpc[w] \in {"lock", "send"} /\ h \in wkey[w]
    \/ chan[h] \/ hpc[h] = "received"

Witnessed == \A h \in Handlers : Told(h) => h \in wasReady

ReadyIInv ==
    /\ ReadyTypeOK /\ WorkersExclusive /\ ChannelPlaced /\ NotYetCreated
    /\ NoLostReadiness /\ Witnessed

(***************************************************************************)
(* The initial state satisfies the inductive invariant.                    *)
(***************************************************************************)
LEMMA InitReadyIInv == ReadyInit => ReadyIInv
  BY DEF ReadyInit, ReadyIInv, ReadyTypeOK, States, WorkersExclusive, ChannelPlaced,
         Sending, NotYetCreated, NoLostReadiness, Told, Witnessed

(***************************************************************************)
(* Every step keeps the types.                                             *)
(***************************************************************************)
LEMMA ReadyTypeStep == ASSUME ReadyTypeOK, [ReadyNext]_readyVars PROVE ReadyTypeOK'
<1> USE DEF ReadyTypeOK, States, readyVars, handlerVars, objectVars,
            workerVars, Done
<1>1. ASSUME NEW h \in Handlers, WatchSandboxOnce(h) PROVE ReadyTypeOK'
  BY <1>1 DEF WatchSandboxOnce
<1>2. ASSUME NEW h \in Handlers, CreateSandbox(h) PROVE ReadyTypeOK'
  BY <1>2 DEF CreateSandbox
<1>3. ASSUME NEW h \in Handlers, Receive(h) PROVE ReadyTypeOK'
  BY <1>3 DEF Receive
<1>4. ASSUME NEW h \in Handlers, CreationFails(h) PROVE ReadyTypeOK'
  BY <1>4 DEF CreationFails
<1>5. ASSUME NEW h \in Handlers, Rollback(h) PROVE ReadyTypeOK'
  BY <1>5 DEF Rollback
<1>6. ASSUME NEW h \in Handlers, Return(h) PROVE ReadyTypeOK'
  BY <1>6 DEF Return
<1>7. ASSUME NEW h \in Handlers, ReadyChanges(h) PROVE ReadyTypeOK'
  BY <1>7 DEF ReadyChanges
<1>8. ASSUME NEW h \in Handlers, InformerSync(h) PROVE ReadyTypeOK'
  BY <1>8 DEF InformerSync
<1>9. ASSUME NEW w \in Workers, ReconcileGets(w) PROVE ReadyTypeOK'
  BY <1>9 DEF ReconcileGets
<1>10. ASSUME NEW w \in Workers, ReconcileGetFails(w) PROVE ReadyTypeOK'
  BY <1>10 DEF ReconcileGetFails
<1>11. ASSUME NEW w \in Workers, ReconcileTakesChannel(w) PROVE ReadyTypeOK'
  BY <1>11 DEF ReconcileTakesChannel
<1>12. ASSUME NEW w \in Workers, ReconcileSends(w) PROVE ReadyTypeOK'
  <2>1. chan' \in [Handlers -> BOOLEAN]
    BY <1>12, Zenon DEF ReconcileSends
  <2> QED  BY <1>12, <2>1 DEF ReconcileSends
<1>13. ASSUME NEW w \in Workers, NEW h \in Handlers, ReconcileBegins(w, h)
       PROVE  ReadyTypeOK'
  BY <1>13 DEF ReconcileBegins
<1>14. CASE UNCHANGED readyVars
  BY <1>14
<1> QED
  BY <1>1, <1>2, <1>3, <1>4, <1>5, <1>6, <1>7, <1>8,
     <1>9, <1>10, <1>11, <1>12, <1>13, <1>14
     DEF ReadyNext, HandlerStep, WorkerStep

(***************************************************************************)
(* Every step keeps the workers apart: the work queue hands out a name     *)
(* once.                                                                   *)
(***************************************************************************)
LEMMA WorkersStep ==
    ASSUME ReadyTypeOK, WorkersExclusive, [ReadyNext]_readyVars
    PROVE  WorkersExclusive'
<1> USE DEF ReadyTypeOK, WorkersExclusive, readyVars, handlerVars, objectVars,
            workerVars, Done
<1>1. CASE UNCHANGED workerVars
  BY <1>1
<1>2. ASSUME NEW w \in Workers, NEW h \in Handlers, ReconcileBegins(w, h)
      PROVE  WorkersExclusive'
  BY <1>2 DEF ReconcileBegins
<1>3. ASSUME NEW w \in Workers, ReconcileGets(w) PROVE WorkersExclusive'
  BY <1>3 DEF ReconcileGets
<1>4. ASSUME NEW w \in Workers, ReconcileGetFails(w) PROVE WorkersExclusive'
  BY <1>4 DEF ReconcileGetFails
<1>5. ASSUME NEW w \in Workers, ReconcileTakesChannel(w) PROVE WorkersExclusive'
  BY <1>5, ZenonT(40) DEF ReconcileTakesChannel
<1>6. ASSUME NEW w \in Workers, ReconcileSends(w) PROVE WorkersExclusive'
  BY <1>6 DEF ReconcileSends
<1> QED
  BY <1>1, <1>2, <1>3, <1>4, <1>5, <1>6
     DEF ReadyNext, HandlerStep, WorkerStep, WatchSandboxOnce,
         CreateSandbox, Receive, CreationFails, Rollback, Return,
         ReadyChanges, InformerSync

(***************************************************************************)
(* Every step keeps each channel in one place.                             *)
(***************************************************************************)
LEMMA ChannelStep ==
    ASSUME ReadyTypeOK, WorkersExclusive, ChannelPlaced, [ReadyNext]_readyVars
    PROVE  ChannelPlaced'
<1> USE DEF ReadyTypeOK, WorkersExclusive, ChannelPlaced, Sending,
            readyVars, handlerVars, objectVars, workerVars, Done
<1>1. ASSUME NEW h \in Handlers, WatchSandboxOnce(h) PROVE ChannelPlaced'
  BY <1>1 DEF WatchSandboxOnce
<1>2. ASSUME NEW h \in Handlers, CreateSandbox(h) PROVE ChannelPlaced'
  BY <1>2 DEF CreateSandbox
<1>3. ASSUME NEW h \in Handlers, Receive(h) PROVE ChannelPlaced'
  BY <1>3 DEF Receive
<1>4. ASSUME NEW h \in Handlers, CreationFails(h) PROVE ChannelPlaced'
  BY <1>4 DEF CreationFails
<1>5. ASSUME NEW h \in Handlers, Rollback(h) PROVE ChannelPlaced'
  BY <1>5 DEF Rollback
<1>6. ASSUME NEW h \in Handlers, Return(h) PROVE ChannelPlaced'
  BY <1>6 DEF Return
<1>7. ASSUME NEW h \in Handlers, ReadyChanges(h) \/ InformerSync(h)
      PROVE  ChannelPlaced'
  BY <1>7 DEF ReadyChanges, InformerSync
<1>8. ASSUME NEW w \in Workers, NEW h \in Handlers, ReconcileBegins(w, h)
      PROVE  ChannelPlaced'
  BY <1>8 DEF ReconcileBegins
<1>9. ASSUME NEW w \in Workers, ReconcileGets(w) \/ ReconcileGetFails(w)
      PROVE  ChannelPlaced'
  BY <1>9 DEF ReconcileGets, ReconcileGetFails
<1>10. ASSUME NEW w \in Workers, ReconcileTakesChannel(w) PROVE ChannelPlaced'
  <2>1. PICK h \in Handlers : wkey[w] = {h}
    BY <1>10 DEF ReconcileTakesChannel
  <2>2. CASE h \in watchers
    BY <1>10, <2>1, <2>2 DEF ReconcileTakesChannel
  <2>3. CASE h \notin watchers
    BY <1>10, <2>1, <2>3 DEF ReconcileTakesChannel
  <2> QED  BY <2>2, <2>3
<1>11. ASSUME NEW w \in Workers, ReconcileSends(w) PROVE ChannelPlaced'
  <2>1. PICK h \in Handlers : wkey[w] = {h}
    BY <1>11 DEF ReconcileSends
  <2> QED  BY <1>11, <2>1, ZenonT(40) DEF ReconcileSends
<1>12. CASE UNCHANGED readyVars
  BY <1>12
<1> QED
  BY <1>1, <1>2, <1>3, <1>4, <1>5, <1>6, <1>7, <1>8, <1>9, <1>10, <1>11, <1>12, Zenon
     DEF ReadyNext, HandlerStep, WorkerStep

(***************************************************************************)
(* No step makes a sandbox known before it is created.                     *)
(***************************************************************************)
LEMMA NotYetCreatedStep ==
    ASSUME ReadyTypeOK, NotYetCreated, [ReadyNext]_readyVars
    PROVE  NotYetCreated'
<1> USE DEF ReadyTypeOK, States, NotYetCreated, readyVars, handlerVars,
            objectVars, workerVars
<1>1. ASSUME NEW h \in Handlers, HandlerStep(h) PROVE NotYetCreated'
  BY <1>1 DEF HandlerStep, WatchSandboxOnce, CreateSandbox, Receive,
              CreationFails, Rollback, Return
<1>2. ASSUME NEW h \in Handlers, ReadyChanges(h) \/ InformerSync(h)
      PROVE  NotYetCreated'
  BY <1>2 DEF ReadyChanges, InformerSync
<1>3. CASE UNCHANGED <<hpc, objectVars>>
  BY <1>3
<1> QED
  BY <1>1, <1>2, <1>3
     DEF ReadyNext, WorkerStep, ReconcileBegins, ReconcileGets,
         ReconcileGetFails, ReconcileTakesChannel, ReconcileSends

(***************************************************************************)
(* No step loses a readiness.                                              *)
(***************************************************************************)
LEMMA ReadinessStep ==
    ASSUME ReadyIInv, [ReadyNext]_readyVars PROVE NoLostReadiness'
<1> USE DEF ReadyIInv, ReadyTypeOK, States, WorkersExclusive, NoLostReadiness,
            InProgress, readyVars, handlerVars, objectVars, workerVars,
            Done
<1>1. ASSUME NEW h \in Handlers, HandlerStep(h) PROVE NoLostReadiness'
  BY <1>1 DEF NotYetCreated, HandlerStep, WatchSandboxOnce, CreateSandbox,
              Receive, CreationFails, Rollback, Return
<1>2. ASSUME NEW h \in Handlers, ReadyChanges(h) \/ InformerSync(h)
      PROVE  NoLostReadiness'
  BY <1>2 DEF ReadyChanges, InformerSync
<1>3. ASSUME NEW w \in Workers, NEW h \in Handlers, ReconcileBegins(w, h)
      PROVE  NoLostReadiness'
  BY <1>3 DEF ReconcileBegins
<1>4. ASSUME NEW w \in Workers, ReconcileGets(w) PROVE NoLostReadiness'
  BY <1>4 DEF ReconcileGets
<1>5. ASSUME NEW w \in Workers, ReconcileGetFails(w) PROVE NoLostReadiness'
  BY <1>5 DEF ReconcileGetFails
<1>6. ASSUME NEW w \in Workers, ReconcileTakesChannel(w) PROVE NoLostReadiness'
  <2>1. PICK h \in Handlers : wkey[w] = {h}
    BY <1>6 DEF ReconcileTakesChannel
  <2>2. ~Sending(h)
    BY <1>6, <2>1 DEF ReconcileTakesChannel, Sending
  <2>3. hpc[h] = "waiting" => h \in watchers \/ chan[h]
    BY <2>2 DEF ChannelPlaced
  <2> QED  BY <1>6, <2>1, <2>3 DEF ReconcileTakesChannel
<1>7. ASSUME NEW w \in Workers, ReconcileSends(w) PROVE NoLostReadiness'
  BY <1>7, Zenon DEF ReconcileSends
<1>8. CASE UNCHANGED readyVars
  BY <1>8
<1> QED
  BY <1>1, <1>2, <1>3, <1>4, <1>5, <1>6, <1>7, <1>8 DEF ReadyNext, WorkerStep

(***************************************************************************)
(* No step makes a readiness up.                                           *)
(***************************************************************************)
LEMMA WitnessedStep ==
    ASSUME ReadyTypeOK, WorkersExclusive, Witnessed, [ReadyNext]_readyVars
    PROVE  Witnessed'
<1> USE DEF ReadyTypeOK, States, Witnessed, Told, readyVars, handlerVars, objectVars,
            workerVars, Done
<1>1. ASSUME NEW h \in Handlers, WatchSandboxOnce(h) \/ CreationFails(h) \/ Return(h)
      PROVE  Witnessed'
  BY <1>1 DEF WatchSandboxOnce, CreationFails, Return
<1>2. ASSUME NEW h \in Handlers, CreateSandbox(h) \/ Rollback(h) PROVE Witnessed'
  BY <1>2 DEF CreateSandbox, Rollback
<1>3. ASSUME NEW h \in Handlers, Receive(h) PROVE Witnessed'
  BY <1>3 DEF Receive
<1>4. ASSUME NEW h \in Handlers, ReadyChanges(h) PROVE Witnessed'
  BY <1>4 DEF ReadyChanges
<1>5. ASSUME NEW h \in Handlers, InformerSync(h) PROVE Witnessed'
  BY <1>5 DEF InformerSync
<1>6. ASSUME NEW w \in Workers, NEW h \in Handlers, ReconcileBegins(w, h) PROVE Witnessed'
  BY <1>6 DEF ReconcileBegins
<1>7. ASSUME NEW w \in Workers, ReconcileGets(w) PROVE Witnessed'
  <2>1. PICK h \in Handlers : wkey[w] = {h}
    BY <1>7 DEF ReconcileGets, WorkersExclusive
  <2> QED  BY <1>7, <2>1 DEF ReconcileGets
<1>8. ASSUME NEW w \in Workers, ReconcileGetFails(w) PROVE Witnessed'
  BY <1>8 DEF ReconcileGetFails
<1>9. ASSUME NEW w \in Workers, ReconcileTakesChannel(w) PROVE Witnessed'
  BY <1>9 DEF ReconcileTakesChannel
<1>10. ASSUME NEW w \in Workers, ReconcileSends(w) PROVE Witnessed'
  <2>1. PICK h \in Handlers : wkey[w] = {h}
    BY <1>10 DEF ReconcileSends, WorkersExclusive
  <2>2. h \in wasReady
    BY <1>10, <2>1 DEF ReconcileSends
  <2> QED  BY <1>10, <2>1, <2>2 DEF ReconcileSends
<1>11. CASE UNCHANGED readyVars
  BY <1>11
<1> QED
  BY <1>1, <1>2, <1>3, <1>4, <1>5, <1>6, <1>7, <1>8, <1>9, <1>10, <1>11, Zenon
     DEF ReadyNext, HandlerStep, WorkerStep

(***************************************************************************)
(* The inductive invariant holds throughout.                               *)
(***************************************************************************)
LEMMA ReadyInvariance == ReadySpec => []ReadyIInv
<1>1. ReadyIInv /\ [ReadyNext]_readyVars => ReadyIInv'
  BY ReadyTypeStep, WorkersStep, ChannelStep, NotYetCreatedStep, ReadinessStep,
     WitnessedStep DEF ReadyIInv
<1> QED  BY InitReadyIInv, <1>1, PTL DEF ReadySpec

(***************************************************************************)
(* Registering before creating, taking the channel out of the map under    *)
(* the mutex and sending into a one-place buffer never lose a readiness.   *)
(***************************************************************************)
THEOREM ReadinessKept == ReadySpec => []NoLostReadiness
<1>1. ReadyIInv => NoLostReadiness
  BY DEF ReadyIInv
<1> QED  BY ReadyInvariance, <1>1, PTL

(***************************************************************************)
(* Reconcile, the map and the channels tell a handler of no readiness but  *)
(* one of its own sandbox, with any number of handlers and workers.        *)
(***************************************************************************)
THEOREM ReadinessTrue == ReadySpec => []NoFalseReadiness
<1>1. ReadyIInv => NoFalseReadiness
  BY DEF ReadyIInv, Witnessed, Told, NoFalseReadiness
<1> QED  BY ReadyInvariance, <1>1, PTL

(***************************************************************************)
(* UnWatchSandbox leaves no entry of a handler that has returned.          *)
(***************************************************************************)
THEOREM MapCleaned == ReadySpec => []WatchersCleaned
<1>1. ReadyIInv => WatchersCleaned
  BY DEF ReadyIInv, ReadyTypeOK, ChannelPlaced, WatchersCleaned
<1> QED  BY ReadyInvariance, <1>1, PTL

(***************************************************************************)
(* The comment in Reconcile is right: its send always finds the buffer     *)
(* empty, with any number of workers.                                      *)
(***************************************************************************)
THEOREM SendFindsRoom == ReadySpec => []BufferEmptyAtSend
<1>1. ReadyIInv => BufferEmptyAtSend
  BY DEF ReadyIInv, ReadyTypeOK, ChannelPlaced, Sending, BufferEmptyAtSend
<1> QED  BY ReadyInvariance, <1>1, PTL

(***************************************************************************)
(* The type invariant: every entry, queue and worker stays in its shape.   *)
(***************************************************************************)
THEOREM ReadyTypeCorrect == ReadySpec => []ReadyTypeOK
<1>1. ReadyIInv => ReadyTypeOK
  BY DEF ReadyIInv
<1> QED  BY ReadyInvariance, <1>1, PTL

-----------------------------------------------------------------------------
\* Where Server.Start is before it has started the collector.
BeforeCollector == {"sync", "ping", "create", "spawn", "failed"}

(***************************************************************************)
(* The wait group counts the collector's goroutine from its start to its   *)
(* end, and its ticker does not exist before.                              *)
(***************************************************************************)
CollectorCounted ==
    /\ gc = "none" <=> start \in BeforeCollector
    /\ gc = "none" => ~tick
    /\ wg = IF gc \in {"idle", "pass"} THEN 1 ELSE 0

(***************************************************************************)
(* From WaitForBackgroundWorkers on no pass begins: there is no collector, *)
(* or it has stopped, or Start, which main does not wait for, has started  *)
(* one whose ticker will not fire any more.                                *)
(***************************************************************************)
Quiet == cancelled /\ gc # "pass" /\ (gc = "idle" => ~tick)

ClosingInv ==
    /\ main \in {"wait", "close", "stopped"} => cancelled
    /\ main \in {"close", "stopped"} \/ store = "closed" => Quiet
    /\ store = "closed" => main \in {"close", "stopped", "fatal"}

\* Shutdown has seen no request in flight but those of h2c, and only these
\* can begin after it.
Drained ==
    /\ shut = "drained" => InFlight \subseteq H2C
    /\ \A r \in Requests : req[r] = "open" => r \in H2C

ServerIInv == TypeOK /\ CollectorCounted /\ ClosingInv /\ Drained

\* The initial state satisfies the inductive invariant.
LEMMA InitServerIInv == Init => ServerIInv
<1> SUFFICES ASSUME Init PROVE ServerIInv
  OBVIOUS
<1> USE DEF Init
<1>1. TypeOK
  BY Zenon DEF TypeOK
<1>2. CollectorCounted
  BY DEF CollectorCounted, BeforeCollector
<1>3. ClosingInv /\ Drained
  BY DEF ClosingInv, Drained
<1> QED  BY <1>1, <1>2, <1>3 DEF ServerIInv

\* A step that leaves the requests and the outcome of Shutdown alone.
LEMMA KeepsDrained == ASSUME Drained, UNCHANGED <<req, shut>> PROVE Drained'
  BY DEF Drained, InFlight

-----------------------------------------------------------------------------
(***************************************************************************)
(* The inductive invariant is preserved.                                   *)
(***************************************************************************)
LEMMA NextServerIInv == ServerIInv /\ [Next]_vars => ServerIInv'
<1> SUFFICES ASSUME ServerIInv, [Next]_vars PROVE ServerIInv'
  OBVIOUS
<1> USE DEF ServerIInv, TypeOK, CollectorCounted, BeforeCollector, ClosingInv, Quiet,
            Running
<1>1. CASE Signal
  BY <1>1, KeepsDrained DEF Signal
<1>2. CASE SyncCaches
  BY <1>2, KeepsDrained DEF SyncCaches
<1>3. CASE Ping
  BY <1>3, KeepsDrained DEF Ping
<1>4. CASE CreateHTTPServer
  BY <1>4, KeepsDrained DEF CreateHTTPServer
<1>5. CASE StartCollector
  BY <1>5, KeepsDrained DEF StartCollector
<1>6. CASE ListenAndServe
  BY <1>6, KeepsDrained DEF ListenAndServe
<1>7. CASE ServeReturns
  BY <1>7, KeepsDrained DEF ServeReturns
<1>8. CASE ControllerManagerFails
  BY <1>8, KeepsDrained DEF ControllerManagerFails
<1>9. CASE MainSelects
  BY <1>9, KeepsDrained DEF MainSelects
<1>10. CASE ShutdownBegins
  BY <1>10 DEF ShutdownBegins, Drained, InFlight
<1>11. CASE ShutdownReturns
  BY <1>11 DEF ShutdownReturns, Drained, InFlight
<1>12. CASE Cancel
  BY <1>12, KeepsDrained DEF Cancel
<1>13. CASE WaitForBackgroundWorkers
  BY <1>13, KeepsDrained DEF WaitForBackgroundWorkers
<1>14. CASE CloseStore
  BY <1>14, KeepsDrained DEF CloseStore
<1>15. CASE MainReturns
  BY <1>15, KeepsDrained DEF MainReturns
<1>16. CASE Tick
  BY <1>16, KeepsDrained DEF Tick
<1>17. CASE CollectorPass
  BY <1>17, KeepsDrained, ZenonT(40) DEF CollectorPass
<1>18. CASE CollectorPassEnds
  BY <1>18, KeepsDrained DEF CollectorPassEnds
<1>19. CASE CollectorStops
  BY <1>19, KeepsDrained DEF CollectorStops
<1>20. ASSUME NEW r \in Requests, Accept(r) PROVE ServerIInv'
  BY <1>20 DEF Accept, Accepting, ShutdownCalled, Drained, InFlight
<1>21. ASSUME NEW r \in Requests, Answer(r) PROVE ServerIInv'
  BY <1>21 DEF Answer, Drained, InFlight
<1>22. ASSUME NEW r \in Requests, H2CRequest(r) PROVE ServerIInv'
  BY <1>22 DEF H2CRequest, Drained, InFlight
<1>23. CASE UNCHANGED vars
  BY <1>23, KeepsDrained DEF vars
<1> QED
  BY <1>1, <1>2, <1>3, <1>4, <1>5, <1>6, <1>7, <1>8, <1>9, <1>10, <1>11, <1>12, <1>13, <1>14,
     <1>15, <1>16, <1>17, <1>18, <1>19, <1>20, <1>21, <1>22, <1>23, Zenon
     DEF Next, StartStep, MainStep, CollectorStep

\* The inductive invariant holds throughout.
LEMMA ServerInvariance == Spec => []ServerIInv
  BY InitServerIInv, NextServerIInv, PTL DEF Spec

-----------------------------------------------------------------------------
(***************************************************************************)
(* The type invariant: the wait group is never counted below zero, which   *)
(* would panic, whichever of main, Start and the collector is ahead.       *)
(***************************************************************************)
THEOREM ServerTypeCorrect == Spec => []TypeOK
<1>1. ServerIInv => TypeOK
  BY DEF ServerIInv
<1> QED  BY ServerInvariance, <1>1, PTL

(***************************************************************************)
(* The store is closed only when no pass of the collector is under way or  *)
(* can begin, and after a complete drain when no request is in flight but  *)
(* those of h2c.                                                           *)
(***************************************************************************)
THEOREM ClosedLast == Spec => []StoreClosedLast
<1>1. ServerIInv => StoreClosedLast
  BY DEF ServerIInv, ClosingInv, Quiet, Drained, StoreClosedLast
<1> QED  BY ServerInvariance, <1>1, PTL
==============================================================================
