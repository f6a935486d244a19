---------------------------- MODULE CertWatcher ----------------------------
(***************************************************************************)
(* CertWatcher keeps the certificate, its key and the CA bundle that TLS   *)
(* handshakes use in step with three files, while another process rotates  *)
(* the files one at a time.  A file is read in one step and three reads    *)
(* make a reload; a write is a truncation and the new content, each with a *)
(* file event.  Versions stand for contents; a certificate and a key of    *)
(* different versions do not match.                                        *)
(***************************************************************************)
EXTENDS Naturals

CONSTANT MaxVersion     \* bound: how often the files are rotated

ASSUME CertAssumption == MaxVersion \in Nat

VARIABLES
    disk,       \* disk[f]: version in file f, or Torn
    next,       \* the version being rolled out
    pc,         \* where the watcher is: constructor, then watchLoop
    buf,        \* buf[f]: what the reload under way has read
    live,       \* live[f]: what GetCertificate and GetCAPool return
    events,     \* the file watcher has events to deliver
    debounce,   \* debounceC is armed
    missed      \* a file changed after it was read and before it was watched

fileVars == <<disk, next>>
certVars == <<fileVars, pc, buf, live, events, debounce, missed>>

Files == {"cert", "key", "ca"}
Torn == MaxVersion + 1      \* a truncated file
None == MaxVersion + 2      \* nothing loaded yet
Versions == 0 .. MaxVersion

Constructor == {"newCert", "newKey", "newCA", "watch"}
Reload == {"readCert", "readKey", "readCA", "publish"}
Stopped == {"failed", "stopped"}

CertTypeOK ==
    /\ disk \in [Files -> Versions \cup {Torn}]
    /\ next \in Versions
    /\ pc \in Constructor \cup Reload \cup Stopped \cup {"select"}
    /\ buf \in [Files -> Versions \cup {Torn, None}]
    /\ live \in [Files -> Versions \cup {None}]
    /\ events \in BOOLEAN
    /\ debounce \in BOOLEAN
    /\ missed \in BOOLEAN

CertInit ==
    /\ disk = [f \in Files |-> 0]
    /\ next = 0
    /\ pc = "newCert"
    /\ buf = [f \in Files |-> None]
    /\ live = [f \in Files |-> None]
    /\ events = FALSE /\ debounce = FALSE /\ missed = FALSE

Watching == pc \in Reload \cup {"select"}

-----------------------------------------------------------------------------
\* A change of a file is an event once the directory is watched.
Changed(f, v) ==
    /\ disk' = [disk EXCEPT ![f] = v]
    /\ events' = (events \/ Watching)
    /\ missed' = (missed \/ (pc \in Constructor /\ buf[f] # None))
    /\ UNCHANGED <<pc, buf, live, debounce>>

\* The other process starts a rotation, when the last one is complete.
BeginRotation ==
    /\ next < MaxVersion
    /\ \A f \in Files : disk[f] = next
    /\ next' = next + 1
    /\ UNCHANGED <<disk, pc, buf, live, events, debounce, missed>>

Truncate(f) ==
    /\ disk[f] # next /\ disk[f] # Torn
    /\ Changed(f, Torn)
    /\ UNCHANGED next

Fill(f) ==
    /\ disk[f] = Torn
    /\ Changed(f, next)
    /\ UNCHANGED next

-----------------------------------------------------------------------------
\* Reads file f, and goes on to the next step.
Read(f, from, to) ==
    /\ pc = from
    /\ buf' = [buf EXCEPT ![f] = disk[f]]
    /\ pc' = to
    /\ UNCHANGED <<fileVars, live, events, debounce, missed>>

\* Mutant: the key is not checked against the certificate.
MutKeyPair == buf["cert"] # Torn /\ buf["key"] # Torn

\* The certificate parses and its key belongs to it (tls.LoadX509KeyPair).
KeyPair == buf["cert"] # Torn /\ buf["key"] = buf["cert"]

\* The key pair is good and the CA bundle holds a certificate.
Loaded == KeyPair /\ buf["ca"] # Torn

\* NewCertWatcher: load the key pair, then the CA bundle, then watch; an
\* error ends it.
NewReadsCert == Read("cert", "newCert", "newKey")

NewReadsKey == Read("key", "newKey", "newCA")

NewReadsCA ==
    /\ pc = "newCA"
    /\ KeyPair
    /\ Read("ca", "newCA", "watch")

NewCertWatcher ==
    /\ pc = "watch"
    /\ Loaded
    /\ live' = buf
    /\ pc' = "select"
    /\ UNCHANGED <<fileVars, buf, events, debounce, missed>>

NewFails ==
    /\ \/ pc = "newCA" /\ ~KeyPair
       \/ pc = "watch"
    /\ pc' = "failed"
    /\ UNCHANGED <<fileVars, buf, live, events, debounce, missed>>

-----------------------------------------------------------------------------
\* watchLoop takes an event: the timer is armed unless it is already.
Event ==
    /\ pc = "select"
    /\ events
    /\ events' = FALSE
    /\ debounce' = TRUE
    /\ UNCHANGED <<fileVars, pc, buf, live, missed>>

\* The timer fires: it is forgotten, then the files are reloaded.
Debounce ==
    /\ pc = "select"
    /\ debounce
    /\ debounce' = FALSE
    /\ pc' = "readCert"
    /\ UNCHANGED <<fileVars, buf, live, events, missed>>

\* reloadAll: key pair, CA bundle, then both are published together.
ReadCert == Read("cert", "readCert", "readKey")

ReadKey == Read("key", "readKey", "readCA")

ReadCA ==
    /\ KeyPair
    /\ Read("ca", "readCA", "publish")

\* Mutant: the events that came during the reload are dropped after it.
MutPublish ==
    /\ pc = "publish"
    /\ Loaded
    /\ live' = buf
    /\ events' = FALSE
    /\ pc' = "select"
    /\ UNCHANGED <<fileVars, buf, debounce, missed>>

Publish ==
    /\ pc = "publish"
    /\ Loaded
    /\ live' = buf
    /\ pc' = "select"
    /\ UNCHANGED <<fileVars, buf, events, debounce, missed>>

\* Mutant: an error puts back what was there at first.
MutReloadFails ==
    /\ \/ pc = "readCA" /\ ~KeyPair
       \/ pc = "publish" /\ ~Loaded
    /\ live' = [f \in Files |-> 0]
    /\ pc' = "select"
    /\ UNCHANGED <<fileVars, buf, events, debounce, missed>>

\* Mutant: an error ends the loop.
MutReloadFailsEnds ==
    /\ \/ pc = "readCA" /\ ~KeyPair
       \/ pc = "publish" /\ ~Loaded
    /\ pc' = "failed"
    /\ UNCHANGED <<fileVars, buf, live, events, debounce, missed>>

\* An error keeps what is in use.
ReloadFails ==
    /\ \/ pc = "readCA" /\ ~KeyPair
       \/ pc = "publish" /\ ~Loaded
    /\ pc' = "select"
    /\ UNCHANGED <<fileVars, buf, live, events, debounce, missed>>

Stop ==
    /\ pc = "select"
    /\ pc' = "stopped"
    /\ UNCHANGED <<fileVars, buf, live, events, debounce, missed>>

-----------------------------------------------------------------------------
Rotate == BeginRotation \/ \E f \in Files : Truncate(f) \/ Fill(f)
Construct == NewReadsCert \/ NewReadsKey \/ NewReadsCA \/ NewCertWatcher \/ NewFails
Watch == Event \/ Debounce \/ ReadCert \/ ReadKey \/ ReadCA \/ Publish \/ ReloadFails

CertNext == Rotate \/ Construct \/ Watch \/ Stop

CertSpec == CertInit /\ [][CertNext]_certVars

(***************************************************************************)
(* Fairness: the watcher's goroutine runs and its timer is served although *)
(* events keep coming; a rotation that has begun is completed.             *)
(***************************************************************************)
CertLiveSpec ==
    /\ CertSpec
    /\ WF_certVars(Watch) /\ SF_certVars(Debounce)
    /\ WF_certVars(\E f \in Files : Truncate(f) \/ Fill(f))

-----------------------------------------------------------------------------
(***************************************************************************)
(* Handshakes are only ever given a certificate with its own key and a CA  *)
(* bundle that was read whole, although the files are replaced one by one  *)
(* while they are read.                                                    *)
(***************************************************************************)
ServesKeyPair ==
    Watching => live["key"] = live["cert"] /\ live["cert"] # Torn /\ live["ca"] \in Versions

(***************************************************************************)
(* No change is overlooked by the debounced loop: at rest, with no event   *)
(* and no timer outstanding and the rotation complete, what is served is   *)
(* what is on disk, unless a file changed while NewCertWatcher was still   *)
(* loading.                                                                *)
(***************************************************************************)
AtRest ==
    pc = "select" /\ ~events /\ ~debounce /\ \A f \in Files : disk[f] = next

CurrentAtRest == AtRest /\ ~missed => live = disk

(***************************************************************************)
(* Rotation never goes backwards: no reload replaces a version by an       *)
(* older one.                                                              *)
(***************************************************************************)
NeverOlder ==
    [][\A f \in Files : live[f] # None => live'[f] >= live[f]]_certVars

(***************************************************************************)
(* A completed rotation is served in the end, or overtaken by the next.    *)
(***************************************************************************)
RotationServed ==
    \A v \in Versions :
        Watching /\ (\A f \in Files : disk[f] = v) /\ ~missed
            ~> next > v \/ (\A f \in Files : live[f] = v) \/ pc = "stopped"

(***************************************************************************)
(* What the comment of the type says: the files are reloaded on change.    *)
(***************************************************************************)
ReloadedOnChange == AtRest => live = disk
=============================================================================
