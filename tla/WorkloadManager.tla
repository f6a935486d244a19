--------------------------- MODULE WorkloadManager ---------------------------
(***************************************************************************)
(* The workload manager process of ManagerServer with the goroutine that   *)
(* NewServer starts to read the routers' public key (InitPublicKeyCache),  *)
(* which ends with the process, among the routers of IdentityKey.          *)
(***************************************************************************)
EXTENDS ManagerServer, IdentityKey

managerVars == <<vars, keyVars>>

ManagerInit == Init /\ KeyInit

ReadKey == Running /\ LoadPublicKeyFromSecret

ManagerNext ==
    \/ Next /\ UNCHANGED keyVars
    \/ ReadKey /\ UNCHANGED vars
    \/ RouterStep /\ UNCHANGED vars
    \/ SecretDeleted /\ UNCHANGED vars

ManagerSpec == ManagerInit /\ [][ManagerNext]_managerVars

\* The fairness of ManagerServer.  Nothing is assumed of the key's goroutine.
ManagerLiveSpec == ManagerSpec /\ Fairness
==============================================================================
