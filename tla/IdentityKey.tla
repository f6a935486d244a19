---------------------------- MODULE IdentityKey ----------------------------
(***************************************************************************)
(* The key pair with which routers sign what they forward to sandboxes.    *)
(* A router that starts generates a pair and tries to create the identity  *)
(* Secret with it; the one that finds the Secret there loads the pair it   *)
(* holds.  The workload manager polls the Secret until it has the public   *)
(* key, and keeps it for as long as it runs.                               *)
(*                                                                         *)
(* A pair is the number of the Secret that holds or held it: private and   *)
(* public half are written together.  A pair that never reached a Secret   *)
(* is thrown away by the router that drew it.  Nothing in this code        *)
(* deletes the Secret; the design has an operator do so to rotate the key. *)
(* A router outside a cluster, which keeps the pair that it generated, is  *)
(* left out.                                                               *)
(***************************************************************************)
EXTENDS Naturals

CONSTANTS
    Routers,    \* router replicas
    MaxKeys     \* bound: times that the Secret is created

Manager == "workloadmanager"

ASSUME KeyAssumption == MaxKeys \in Nat /\ Manager \notin Routers

VARIABLES
    rpc,        \* rpc[r]: where router r is
    rkey,       \* rkey[r]: the pair that r signs with, or NoKey
    drawn,      \* Secrets created so far
    secret,     \* the pair in the identity Secret, or NoKey
    cachedKey,  \* cachedPublicKey of the workload manager, or NoKey
    deleted,    \* history: the pairs of the Secrets that were deleted
    outdated    \* history: the processes that got their key from a Secret that
                \* has been deleted since

keyVars == <<rpc, rkey, drawn, secret, cachedKey, deleted, outdated>>

NoKey == 0
Keys == 1..MaxKeys

KeyTypeOK ==
    /\ rpc \in [Routers -> {"down", "load", "serving"}]
    /\ rkey \in [Routers -> Keys \cup {NoKey}]
    /\ drawn \in 0..MaxKeys
    /\ secret \in Keys \cup {NoKey}
    /\ cachedKey \in Keys \cup {NoKey}
    /\ deleted \subseteq Keys
    /\ outdated \subseteq Routers \cup {Manager}

KeyInit ==
    /\ rpc = [r \in Routers |-> "down"]
    /\ rkey = [r \in Routers |-> NoKey]
    /\ drawn = 0
    /\ secret = NoKey
    /\ cachedKey = NoKey
    /\ deleted = {}
    /\ outdated = {}

-----------------------------------------------------------------------------
\* The API server creates the Secret with the pair of the caller.
CreateSecret ==
    /\ secret = NoKey
    /\ drawn < MaxKeys
    /\ drawn' = drawn + 1
    /\ secret' = drawn + 1

\* NewJWTManager and the create of TryStoreOrLoadJWTKeySecret.
StoreSecret(r) ==
    /\ rpc[r] = "down"
    /\ CreateSecret
    /\ rkey' = [rkey EXCEPT ![r] = secret']
    /\ rpc' = [rpc EXCEPT ![r] = "serving"]
    /\ UNCHANGED <<cachedKey, deleted, outdated>>

\* Mutant: the replica that loses the race serves with the pair it generated.
MutServesOwn(r) ==
    /\ rpc[r] = "down"
    /\ secret # NoKey
    /\ rkey' = [rkey EXCEPT ![r] = drawn + 1]
    /\ rpc' = [rpc EXCEPT ![r] = "serving"]
    /\ UNCHANGED <<drawn, secret, cachedKey, deleted, outdated>>

\* Mutant: a replica that finds the Secret writes its own pair to it.
MutOverwrites(r) ==
    /\ rpc[r] = "down"
    /\ secret # NoKey
    /\ drawn < MaxKeys
    /\ drawn' = drawn + 1
    /\ secret' = drawn + 1
    /\ rkey' = [rkey EXCEPT ![r] = drawn + 1]
    /\ rpc' = [rpc EXCEPT ![r] = "serving"]
    /\ UNCHANGED <<cachedKey, deleted, outdated>>

\* The create is refused: another replica was first.
SecretExists(r) ==
    /\ rpc[r] = "down"
    /\ secret # NoKey
    /\ rpc' = [rpc EXCEPT ![r] = "load"]
    /\ UNCHANGED <<rkey, drawn, secret, cachedKey, deleted, outdated>>

\* Any other error ends the process.  The create may have been executed; if
\* not, nothing has changed.
StoreSecretFails(r) ==
    /\ rpc[r] = "down"
    /\ CreateSecret
    /\ UNCHANGED <<rpc, rkey, cachedKey, deleted, outdated>>

\* loadPrivateKeyPEM of what the Secret holds by now.
LoadSecret(r) ==
    /\ rpc[r] = "load"
    /\ secret # NoKey
    /\ rkey' = [rkey EXCEPT ![r] = secret]
    /\ rpc' = [rpc EXCEPT ![r] = "serving"]
    /\ UNCHANGED <<drawn, secret, cachedKey, deleted, outdated>>

\* The process ends: the load failed, or the router stopped.
RouterStops(r) ==
    /\ rpc[r] # "down"
    /\ rpc' = [rpc EXCEPT ![r] = "down"]
    /\ rkey' = [rkey EXCEPT ![r] = NoKey]
    /\ outdated' = outdated \ {r}
    /\ UNCHANGED <<drawn, secret, cachedKey, deleted>>

\* The loop of InitPublicKeyCache, which ends with its first success.
LoadPublicKeyFromSecret ==
    /\ cachedKey = NoKey
    /\ secret # NoKey
    /\ cachedKey' = secret
    /\ UNCHANGED <<rpc, rkey, drawn, secret, deleted, outdated>>

\* An operator rotates the key.
SecretDeleted ==
    /\ secret # NoKey
    /\ drawn < MaxKeys
    /\ secret' = NoKey
    /\ deleted' = deleted \cup {secret}
    /\ outdated' = outdated \cup {r \in Routers : rkey[r] # NoKey}
                            \cup (IF cachedKey # NoKey THEN {Manager} ELSE {})
    /\ UNCHANGED <<rpc, rkey, drawn, cachedKey>>

RouterStep ==
    \E r \in Routers :
        \/ StoreSecret(r)
        \/ SecretExists(r)
        \/ StoreSecretFails(r)
        \/ LoadSecret(r)
        \/ RouterStops(r)

KeyNext == RouterStep \/ LoadPublicKeyFromSecret \/ SecretDeleted

-----------------------------------------------------------------------------
IsPublicKeyCached == cachedKey # NoKey

\* The keys that may be in use: the one in the Secret, and those of the Secrets
\* that were deleted.
Believed == ({secret} \cup deleted) \ {NoKey}

(***************************************************************************)
(* Whoever signs is believed: every router that serves signs with the pair *)
(* in the Secret, and the workload manager hands out no other key,         *)
(* whichever replica created the Secret and whatever failed or stopped in  *)
(* between, unless the Secret that the process read has been deleted since *)
(* (TryStoreOrLoadJWTKeySecret, loadPublicKeyFromSecret).                  *)
(***************************************************************************)
KeysAgree ==
    /\ \A r \in Routers \ outdated : rpc[r] = "serving" => rkey[r] = secret /\ secret # NoKey
    /\ IsPublicKeyCached /\ Manager \notin outdated => cachedKey = secret
=============================================================================
