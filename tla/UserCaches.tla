----------------------------- MODULE UserCaches -----------------------------
(***************************************************************************)
(* The two caches that requests to the workload manager go through: the    *)
(* TokenCache of TokenReview verdicts, and the ClientCache of Kubernetes   *)
(* clients that act with a user's token.  Each is a map and a list in the  *)
(* order of use, under a mutex that a call holds from its start to its     *)
(* end.  What a request does between two calls it does without the mutex:  *)
(* it asks the API server for a review, or builds a client.                *)
(*                                                                         *)
(* A token stands for the string; the account it belongs to and the expiry *)
(* in its payload are given.  A client stands for the token it acts with.  *)
(* The methods Remove and Size are called by tests only.                   *)
(***************************************************************************)
EXTENDS Integers, FiniteSets, Sequences, Functions

CONSTANTS
    Requests,   \* goroutines that serve one request after another
    Tokens,     \* bearer tokens
    Accounts,   \* service accounts, as namespace:name
    AccountOf,  \* AccountOf[t]: the account of t, or NoAccount
    Accepted,   \* the tokens that are authentic at the start
    Payload,    \* Payload[t]: is t a JWT that can be decoded, and its exp claim
    TokenMax,   \* maxSize given to NewTokenCache
    TokenTTL,   \* ttl given to NewTokenCache
    ClientMax,  \* maxSize given to NewClientCache
    MaxTime,    \* bound: the clock stops here
    MaxFlips    \* bound: how often the API server changes its mind about a token

NoAccount == "not a service account"
ZeroTime == -1          \* time.Time{}, which no exp claim yields
NoEntry == [none |-> TRUE]
NoToken == "no token"

ASSUME CacheAssumption ==
    /\ AccountOf \in [Tokens -> Accounts \cup {NoAccount}]
    /\ Accepted \subseteq Tokens
    /\ Payload \in [Tokens -> [jwt : BOOLEAN, exp : {"absent", "number", "other"}, at : Nat]]
    /\ TokenMax \in Int /\ TokenTTL \in Int /\ ClientMax \in Int
    /\ MaxTime \in Nat /\ MaxFlips \in Nat
    /\ NoAccount \notin Accounts /\ NoToken \notin Tokens

VARIABLES
    now,        \* wall clock
    authentic,  \* the tokens that a TokenReview would authenticate now
    flips,      \* changes of that so far
    tokens,     \* the TokenCache: map and lruList
    clients,    \* the ClientCache: map and lruList
    pc,         \* pc[r]: where r is
    tok,        \* tok[r]: the token of the request that r serves
    verdict,    \* verdict[r]: what the review, or the cache, said
    client,     \* client[r]: the client that r was given
    lastUse,    \* lastUse[t]: when a request last asked for t, or cached it (history)
    fresh,      \* fresh[r]: nobody had used tok[r] for longer than the ttl (history)
    seen,       \* seen[r]: the verdicts the API server held during r (history)
    vouched     \* the tokens that some review has authenticated (history)

cacheVars == <<tokens, clients>>
history == <<lastUse, fresh, seen, vouched>>
vars == <<now, authentic, flips, cacheVars, pc, tok, verdict, client, history>>

\* NewTokenCache and NewClientCache replace a size or ttl that is not positive.
TokenLimit == IF TokenMax <= 0 THEN 1000 ELSE TokenMax
TTL == IF TokenTTL <= 0 THEN 300 ELSE TokenTTL
ClientLimit == IF ClientMax <= 0 THEN 100 ELSE ClientMax

tokenCacheEntry == [authenticated : BOOLEAN, lastAccess : Nat]
clientCacheEntry == [client : Tokens, tokenExpiry : Nat \cup {ZeroTime}]

Serving == {"review", "set", "decided", "build", "use"}

TypeOK ==
    /\ now \in 0..MaxTime
    /\ authentic \in SUBSET Tokens
    /\ flips \in 0..MaxFlips
    /\ tokens.map \in [Tokens -> tokenCacheEntry \cup {NoEntry}]
    /\ tokens.list \in Seq(Tokens)
    /\ clients.map \in [Accounts -> clientCacheEntry \cup {NoEntry}]
    /\ clients.list \in Seq(Accounts)
    /\ pc \in [Requests -> Serving \cup {"idle"}]
    /\ tok \in [Requests -> Tokens \cup {NoToken}]
    /\ verdict \in [Requests -> BOOLEAN]
    /\ client \in [Requests -> Tokens \cup {NoToken}]
    /\ lastUse \in [Tokens -> Int]
    /\ fresh \in [Requests -> BOOLEAN]
    /\ seen \in [Requests -> SUBSET BOOLEAN]
    /\ vouched \in SUBSET Tokens

Init ==
    /\ now = 0
    /\ authentic = Accepted
    /\ flips = 0
    /\ tokens = [map |-> [t \in Tokens |-> NoEntry], list |-> <<>>]
    /\ clients = [map |-> [a \in Accounts |-> NoEntry], list |-> <<>>]
    /\ pc = [r \in Requests |-> "idle"]
    /\ tok = [r \in Requests |-> NoToken]
    /\ verdict = [r \in Requests |-> FALSE]
    /\ client = [r \in Requests |-> NoToken]
    /\ lastUse = [t \in Tokens |-> -TTL - 1]
    /\ fresh = [r \in Requests |-> FALSE]
    /\ seen = [r \in Requests |-> {}]
    /\ vouched = {}

-----------------------------------------------------------------------------
(***************************************************************************)
(* The map and the list of a cache.  An entry's element is the place of    *)
(* its key in the list.                                                    *)
(***************************************************************************)
Cached(c) == {k \in DOMAIN c.map : c.map[k] # NoEntry}

\* Remove of container/list: nothing for an element that is not in the list.
Unlink(list, k) ==
    IF k \in Range(list)
    THEN LET i == CHOOSE i \in DOMAIN list : list[i] = k
         IN  SubSeq(list, 1, i - 1) \o SubSeq(list, i + 1, Len(list))
    ELSE list

\* Mutant: the expired entry is deleted from the map only.
MutDrop(c, k) == [map |-> [c.map EXCEPT ![k] = NoEntry], list |-> c.list]

\* An expired entry is taken out of the list and of the map.
Drop(c, k) == [map |-> [c.map EXCEPT ![k] = NoEntry], list |-> Unlink(c.list, k)]

\* An entry is updated in place, and its element moved to the front.
Touch(c, k, entry) ==
    [map |-> [c.map EXCEPT ![k] = entry], list |-> <<k>> \o Unlink(c.list, k)]

\* evictOldest: the element at the back, and the entry that it holds.
EvictOldest(c) ==
    IF c.list = <<>> THEN c
    ELSE [map |-> [c.map EXCEPT ![c.list[Len(c.list)]] = NoEntry],
          list |-> SubSeq(c.list, 1, Len(c.list) - 1)]

\* The test for a full cache.
MakeRoom(c, max) == IF Cardinality(Cached(c)) >= max THEN EvictOldest(c) ELSE c

\* A new entry, in front of the list, after an eviction if the cache is full.
Insert(c, k, entry, max) ==
    LET d == MakeRoom(c, max)
    IN  [map |-> [d.map EXCEPT ![k] = entry], list |-> <<k>> \o d.list]

\* Set: a key that is there keeps its element.
Put(c, k, entry, max) ==
    IF k \in Cached(c) THEN Touch(c, k, entry) ELSE Insert(c, k, entry, max)

-----------------------------------------------------------------------------
\* Mutant: the entry lives on for as long as it is in the cache.
MutTokenFound(t) == t \in Cached(tokens)

\* TokenCache.Get: an entry unused for longer than the ttl counts as missing.
TokenFound(t) == t \in Cached(tokens) /\ now - tokens.map[t].lastAccess <= TTL

\* ... and is dropped; one that is found has been used now.
TokenCacheGet(t) ==
    tokens' = IF TokenFound(t)
              THEN Touch(tokens, t, [tokens.map[t] EXCEPT !.lastAccess = now])
              ELSE IF t \in Cached(tokens) THEN Drop(tokens, t) ELSE tokens

\* TokenCache.Set: any verdict, as of now.
TokenCacheSet(t, authenticated) ==
    tokens' = Put(tokens, t, [authenticated |-> authenticated, lastAccess |-> now], TokenLimit)

\* parseJWTExpiry: the zero time when there is no exp claim to be read.
ParseJWTExpiry(t) ==
    IF Payload[t].jwt /\ Payload[t].exp = "number" THEN Payload[t].at ELSE ZeroTime

\* ClientCache.Get: an entry whose token has expired counts as missing.
ClientFound(a) ==
    /\ a \in Cached(clients)
    /\ LET e == clients.map[a].tokenExpiry IN e = ZeroTime \/ now <= e

\* ... and is dropped.
ClientCacheGet(a) ==
    clients' = IF ClientFound(a) THEN Touch(clients, a, clients.map[a])
               ELSE IF a \in Cached(clients) THEN Drop(clients, a) ELSE clients

\* Mutant: an entry that is there gets the new client and keeps its expiry.
MutClientCacheSet(a, t) ==
    clients' = Put(clients, a,
                   [client |-> t,
                    tokenExpiry |-> IF a \in Cached(clients) THEN clients.map[a].tokenExpiry
                                    ELSE ParseJWTExpiry(t)],
                   ClientLimit)

\* ClientCache.Set: the client and the expiry of the token it acts with.
ClientCacheSet(a, t) ==
    clients' = Put(clients, a, [client |-> t, tokenExpiry |-> ParseJWTExpiry(t)], ClientLimit)

-----------------------------------------------------------------------------
Goto(r, stage) == pc' = [pc EXCEPT ![r] = stage]

\* The verdict on r is out: what the history keeps for it is no longer needed.
Settled(r) ==
    /\ fresh' = [fresh EXCEPT ![r] = FALSE]
    /\ seen' = [seen EXCEPT ![r] = {}]

\* The request of r is answered, with an error or at its end.
Finish(r) ==
    /\ Goto(r, "idle")
    /\ tok' = [tok EXCEPT ![r] = NoToken]
    /\ verdict' = [verdict EXCEPT ![r] = FALSE]
    /\ client' = [client EXCEPT ![r] = NoToken]
    /\ Settled(r)
    /\ UNCHANGED <<now, authentic, flips, lastUse, vouched>>

(***************************************************************************)
(* authMiddleware, and validateServiceAccountToken up to its call of the   *)
(* API server.  A request without a bearer token is refused before that.   *)
(***************************************************************************)
AuthMiddleware(r, t) ==
    /\ pc[r] = "idle"
    /\ tok' = [tok EXCEPT ![r] = t]
    /\ TokenCacheGet(t)
    /\ Goto(r, IF TokenFound(t) THEN "decided" ELSE "review")
    /\ verdict' = [verdict EXCEPT ![r] = TokenFound(t) /\ tokens.map[t].authenticated]
    /\ fresh' = [fresh EXCEPT ![r] = now - lastUse[t] > TTL]
    /\ seen' = [seen EXCEPT ![r] = {(t \in authentic)}]
    /\ lastUse' = [lastUse EXCEPT ![t] = now]
    /\ UNCHANGED <<now, authentic, flips, clients, client, vouched>>

\* The API server answers the TokenReview that r asked for.
TokenReview(r) ==
    /\ pc[r] = "review"
    /\ Goto(r, "set")
    /\ verdict' = [verdict EXCEPT ![r] = tok[r] \in authentic]
    /\ vouched' = vouched \cup ({tok[r]} \cap authentic)
    /\ UNCHANGED <<now, authentic, flips, cacheVars, tok, client, lastUse, fresh, seen>>

\* The TokenReview fails: the request is refused, and nothing is cached.
TokenReviewFails(r) ==
    /\ pc[r] = "review"
    /\ Finish(r)
    /\ UNCHANGED cacheVars

\* The verdict is cached, whatever it is.
CacheVerdict(r) ==
    /\ pc[r] = "set"
    /\ TokenCacheSet(tok[r], verdict[r])
    /\ Goto(r, "decided")
    /\ lastUse' = [lastUse EXCEPT ![tok[r]] = now]
    /\ UNCHANGED <<now, authentic, flips, clients, tok, verdict, client, fresh, seen, vouched>>

\* Mutant: the verdict on a service account is not looked at.
MutAdmitted(r) == AccountOf[tok[r]] # NoAccount

\* authMiddleware lets the request pass: a service account, and authenticated.
Admitted(r) == verdict[r] /\ AccountOf[tok[r]] # NoAccount

Refuse(r) ==
    /\ pc[r] = "decided"
    /\ ~Admitted(r)
    /\ Finish(r)
    /\ UNCHANGED cacheVars

\* extractUserK8sClient, and GetOrCreateUserK8sClient with its look into the cache.
GetUserK8sClient(r) ==
    /\ pc[r] = "decided"
    /\ Admitted(r)
    /\ LET a == AccountOf[tok[r]]
       IN  /\ ClientCacheGet(a)
           /\ IF ClientFound(a)
              THEN /\ Goto(r, "use")
                   /\ client' = [client EXCEPT ![r] = clients.map[a].client]
              ELSE Goto(r, "build") /\ UNCHANGED client
    /\ Settled(r)
    /\ UNCHANGED <<now, authentic, flips, tokens, tok, verdict, lastUse, vouched>>

\* The client that NewUserK8sClient has built is cached and used.
NewUserK8sClient(r) ==
    /\ pc[r] = "build"
    /\ ClientCacheSet(AccountOf[tok[r]], tok[r])
    /\ Goto(r, "use")
    /\ client' = [client EXCEPT ![r] = tok[r]]
    /\ UNCHANGED <<now, authentic, flips, tokens, tok, verdict, history>>

\* The handler ends: a request that is refused for what it asks, a client that
\* cannot be built, or the end of what the client was needed for.
HandlerReturns(r) ==
    /\ \/ pc[r] = "decided" /\ Admitted(r)
       \/ pc[r] \in {"build", "use"}
    /\ Finish(r)
    /\ UNCHANGED cacheVars

-----------------------------------------------------------------------------
\* A token is revoked or expires, or one that was not accepted yet is accepted.
Judge(t) ==
    /\ flips < MaxFlips
    /\ flips' = flips + 1
    /\ authentic' = (authentic \cup {t}) \ (authentic \cap {t})
    /\ seen' = [r \in Requests |->
                    seen[r] \cup IF tok[r] = t /\ pc[r] \notin {"build", "use"}
                                THEN {t \notin authentic} ELSE {}]
    /\ UNCHANGED <<now, cacheVars, pc, tok, verdict, client, lastUse, fresh, vouched>>

Tick ==
    /\ now < MaxTime
    /\ now' = now + 1
    /\ UNCHANGED <<authentic, flips, cacheVars, pc, tok, verdict, client, history>>

Serve(r) ==
    \/ \E t \in Tokens : AuthMiddleware(r, t)
    \/ TokenReview(r)
    \/ TokenReviewFails(r)
    \/ CacheVerdict(r)
    \/ Refuse(r)
    \/ GetUserK8sClient(r)
    \/ NewUserK8sClient(r)
    \/ HandlerReturns(r)

Next ==
    \/ \E r \in Requests : Serve(r)
    \/ \E t \in Tokens : Judge(t)
    \/ Tick

Spec == Init /\ [][Next]_vars

-----------------------------------------------------------------------------
InStepCache(c, max) ==
    /\ IsInjective(c.list)
    /\ Range(c.list) = Cached(c)
    /\ Cardinality(Cached(c)) <= max

(***************************************************************************)
(* The list of the token cache is in the order of last use: the entry that *)
(* evictOldest takes from its back is one that was unused for longest.     *)
(***************************************************************************)
RecencyOrder ==
    \A i, j \in DOMAIN tokens.list :
        i < j => tokens.map[tokens.list[i]].lastAccess >= tokens.map[tokens.list[j]].lastAccess

(***************************************************************************)
(* The list of a cache holds every key of its map, once and no other, and  *)
(* the cache stays within its limit, however the Get and the Set of        *)
(* concurrent requests for the same key fall between each other, whether a *)
(* key is set twice, has expired or has been evicted between.  The list of *)
(* the token cache keeps the order of last use.                            *)
(***************************************************************************)
InStep ==
    /\ InStepCache(tokens, TokenLimit)
    /\ InStepCache(clients, ClientLimit)
    /\ RecencyOrder

(***************************************************************************)
(* A request whose token nobody has used for longer than the ttl is        *)
(* decided by a review made while it is served: it is not let in by what   *)
(* was true of the token earlier, and not refused for it.  This bounds     *)
(* what the sliding ttl keeps, and what a review that is overtaken by a    *)
(* later one can put into the cache.                                       *)
(***************************************************************************)
FreshVerdict ==
    \A r \in Requests : pc[r] \in {"set", "decided"} /\ fresh[r] => verdict[r] \in seen[r]

(***************************************************************************)
(* No client is cached or used that acts with a token which no review has  *)
(* authenticated: a refusal that is cached, a review that failed and a     *)
(* client shared between the tokens of an account do not let one through.  *)
(***************************************************************************)
OnlyAuthenticated ==
    /\ \A a \in Cached(clients) : clients.map[a].client \in vouched
    /\ \A r \in Requests : client[r] # NoToken => client[r] \in vouched

(***************************************************************************)
(* The client that a request is given acts for the account of its token,   *)
(* and unless it is built for the request, with a token that has not       *)
(* expired, whichever requests of the account have replaced it meanwhile.  *)
(***************************************************************************)
HandedOut ==
    [][\A r \in Requests :
          client[r] = NoToken /\ client'[r] # NoToken =>
              /\ AccountOf[client'[r]] = AccountOf[tok[r]]
              /\ \/ client'[r] = tok[r]
                 \/ ParseJWTExpiry(client'[r]) = ZeroTime
                 \/ now <= ParseJWTExpiry(client'[r])]_vars
=============================================================================
