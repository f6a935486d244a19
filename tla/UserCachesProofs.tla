-------------------------- MODULE UserCachesProofs --------------------------
(***************************************************************************)
(* Proofs about UserCaches, for any tokens, accounts, sizes and lifetimes, *)
(* and any number of concurrent requests.                                  *)
(***************************************************************************)
EXTENDS UserCaches, SequenceTheorems, FiniteSetTheorems, TLAPS

(***************************************************************************)
(* A request past authMiddleware has a token, and one past the decision    *)
(* has the token of an account that some review has authenticated.         *)
(***************************************************************************)
RequestInv ==
    \A r \in Requests :
        /\ pc[r] # "idle" => tok[r] \in Tokens
        /\ pc[r] \in {"build", "use"} => verdict[r] /\ AccountOf[tok[r]] # NoAccount
        /\ verdict[r] => tok[r] \in vouched
        /\ client[r] # NoToken => client[r] \in vouched

(***************************************************************************)
(* A cached verdict was used no later than its token was, and one that     *)
(* admits is that of some review.                                          *)
(***************************************************************************)
VerdictInv ==
    /\ \A t \in Tokens : lastUse[t] <= now
    /\ \A t \in Cached(tokens) :
          /\ tokens.map[t].lastAccess <= lastUse[t]
          /\ tokens.map[t].authenticated => t \in vouched

(***************************************************************************)
(* A cached client acts for its account, with its token's expiry.          *)
(***************************************************************************)
ClientInv ==
    \A a \in Cached(clients) :
        LET e == clients.map[a]
        IN  /\ AccountOf[e.client] = a
            /\ e.tokenExpiry = ParseJWTExpiry(e.client)
            /\ e.client \in vouched

(***************************************************************************)
(* What the API server says now has been seen by every request that is not *)
(* settled; a review's answer stays among what its request has seen.       *)
(***************************************************************************)
SeenInv ==
    \A r \in Requests :
        /\ pc[r] \in {"review", "set", "decided"} => (tok[r] \in authentic) \in seen[r]
        /\ pc[r] = "set" => verdict[r] \in seen[r]
        /\ pc[r] = "decided" /\ fresh[r] => verdict[r] \in seen[r]

IInv == TypeOK /\ RequestInv /\ VerdictInv /\ ClientInv /\ SeenInv /\ InStep
-----------------------------------------------------------------------------
(***************************************************************************)
(* The list of a cache, as a sequence without duplicates.                  *)
(***************************************************************************)
\* x comes before y in the list q.
Precedes(q, x, y) == \E i, j \in 1..Len(q) : i < j /\ q[i] = x /\ q[j] = y

\* A list without its i-th element, the last element and the list before it.
RemoveAt(q, i) == SubSeq(q, 1, i - 1) \o SubSeq(q, i + 1, Len(q))
Last(q) == q[Len(q)]
Front(q) == SubSeq(q, 1, Len(q) - 1)

\* Without duplicates, an element has one place in the list.
LEMMA UnlinkIsRemoveAt ==
    ASSUME NEW S, NEW q \in Seq(S), IsInjective(q), NEW i \in 1..Len(q)
    PROVE  Unlink(q, q[i]) = RemoveAt(q, i)
<1>1. (CHOOSE j \in DOMAIN q : q[j] = q[i]) = i
  BY DEF IsInjective
<1>2. q[i] \in Range(q)
  BY DEF Range
<1> QED  BY <1>1, <1>2, Zenon DEF Unlink, RemoveAt

\* RemoveAt moves the elements behind the removed one up.
LEMMA RemoveAtElements ==
    ASSUME NEW S, NEW q \in Seq(S), NEW i \in 1..Len(q)
    PROVE  /\ RemoveAt(q, i) \in Seq(S)
           /\ Len(RemoveAt(q, i)) = Len(q) - 1
           /\ \A j \in 1..Len(q) - 1 :
                 RemoveAt(q, i)[j] = IF j < i THEN q[j] ELSE q[j + 1]
<1> DEFINE a == SubSeq(q, 1, i - 1)
           b == SubSeq(q, i + 1, Len(q))
<1>1. Len(q) \in Nat /\ i \in Nat /\ i >= 1 /\ i <= Len(q)
  OBVIOUS
<1>2. a \in Seq(S) /\ Len(a) = i - 1 /\ \A j \in 1..i - 1 : a[j] = q[j]
  BY <1>1
<1>3. b \in Seq(S) /\ Len(b) = Len(q) - i /\ \A j \in 1..Len(q) - i : b[j] = q[i + j]
  BY <1>1
<1>4. /\ a \o b \in Seq(S)
      /\ Len(a \o b) = Len(a) + Len(b)
      /\ \A j \in 1..Len(a) + Len(b) :
            (a \o b)[j] = IF j <= Len(a) THEN a[j] ELSE b[j - Len(a)]
  BY <1>2, <1>3, ConcatProperties, Zenon
<1>5. RemoveAt(q, i) = a \o b
  BY DEF RemoveAt
<1> HIDE DEF a, b
<1>6. Len(a) + Len(b) = Len(q) - 1
  BY <1>1, <1>2, <1>3
<1>7. ASSUME NEW j \in 1..Len(q) - 1
      PROVE  (a \o b)[j] = IF j < i THEN q[j] ELSE q[j + 1]
  <2>1. (a \o b)[j] = IF j <= i - 1 THEN a[j] ELSE b[j - (i - 1)]
    BY <1>1, <1>2, <1>4, <1>6
  <2>2. j \in Int /\ j >= 1 /\ j <= Len(q) - 1
    BY <1>1
  <2>3. CASE j < i
    BY <2>1, <2>2, <2>3, <1>1, <1>2
  <2>4. CASE ~(j < i)
    <3>1. j - (i - 1) \in 1..Len(q) - i /\ i + (j - (i - 1)) = j + 1
      BY <2>2, <2>4, <1>1
    <3>2. b[j - (i - 1)] = q[j + 1]
      BY <3>1, <1>3
    <3> QED  BY <3>2, <2>1, <2>2, <2>4, <1>1
  <2> QED  BY <2>3, <2>4, Zenon
<1> QED  BY <1>4, <1>5, <1>6, <1>7

(***************************************************************************)
(* Unlink takes its element out of a list without duplicates, and     *)
(* keeps the order of the others.                                          *)
(***************************************************************************)
LEMMA Removed ==
    ASSUME NEW S, NEW q \in Seq(S), IsInjective(q), NEW k
    PROVE  /\ Unlink(q, k) \in Seq(S)
           /\ IsInjective(Unlink(q, k))
           /\ Range(Unlink(q, k)) = Range(q) \ {k}
           /\ \A x, y : Precedes(Unlink(q, k), x, y) => Precedes(q, x, y)
<1> DEFINE r == Unlink(q, k)
<1>1. Len(q) \in Nat /\ DOMAIN q = 1..Len(q)
  OBVIOUS
<1>2. CASE ~\E i \in 1..Len(q) : q[i] = k
  <2>1. r = q
    BY <1>1, <1>2 DEF Unlink, Range
  <2> QED  BY <1>1, <1>2, <2>1 DEF Range
<1>3. CASE \E i \in 1..Len(q) : q[i] = k
  <2>1. PICK i \in 1..Len(q) : q[i] = k
    BY <1>3
  <2>2. /\ r \in Seq(S)
        /\ Len(r) = Len(q) - 1
        /\ \A j \in 1..Len(q) - 1 : r[j] = IF j < i THEN q[j] ELSE q[j + 1]
    <3>1. r = RemoveAt(q, i)
      BY <2>1, UnlinkIsRemoveAt
    <3> QED  BY <3>1, RemoveAtElements, Zenon
  <2> HIDE DEF r
  <2>3. DOMAIN r = 1..Len(q) - 1
    BY <2>2
  <2>4. \A m, n \in 1..Len(q) : q[m] = q[n] => m = n
    BY <1>1 DEF IsInjective
  <2>5. IsInjective(r)
    <3>1. ASSUME NEW a \in 1..Len(q) - 1, NEW b \in 1..Len(q) - 1, r[a] = r[b] PROVE a = b
      BY <2>2, <2>4, <3>1
    <3> QED  BY <2>3, <3>1 DEF IsInjective
  <2>6. ASSUME NEW x \in Range(r) PROVE x \in Range(q) \ {k}
    <3>1. PICK j \in 1..Len(q) - 1 : x = r[j]
      BY <2>3 DEF Range
    <3>2. PICK m \in 1..Len(q) : m # i /\ x = q[m]
      BY <1>1, <2>2, <3>1
    <3> QED  BY <1>1, <2>1, <2>4, <3>2 DEF Range
  <2>7. ASSUME NEW x \in Range(q) \ {k} PROVE x \in Range(r)
    <3>1. PICK m \in 1..Len(q) : m # i /\ x = q[m]
      BY <1>1, <2>1 DEF Range
    <3>2. \E j \in 1..Len(q) - 1 : x = r[j]
      <4>1. CASE m < i
        BY <1>1, <2>2, <3>1, <4>1
      <4>2. CASE m > i
        <5>1. m - 1 \in 1..Len(q) - 1 /\ ~(m - 1 < i) /\ (m - 1) + 1 = m
          BY <1>1, <4>2
        <5>2. r[m - 1] = q[m]
          BY <2>2, <5>1
        <5> QED  BY <3>1, <5>1, <5>2
      <4> QED  BY <1>1, <3>1, <4>1, <4>2
    <3> QED  BY <2>3, <3>2 DEF Range
  <2>8. ASSUME NEW x, NEW y, Precedes(r, x, y) PROVE Precedes(q, x, y)
    <3>1. PICK a, b \in 1..Len(q) - 1 : a < b /\ r[a] = x /\ r[b] = y
      BY <2>2, <2>8 DEF Precedes
    <3> DEFINE up(j) == IF j < i THEN j ELSE j + 1
    <3>2. /\ up(a) \in 1..Len(q) /\ up(b) \in 1..Len(q) /\ up(a) < up(b)
          /\ q[up(a)] = x /\ q[up(b)] = y
      BY <1>1, <2>2, <3>1
    <3> QED  BY <3>2 DEF Precedes
  <2> QED  BY <2>2, <2>5, <2>6, <2>7, <2>8 DEF r
<1> QED  BY <1>2, <1>3

\* An element that is put in front of a list is new to it.
LEMMA Prepended ==
    ASSUME NEW S, NEW q \in Seq(S), IsInjective(q), NEW k \in S, k \notin Range(q)
    PROVE  /\ <<k>> \o q \in Seq(S)
           /\ Len(<<k>> \o q) = Len(q) + 1
           /\ IsInjective(<<k>> \o q)
           /\ Range(<<k>> \o q) = Range(q) \cup {k}
           /\ \A x, y : Precedes(<<k>> \o q, x, y) =>
                 y \in Range(q) /\ (x = k \/ Precedes(q, x, y))
<1> DEFINE r == <<k>> \o q
<1>1. Len(q) \in Nat /\ DOMAIN q = 1..Len(q)
  OBVIOUS
<1>2. <<k>> \in Seq(S) /\ Len(<<k>>) = 1 /\ <<k>>[1] = k
  OBVIOUS
<1>3. r \in Seq(S) /\ Len(r) = Len(q) + 1 /\ r[1] = k
  BY <1>1, <1>2, ConcatProperties
<1>4. ASSUME NEW j \in 1..Len(q) PROVE r[j + 1] = q[j] /\ j + 1 \in 1..Len(q) + 1
  BY <1>1, <1>2, ConcatProperties
<1> HIDE DEF r
<1>5. \A j \in 1..Len(q) + 1 : j = 1 \/ (j - 1 \in 1..Len(q) /\ r[j] = q[j - 1])
  BY <1>1, <1>4
<1>6. DOMAIN r = 1..Len(q) + 1
  BY <1>3
<1>7. \A j \in 1..Len(q) : q[j] # k
  BY <1>1 DEF Range
<1>8. IsInjective(r)
  <2>1. \A m, n \in 1..Len(q) : q[m] = q[n] => m = n
    BY <1>1 DEF IsInjective
  <2> SUFFICES ASSUME NEW m \in 1..Len(q) + 1, NEW n \in 1..Len(q) + 1, r[m] = r[n] PROVE m = n
    BY <1>6 DEF IsInjective
  <2>2. CASE m = 1
    BY <1>3, <1>5, <1>7, <2>2
  <2>3. CASE n = 1
    BY <1>3, <1>5, <1>7, <2>3
  <2>4. CASE m # 1 /\ n # 1
    <3>1. m - 1 \in 1..Len(q) /\ n - 1 \in 1..Len(q) /\ q[m - 1] = q[n - 1]
      BY <1>5, <2>4
    <3>2. m - 1 = n - 1
      BY <2>1, <3>1, Zenon
    <3> QED  BY <1>1, <3>2
  <2> QED  BY <2>2, <2>3, <2>4
<1>9. Range(r) = Range(q) \cup {k}
  <2>1. ASSUME NEW x \in Range(r) PROVE x \in Range(q) \cup {k}
    <3>1. PICK j \in 1..Len(q) + 1 : x = r[j]
      BY <1>6 DEF Range
    <3>2. j # 1 => x = q[j - 1] /\ j - 1 \in DOMAIN q
      BY <1>1, <1>5, <3>1
    <3> QED  BY <1>3, <3>1, <3>2 DEF Range
  <2>2. ASSUME NEW x \in Range(q) PROVE x \in Range(r)
    BY <1>1, <1>4, <1>6 DEF Range
  <2>3. k \in Range(r)
    BY <1>1, <1>3, <1>6 DEF Range
  <2> QED  BY <2>1, <2>2, <2>3
<1>10. ASSUME NEW x, NEW y, Precedes(r, x, y)
       PROVE  y \in Range(q) /\ (x = k \/ Precedes(q, x, y))
  <2>1. PICK i, j \in 1..Len(q) + 1 : i < j /\ r[i] = x /\ r[j] = y
    BY <1>3, <1>10 DEF Precedes
  <2>2. j - 1 \in 1..Len(q) /\ y = q[j - 1]
    BY <1>1, <1>5, <2>1
  <2>3. i # 1 => i - 1 \in 1..Len(q) /\ x = q[i - 1] /\ i - 1 < j - 1
    BY <1>1, <1>5, <2>1
  <2> QED  BY <1>1, <1>3, <2>1, <2>2, <2>3 DEF Range, Precedes
<1> QED  BY <1>3, <1>8, <1>9, <1>10 DEF r

\* Front takes the last element, which is nowhere else in the list.
LEMMA Fronted ==
    ASSUME NEW S, NEW q \in Seq(S), IsInjective(q), q # <<>>
    PROVE  /\ Last(q) \in S
           /\ Front(q) \in Seq(S)
           /\ Len(Front(q)) = Len(q) - 1
           /\ IsInjective(Front(q))
           /\ Range(Front(q)) = Range(q) \ {Last(q)}
           /\ \A x, y : Precedes(Front(q), x, y) => Precedes(q, x, y)
<1> DEFINE r == Front(q)
<1>1. Len(q) \in Nat /\ DOMAIN q = 1..Len(q) /\ Len(q) >= 1
  BY EmptySeq
<1>2. /\ r \in Seq(S) /\ Len(r) = Len(q) - 1
      /\ \A i \in 1..Len(q) - 1 : r[i] = q[i]
  BY <1>1 DEF Front
<1> HIDE DEF r
<1>3. DOMAIN r = 1..Len(q) - 1
  BY <1>2
<1>4. \A m, n \in 1..Len(q) : q[m] = q[n] => m = n
  BY <1>1 DEF IsInjective
<1>5. IsInjective(r)
  BY <1>1, <1>2, <1>3, <1>4 DEF IsInjective
<1>6. Range(r) = Range(q) \ {Last(q)}
  BY <1>1, <1>2, <1>3, <1>4 DEF Range, Last
<1>7. \A x, y : Precedes(r, x, y) => Precedes(q, x, y)
  BY <1>1, <1>2 DEF Precedes
<1>8. Last(q) \in S
  BY <1>1 DEF Last
<1> QED  BY <1>2, <1>5, <1>6, <1>7, <1>8 DEF r

\* A list without duplicates has as many elements as it is long.
LEMMA Counted ==
    ASSUME NEW S, NEW q \in Seq(S), IsInjective(q)
    PROVE  IsFiniteSet(Range(q)) /\ Cardinality(Range(q)) = Len(q)
<1>1. Len(q) \in Nat /\ DOMAIN q = 1..Len(q) /\ q \in [1..Len(q) -> S]
  OBVIOUS
<1>2. q \in [1..Len(q) -> Range(q)]
  BY <1>1 DEF Range
<1>3. q \in Bijection(1..Len(q), Range(q))
  BY <1>1, <1>2 DEF Bijection, Injection, Surjection, Range
<1>4. ExistsBijection(1..Len(q), Range(q))
  BY <1>3 DEF ExistsBijection
<1> QED  BY <1>1, <1>4, FS_CountingElements, FS_NatBijection

-----------------------------------------------------------------------------
(***************************************************************************)
(* A cache with keys K and entries E, and what a call does to it: only the *)
(* key k gets a new entry e, and only k changes its place, to the front.   *)
(***************************************************************************)
CacheOK(c, K, E, max) ==
    /\ c.map \in [K -> E \cup {NoEntry}]
    /\ c.list \in Seq(K)
    /\ InStepCache(c, max)

Follows(d, c, k, e) ==
    /\ Cached(d) \subseteq Cached(c) \cup {k}
    /\ k \in Cached(d) => d.map[k] = e
    /\ \A x \in Cached(d) \ {k} : d.map[x] = c.map[x]
    /\ \A x, y : Precedes(d.list, x, y) => y # k /\ (x = k \/ Precedes(c.list, x, y))

\* What comes before something is in the list.
LEMMA PrecedesIn ==
    ASSUME NEW S, NEW q \in Seq(S), NEW x, NEW y, Precedes(q, x, y)
    PROVE  x \in Range(q) /\ y \in Range(q)
  BY DEF Precedes, Range

\* A call that finds nothing to do.
LEMMA Kept ==
    ASSUME NEW K, NEW E, NEW c, NEW max, CacheOK(c, K, E, max), NEW k, NEW e, k \notin Cached(c)
    PROVE  Follows(c, c, k, e)
  BY PrecedesIn DEF Follows, CacheOK, InStepCache

\* Drop takes out an entry that has expired.
LEMMA Dropped ==
    ASSUME NEW K, NEW E, NEW c, NEW max \in Nat, CacheOK(c, K, E, max), NoEntry \notin E,
           NEW k \in K, NEW e
    PROVE  CacheOK(Drop(c, k), K, E, max) /\ Follows(Drop(c, k), c, k, e)
<1> DEFINE d == Drop(c, k)
<1>1. d.map = [c.map EXCEPT ![k] = NoEntry] /\ d.list = Unlink(c.list, k)
  BY DEF Drop
<1>2. /\ c.map \in [K -> E \cup {NoEntry}] /\ c.list \in Seq(K) /\ IsInjective(c.list)
      /\ Range(c.list) = Cached(c) /\ Cardinality(Cached(c)) <= max
  BY DEF CacheOK, InStepCache
<1> HIDE DEF d
<1>3. d.map \in [K -> E \cup {NoEntry}]
  BY <1>1, <1>2
<1>4. Cached(d) = Cached(c) \ {k} /\ \A x \in Cached(d) : d.map[x] = c.map[x]
  BY <1>1, <1>2 DEF Cached
<1>5. /\ d.list \in Seq(K) /\ IsInjective(d.list) /\ Range(d.list) = Cached(c) \ {k}
      /\ \A x, y : Precedes(d.list, x, y) => Precedes(c.list, x, y)
  BY <1>1, <1>2, Removed
<1>6. \A x, y : Precedes(d.list, x, y) => y # k
  BY <1>5, PrecedesIn
<1>7. Cardinality(Cached(d)) <= max
  <2>1. Cardinality(Cached(c)) = Len(c.list) /\ Cardinality(Cached(d)) = Len(d.list)
    BY <1>2, <1>4, <1>5, Counted, Zenon
  <2>2. Cardinality(Cached(d)) <= Cardinality(Cached(c))
    BY <1>2, <1>4, Counted, FS_Subset
  <2> QED  BY <2>1, <2>2, <1>2, <1>5
<1>8. CacheOK(d, K, E, max)
  BY <1>3, <1>4, <1>5, <1>7 DEF CacheOK, InStepCache
<1>9. Follows(d, c, k, e)
  BY <1>4, <1>5, <1>6 DEF Follows
<1> QED  BY <1>8, <1>9 DEF d

\* Touch renews the entry of a key and moves it to the front.
LEMMA Touched ==
    ASSUME NEW K, NEW E, NEW c, NEW max \in Nat, CacheOK(c, K, E, max), NoEntry \notin E,
           NEW k \in Cached(c), NEW e \in E
    PROVE  CacheOK(Touch(c, k, e), K, E, max) /\ Follows(Touch(c, k, e), c, k, e)
<1> DEFINE d == Touch(c, k, e)
           r == Unlink(c.list, k)
<1>1. d.map = [c.map EXCEPT ![k] = e] /\ d.list = <<k>> \o r
  BY DEF Touch
<1>2. /\ c.map \in [K -> E \cup {NoEntry}] /\ c.list \in Seq(K) /\ IsInjective(c.list)
      /\ Range(c.list) = Cached(c) /\ Cardinality(Cached(c)) <= max
  BY DEF CacheOK, InStepCache
<1> HIDE DEF d
<1>3. k \in K
  BY <1>2 DEF Cached
<1>4. d.map \in [K -> E \cup {NoEntry}] /\ d.map[k] = e
  BY <1>1, <1>2, <1>3
<1>5. Cached(d) = Cached(c) /\ \A x \in Cached(d) \ {k} : d.map[x] = c.map[x]
  BY <1>1, <1>2, <1>3 DEF Cached
<1>6. /\ r \in Seq(K) /\ IsInjective(r) /\ Range(r) = Cached(c) \ {k}
      /\ \A x, y : Precedes(r, x, y) => Precedes(c.list, x, y)
  BY <1>2, Removed
<1> HIDE DEF r
<1>7. /\ d.list \in Seq(K) /\ IsInjective(d.list) /\ Range(d.list) = Range(r) \cup {k}
      /\ \A x, y : Precedes(d.list, x, y) => y \in Range(r) /\ (x = k \/ Precedes(r, x, y))
  BY <1>1, <1>3, <1>6, Prepended
<1>8. CacheOK(d, K, E, max)
  BY <1>2, <1>4, <1>5, <1>6, <1>7 DEF CacheOK, InStepCache
<1>9. Follows(d, c, k, e)
  BY <1>4, <1>5, <1>6, <1>7 DEF Follows
<1> QED  BY <1>8, <1>9 DEF d

\* MakeRoom leaves one place, and takes none but the entry at the back.
LEMMA RoomMade ==
    ASSUME NEW K, NEW E, NEW c, NEW max \in Nat \ {0}, CacheOK(c, K, E, max), NoEntry \notin E
    PROVE  /\ CacheOK(MakeRoom(c, max), K, E, max)
           /\ Len(MakeRoom(c, max).list) < max
           /\ Cached(MakeRoom(c, max)) \subseteq Cached(c)
           /\ \A x \in Cached(MakeRoom(c, max)) : MakeRoom(c, max).map[x] = c.map[x]
           /\ \A x, y : Precedes(MakeRoom(c, max).list, x, y) => Precedes(c.list, x, y)
<1>1. /\ c.map \in [K -> E \cup {NoEntry}] /\ c.list \in Seq(K) /\ IsInjective(c.list)
      /\ Range(c.list) = Cached(c) /\ Cardinality(Cached(c)) <= max
  BY DEF CacheOK, InStepCache
<1>2. Cardinality(Cached(c)) = Len(c.list) /\ Len(c.list) \in Nat
  BY <1>1, Counted
<1>3. CASE Cardinality(Cached(c)) < max
  BY <1>2, <1>3 DEF MakeRoom
<1>4. CASE Cardinality(Cached(c)) >= max
  <2> DEFINE d == EvictOldest(c)
  <2>1. c.list # <<>>
    BY <1>2, <1>4
  <2>2. d.map = [c.map EXCEPT ![Last(c.list)] = NoEntry] /\ d.list = Front(c.list)
    BY <2>1 DEF EvictOldest, Last, Front
  <2>3. MakeRoom(c, max) = d
    BY <1>4 DEF MakeRoom
  <2> HIDE DEF d
  <2>4. /\ Last(c.list) \in K /\ d.list \in Seq(K) /\ Len(d.list) = Len(c.list) - 1
        /\ IsInjective(d.list) /\ Range(d.list) = Cached(c) \ {Last(c.list)}
        /\ \A x, y : Precedes(d.list, x, y) => Precedes(c.list, x, y)
    <3>1. c.list \in Seq(K) /\ IsInjective(c.list) /\ Range(c.list) = Cached(c)
      BY <1>1
    <3> QED  BY <2>1, <2>2, <3>1, Fronted
  <2>5. d.map \in [K -> E \cup {NoEntry}]
    BY <1>1, <2>2, <2>4
  <2>6. Cached(d) = Cached(c) \ {Last(c.list)} /\ \A x \in Cached(d) : d.map[x] = c.map[x]
    BY <1>1, <2>2, <2>4 DEF Cached
  <2>7. Cardinality(Cached(d)) = Len(c.list) - 1
    BY <2>4, <2>6, Counted, Zenon
  <2>8. CacheOK(d, K, E, max) /\ Len(d.list) < max
    BY <1>1, <1>2, <2>4, <2>5, <2>6, <2>7 DEF CacheOK, InStepCache
  <2> QED  BY <2>3, <2>4, <2>6, <2>8
<1> QED  BY <1>2, <1>3, <1>4

\* Insert puts a new key in front, within the limit.
LEMMA Inserted ==
    ASSUME NEW K, NEW E, NEW c, NEW max \in Nat \ {0}, CacheOK(c, K, E, max), NoEntry \notin E,
           NEW k \in K \ Cached(c), NEW e \in E
    PROVE  CacheOK(Insert(c, k, e, max), K, E, max) /\ Follows(Insert(c, k, e, max), c, k, e)
<1> DEFINE m == MakeRoom(c, max)
           d == Insert(c, k, e, max)
<1>1. d.map = [m.map EXCEPT ![k] = e] /\ d.list = <<k>> \o m.list
  BY DEF Insert
<1>2. /\ CacheOK(m, K, E, max) /\ Len(m.list) < max /\ Cached(m) \subseteq Cached(c)
      /\ \A x \in Cached(m) : m.map[x] = c.map[x]
      /\ \A x, y : Precedes(m.list, x, y) => Precedes(c.list, x, y)
  BY RoomMade, Zenon
<1> HIDE DEF m, d
<1>3. /\ m.map \in [K -> E \cup {NoEntry}] /\ m.list \in Seq(K) /\ IsInjective(m.list)
      /\ Range(m.list) = Cached(m)
  BY <1>2 DEF CacheOK, InStepCache
<1>4. d.map \in [K -> E \cup {NoEntry}] /\ d.map[k] = e
  BY <1>1, <1>3
<1>5. Cached(d) = Cached(m) \cup {k} /\ \A x \in Cached(d) \ {k} : d.map[x] = m.map[x]
  BY <1>1, <1>3 DEF Cached
<1>6. /\ d.list \in Seq(K) /\ IsInjective(d.list) /\ Range(d.list) = Range(m.list) \cup {k}
      /\ Len(d.list) = Len(m.list) + 1
      /\ \A x, y : Precedes(d.list, x, y) =>
            y \in Range(m.list) /\ (x = k \/ Precedes(m.list, x, y))
  BY <1>1, <1>2, <1>3, Prepended
<1>7. Cardinality(Cached(d)) <= max
  <2>1. Cardinality(Range(d.list)) = Len(d.list)
    BY <1>6, Counted, Zenon
  <2>2. Range(d.list) = Cached(d)
    BY <1>3, <1>5, <1>6
  <2>3. Cardinality(Cached(d)) = Len(m.list) + 1
    BY <1>6, <2>1, <2>2, Zenon
  <2>4. Len(m.list) \in Nat
    BY <1>3
  <2> QED  BY <1>2, <2>3, <2>4
<1>8. CacheOK(d, K, E, max)
  BY <1>3, <1>4, <1>5, <1>6, <1>7 DEF CacheOK, InStepCache
<1>9. Follows(d, c, k, e)
  <2>1. k \notin Cached(m)
    BY <1>2
  <2>2. \A x, y : Precedes(d.list, x, y) => y # k /\ (x = k \/ Precedes(c.list, x, y))
    BY <1>2, <1>3, <1>6, <2>1
  <2>3. \A x \in Cached(d) \ {k} : d.map[x] = c.map[x]
    BY <1>2, <1>5
  <2> QED  BY <1>2, <1>4, <1>5, <2>2, <2>3 DEF Follows
<1> QED  BY <1>8, <1>9 DEF d

\* Set, of a key that is there or not, as one of the two.
LEMMA PutDone ==
    ASSUME NEW K, NEW E, NEW c, NEW max \in Nat \ {0}, CacheOK(c, K, E, max), NoEntry \notin E,
           NEW k \in K, NEW e \in E
    PROVE  CacheOK(Put(c, k, e, max), K, E, max) /\ Follows(Put(c, k, e, max), c, k, e)
<1>1. CASE k \in Cached(c)
  <2>1. Put(c, k, e, max) = Touch(c, k, e)
    BY <1>1 DEF Put
  <2> QED  BY <1>1, <2>1, Touched
<1>2. CASE k \notin Cached(c)
  <2>1. Put(c, k, e, max) = Insert(c, k, e, max)
    BY <1>2 DEF Put
  <2> QED  BY <1>2, <2>1, Inserted
<1> QED  BY <1>1, <1>2

-----------------------------------------------------------------------------
(***************************************************************************)
(* The two caches, and what their Get and Set do.                          *)
(***************************************************************************)
TokensOK == CacheOK(tokens, Tokens, tokenCacheEntry, TokenLimit)
ClientsOK == CacheOK(clients, Accounts, clientCacheEntry, ClientLimit)

\* No entry is the absent one, and the limits are positive.
LEMMA EntriesAndLimits ==
    /\ NoEntry \notin tokenCacheEntry
    /\ NoEntry \notin clientCacheEntry
    /\ TokenLimit \in Nat \ {0} /\ ClientLimit \in Nat \ {0} /\ TTL \in Nat \ {0}
<1>1. NoEntry \notin tokenCacheEntry
  BY DEF NoEntry, tokenCacheEntry
<1>2. NoEntry \notin clientCacheEntry
  BY DEF NoEntry, clientCacheEntry
<1>3. TokenLimit \in Nat \ {0} /\ ClientLimit \in Nat \ {0} /\ TTL \in Nat \ {0}
  BY CacheAssumption DEF TokenLimit, ClientLimit, TTL
<1> QED  BY <1>1, <1>2, <1>3

\* TokenCache.Get: the entry that is found has the present time.
LEMMA TokenGot ==
    ASSUME TypeOK, TokensOK, NEW t \in Tokens, TokenCacheGet(t)
    PROVE  /\ TokensOK'
           /\ Follows(tokens', tokens, t, [tokens.map[t] EXCEPT !.lastAccess = now])
           /\ t \in Cached(tokens') => TokenFound(t)
<1> DEFINE e == [tokens.map[t] EXCEPT !.lastAccess = now]
<1> USE EntriesAndLimits
<1>1. now \in Nat
  BY CacheAssumption DEF TypeOK
<1>2. CASE TokenFound(t)
  <2>1. tokens' = Touch(tokens, t, e) /\ t \in Cached(tokens)
    BY <1>2 DEF TokenCacheGet, TokenFound
  <2>2. tokens.map[t] \in tokenCacheEntry
    BY <2>1 DEF TypeOK, Cached
  <2>3. e \in tokenCacheEntry
    BY <1>1, <2>2 DEF tokenCacheEntry
  <2> QED  BY <1>2, <2>1, <2>3, Touched DEF TokensOK
<1>3. CASE ~TokenFound(t) /\ t \in Cached(tokens)
  <2>1. tokens' = Drop(tokens, t)
    BY <1>3 DEF TokenCacheGet
  <2>2. t \notin Cached(tokens')
    BY <2>1 DEF Drop, Cached, TypeOK
  <2> QED  BY <2>1, <2>2, Dropped DEF TokensOK
<1>4. CASE t \notin Cached(tokens)
  <2>1. tokens' = tokens
    BY <1>4 DEF TokenCacheGet, TokenFound
  <2> QED  BY <1>4, <2>1, Kept DEF TokensOK
<1> QED  BY <1>2, <1>3, <1>4

\* TokenCache.Set: the entry has the present time.
LEMMA TokenSet ==
    ASSUME TypeOK, TokensOK, NEW t \in Tokens, NEW v \in BOOLEAN, TokenCacheSet(t, v)
    PROVE  /\ TokensOK'
           /\ Follows(tokens', tokens, t, [authenticated |-> v, lastAccess |-> now])
<1>1. [authenticated |-> v, lastAccess |-> now] \in tokenCacheEntry
  BY CacheAssumption DEF TypeOK, tokenCacheEntry
<1> QED  BY <1>1, EntriesAndLimits, PutDone DEF TokenCacheSet, TokensOK

\* ClientCache.Get leaves the entries that it keeps as they are.
LEMMA ClientGot ==
    ASSUME TypeOK, ClientsOK, NEW a \in Accounts, ClientCacheGet(a)
    PROVE  /\ ClientsOK'
           /\ Follows(clients', clients, a, clients.map[a])
           /\ a \in Cached(clients') => a \in Cached(clients)
<1> USE EntriesAndLimits
<1>1. CASE ClientFound(a)
  <2>1. clients' = Touch(clients, a, clients.map[a]) /\ a \in Cached(clients)
    BY <1>1 DEF ClientCacheGet, ClientFound
  <2>2. clients.map[a] \in clientCacheEntry
    BY <2>1 DEF TypeOK, Cached
  <2> QED  BY <2>1, <2>2, Touched DEF ClientsOK
<1>2. CASE ~ClientFound(a) /\ a \in Cached(clients)
  <2>1. clients' = Drop(clients, a)
    BY <1>2 DEF ClientCacheGet
  <2> QED  BY <1>2, <2>1, Dropped DEF ClientsOK
<1>3. CASE a \notin Cached(clients)
  <2>1. clients' = clients
    BY <1>3 DEF ClientCacheGet, ClientFound
  <2> QED  BY <1>3, <2>1, Kept DEF ClientsOK
<1> QED  BY <1>1, <1>2, <1>3

\* ClientCache.Set: the client of t, with the expiry of t.
LEMMA ClientSet ==
    ASSUME TypeOK, ClientsOK, NEW a \in Accounts, NEW t \in Tokens, ClientCacheSet(a, t)
    PROVE  /\ ClientsOK'
           /\ Follows(clients', clients, a,
                      [client |-> t, tokenExpiry |-> ParseJWTExpiry(t)])
<1>1. ParseJWTExpiry(t) \in Nat \cup {ZeroTime}
  BY CacheAssumption DEF ParseJWTExpiry
<1>2. [client |-> t, tokenExpiry |-> ParseJWTExpiry(t)] \in clientCacheEntry
  BY <1>1 DEF clientCacheEntry
<1> QED  BY <1>2, EntriesAndLimits, PutDone DEF ClientCacheSet, ClientsOK

-----------------------------------------------------------------------------
(***************************************************************************)
(* A call of the token cache keeps the order of use and the verdicts; one  *)
(* of the client cache keeps whom the clients act for.                     *)
(***************************************************************************)
\* The order of use, in terms of Precedes.
LEMMA RecencyByPrecedes ==
    ASSUME tokens.list \in Seq(Tokens)
    PROVE  RecencyOrder <=>
              \A x, y : Precedes(tokens.list, x, y) =>
                  tokens.map[x].lastAccess >= tokens.map[y].lastAccess
<1>1. DOMAIN tokens.list = 1..Len(tokens.list)
  OBVIOUS
<1> QED  BY <1>1, Zenon DEF RecencyOrder, Precedes

LEMMA RecencyByPrecedesAfter ==
    ASSUME tokens'.list \in Seq(Tokens)
    PROVE  RecencyOrder' <=>
              \A x, y : Precedes(tokens'.list, x, y) =>
                  tokens'.map[x].lastAccess >= tokens'.map[y].lastAccess
<1>1. DOMAIN tokens'.list = 1..Len(tokens'.list)
  OBVIOUS
<1> QED  BY <1>1, Zenon DEF RecencyOrder, Precedes

LEMMA TokenUsed ==
    ASSUME TypeOK, TokensOK, TokensOK', VerdictInv, RecencyOrder,
           NEW t \in Tokens, NEW e, Follows(tokens', tokens, t, e),
           t \in Cached(tokens') => e.lastAccess = now /\ (e.authenticated => t \in vouched),
           now' = now, lastUse' = [lastUse EXCEPT ![t] = now], vouched' = vouched
    PROVE  VerdictInv' /\ RecencyOrder'
<1>1. now \in Nat /\ lastUse \in [Tokens -> Int]
  BY CacheAssumption DEF TypeOK
<1>2. /\ Cached(tokens') \subseteq Cached(tokens) \cup {t}
      /\ t \in Cached(tokens') => tokens'.map[t] = e
      /\ \A x \in Cached(tokens') \ {t} : tokens'.map[x] = tokens.map[x]
      /\ \A x, y : Precedes(tokens'.list, x, y) =>
            y # t /\ (x = t \/ Precedes(tokens.list, x, y))
  BY DEF Follows
<1>3. /\ tokens.list \in Seq(Tokens) /\ tokens'.list \in Seq(Tokens)
      /\ Range(tokens.list) = Cached(tokens) /\ Range(tokens'.list) = Cached(tokens')
      /\ Cached(tokens) \subseteq Tokens /\ Cached(tokens') \subseteq Tokens
      /\ \A x \in Cached(tokens) : tokens.map[x].lastAccess \in Nat
  BY DEF TokensOK, CacheOK, InStepCache, Cached, tokenCacheEntry
<1>4. /\ \A x \in Tokens : lastUse[x] <= now
      /\ \A x \in Cached(tokens) :
            /\ tokens.map[x].lastAccess <= lastUse[x]
            /\ tokens.map[x].authenticated => x \in vouched
  BY DEF VerdictInv
<1>5. \A x \in Tokens : lastUse'[x] <= now'
  BY <1>1, <1>4
<1>6. ASSUME NEW x \in Cached(tokens')
      PROVE  /\ tokens'.map[x].lastAccess <= lastUse'[x]
             /\ tokens'.map[x].authenticated => x \in vouched'
  <2>1. CASE x = t
    BY <1>1, <1>2, <2>1
  <2>2. CASE x # t
    BY <1>1, <1>2, <1>3, <1>4, <2>2, Zenon
  <2> QED  BY <2>1, <2>2
<1>7. VerdictInv'
  BY <1>5, <1>6 DEF VerdictInv
<1>8. ASSUME NEW x, NEW y, Precedes(tokens'.list, x, y)
      PROVE  tokens'.map[x].lastAccess >= tokens'.map[y].lastAccess
  <2>1. x \in Cached(tokens') /\ y \in Cached(tokens') /\ y # t
    BY <1>2, <1>3, <1>8, PrecedesIn
  <2>2. /\ tokens'.map[y] = tokens.map[y] /\ y \in Cached(tokens)
        /\ tokens.map[y].lastAccess \in Nat /\ tokens.map[y].lastAccess <= now
    BY <1>1, <1>2, <1>3, <1>4, <2>1
  <2>3. CASE x = t
    <3>1. tokens'.map[x].lastAccess = now
      BY <1>2, <2>1, <2>3
    <3> QED  BY <1>1, <2>2, <3>1
  <2>4. CASE x # t
    <3>1. Precedes(tokens.list, x, y) /\ tokens'.map[x] = tokens.map[x]
      BY <1>2, <1>8, <2>1, <2>4
    <3>2. tokens.map[x].lastAccess >= tokens.map[y].lastAccess
      BY <1>3, <3>1, RecencyByPrecedes
    <3> QED  BY <2>2, <3>1, <3>2
  <2> QED  BY <2>3, <2>4
<1>9. RecencyOrder'
  BY <1>3, <1>8, RecencyByPrecedesAfter
<1> QED  BY <1>7, <1>9

LEMMA ClientUsed ==
    ASSUME ClientInv, NEW a \in Accounts, NEW e, Follows(clients', clients, a, e),
           a \in Cached(clients') =>
              AccountOf[e.client] = a /\ e.tokenExpiry = ParseJWTExpiry(e.client) /\ e.client \in vouched,
           vouched' = vouched
    PROVE  ClientInv'
<1>1. ASSUME NEW b \in Cached(clients')
      PROVE  /\ AccountOf[clients'.map[b].client] = b
             /\ clients'.map[b].tokenExpiry = ParseJWTExpiry(clients'.map[b].client)
             /\ clients'.map[b].client \in vouched
  <2>1. CASE b = a
    BY <2>1 DEF Follows
  <2>2. CASE b # a
    BY <2>2 DEF Follows, ClientInv
  <2> QED  BY <2>1, <2>2
<1> QED  BY <1>1 DEF ClientInv, ParseJWTExpiry

-----------------------------------------------------------------------------
(***************************************************************************)
(* The inductive invariant, part by part.                                  *)
(***************************************************************************)
\* The caches are as their calls want them.
LEMMA CachesOK == ASSUME TypeOK, InStep PROVE TokensOK /\ ClientsOK
  BY DEF TypeOK, InStep, TokensOK, ClientsOK, CacheOK

\* Every step keeps the caches in shape, and the verdicts and clients in them.
LEMMA CachesStep ==
    ASSUME IInv, [Next]_vars
    PROVE  TokensOK' /\ ClientsOK' /\ VerdictInv' /\ ClientInv' /\ RecencyOrder'
<1> DEFINE Goal == TokensOK' /\ ClientsOK' /\ VerdictInv' /\ ClientInv' /\ RecencyOrder'
<1>1. /\ TypeOK /\ RequestInv /\ VerdictInv /\ ClientInv /\ RecencyOrder
      /\ TokensOK /\ ClientsOK
  BY CachesOK DEF IInv, InStep
<1>2. now \in Nat /\ tokens.map \in [Tokens -> tokenCacheEntry \cup {NoEntry}]
  BY <1>1, CacheAssumption DEF TypeOK
<1>3. ASSUME UNCHANGED clients, vouched \subseteq vouched' PROVE ClientsOK' /\ ClientInv'
  BY <1>1, <1>3, Zenon DEF ClientsOK, CacheOK, InStepCache, Cached, ClientInv, ParseJWTExpiry
<1>4. ASSUME UNCHANGED <<tokens, lastUse>>, vouched \subseteq vouched', now' \in Nat, now <= now'
      PROVE  TokensOK' /\ VerdictInv' /\ RecencyOrder'
  <2>1. TokensOK' /\ RecencyOrder'
    BY <1>1, <1>4, Zenon DEF TokensOK, CacheOK, InStepCache, Cached, RecencyOrder
  <2>2. lastUse \in [Tokens -> Int]
    BY <1>1 DEF TypeOK
  <2>3. VerdictInv'
    BY <1>1, <1>2, <1>4, <2>2 DEF VerdictInv, Cached
  <2> QED  BY <2>1, <2>3
<1>5. ASSUME NEW r \in Requests, NEW t \in Tokens, AuthMiddleware(r, t) PROVE Goal
  <2> DEFINE e == [tokens.map[t] EXCEPT !.lastAccess = now]
  <2>1. /\ TokenCacheGet(t) /\ lastUse' = [lastUse EXCEPT ![t] = now]
        /\ now' = now /\ clients' = clients /\ vouched' = vouched
    BY <1>5 DEF AuthMiddleware
  <2>2. /\ TokensOK' /\ Follows(tokens', tokens, t, e)
        /\ t \in Cached(tokens') => TokenFound(t)
    BY <1>1, <2>1, TokenGot
  <2>3. TokenFound(t) => e.lastAccess = now /\ (e.authenticated => t \in vouched)
    BY <1>1, <1>2, EntriesAndLimits DEF TokenFound, VerdictInv, Cached, tokenCacheEntry
  <2> HIDE DEF e
  <2>4. VerdictInv' /\ RecencyOrder'
    BY <1>1, <2>1, <2>2, <2>3, TokenUsed, Zenon
  <2> QED  BY <1>3, <2>1, <2>2, <2>4
<1>6. ASSUME NEW r \in Requests, CacheVerdict(r) PROVE Goal
  <2> DEFINE t == tok[r]
             e == [authenticated |-> verdict[r], lastAccess |-> now]
  <2>1. /\ TokenCacheSet(t, verdict[r]) /\ lastUse' = [lastUse EXCEPT ![t] = now]
        /\ now' = now /\ clients' = clients /\ vouched' = vouched
    BY <1>6 DEF CacheVerdict
  <2>2. t \in Tokens /\ verdict[r] \in BOOLEAN /\ (verdict[r] => t \in vouched)
    BY <1>1, <1>6, Zenon DEF TypeOK, RequestInv, CacheVerdict
  <2>3. TokensOK' /\ Follows(tokens', tokens, t, e)
    BY <1>1, <2>1, <2>2, TokenSet, Zenon
  <2>4. e.lastAccess = now /\ (e.authenticated => t \in vouched)
    BY <2>2
  <2> HIDE DEF t, e
  <2>5. VerdictInv' /\ RecencyOrder'
    BY <1>1, <2>1, <2>2, <2>3, <2>4, TokenUsed, Zenon
  <2> QED  BY <1>3, <2>1, <2>3, <2>5
<1>7. ASSUME NEW r \in Requests, GetUserK8sClient(r) PROVE Goal
  <2> DEFINE a == AccountOf[tok[r]]
  <2>1. /\ ClientCacheGet(a) /\ now' = now /\ UNCHANGED <<tokens, lastUse>> /\ vouched' = vouched
    BY <1>7 DEF GetUserK8sClient
  <2>2. a \in Accounts
    BY <1>1, <1>7, CacheAssumption, Zenon DEF RequestInv, GetUserK8sClient, Admitted
  <2>3. /\ ClientsOK' /\ Follows(clients', clients, a, clients.map[a])
        /\ a \in Cached(clients') => a \in Cached(clients)
    BY <1>1, <2>1, <2>2, ClientGot
  <2>4. a \in Cached(clients) =>
           /\ AccountOf[clients.map[a].client] = a
           /\ clients.map[a].tokenExpiry = ParseJWTExpiry(clients.map[a].client)
           /\ clients.map[a].client \in vouched
    BY <1>1, Zenon DEF ClientInv
  <2> HIDE DEF a
  <2>5. ClientInv'
    BY <1>1, <2>1, <2>2, <2>3, <2>4, ClientUsed
  <2> QED  BY <1>2, <1>4, <2>1, <2>3, <2>5
<1>8. ASSUME NEW r \in Requests, NewUserK8sClient(r) PROVE Goal
  <2> DEFINE a == AccountOf[tok[r]]
             e == [client |-> tok[r], tokenExpiry |-> ParseJWTExpiry(tok[r])]
  <2>1. /\ ClientCacheSet(a, tok[r]) /\ now' = now /\ UNCHANGED <<tokens, lastUse>>
        /\ vouched' = vouched
    BY <1>8, Zenon DEF NewUserK8sClient, history
  <2>2. tok[r] \in Tokens /\ a \in Accounts /\ tok[r] \in vouched
    BY <1>1, <1>8, CacheAssumption DEF RequestInv, NewUserK8sClient
  <2>3. ClientsOK' /\ Follows(clients', clients, a, e)
    BY <1>1, <2>1, <2>2, ClientSet, Zenon
  <2>4. AccountOf[e.client] = a /\ e.tokenExpiry = ParseJWTExpiry(e.client) /\ e.client \in vouched
    BY <2>2
  <2> HIDE DEF a, e
  <2>5. ClientInv'
    BY <1>1, <2>1, <2>2, <2>3, <2>4, ClientUsed, Zenon
  <2> QED  BY <1>2, <1>4, <2>1, <2>3, <2>5
<1>9. ASSUME NEW r \in Requests, TokenReview(r) PROVE Goal
  <2>1. UNCHANGED <<tokens, clients, lastUse, now>> /\ vouched \subseteq vouched'
    BY <1>9, Zenon DEF TokenReview, cacheVars
  <2> QED  BY <1>2, <1>3, <1>4, <2>1
<1> DEFINE Still == UNCHANGED <<tokens, clients, lastUse, vouched>> /\ now' \in {now, now + 1}
<1>10. Still => Goal
  BY <1>2, <1>3, <1>4
<1>11. ASSUME NEW r \in Requests, Finish(r), UNCHANGED cacheVars PROVE Still
  BY <1>11 DEF Finish, cacheVars
<1>12. ASSUME NEW t \in Tokens, Judge(t) PROVE Still
  BY <1>12 DEF Judge, cacheVars
<1>13. Tick \/ UNCHANGED vars => Still
  BY DEF Tick, vars, cacheVars, history
<1> HIDE DEF Goal, Still
<1>14. Goal
  BY <1>5, <1>6, <1>7, <1>8, <1>9, <1>10, <1>11, <1>12, <1>13, Zenon
     DEF Next, Serve, TokenReviewFails, Refuse, HandlerReturns
<1> QED  BY <1>14 DEF Goal

\* Init establishes the invariant.
LEMMA InitIInv == Init => IInv
<1> SUFFICES ASSUME Init PROVE IInv
  OBVIOUS
<1>1. TTL \in Nat /\ TokenLimit \in Nat /\ ClientLimit \in Nat
  BY CacheAssumption DEF TTL, TokenLimit, ClientLimit
<1>2. Cached(tokens) = {} /\ Cached(clients) = {}
  BY DEF Init, Cached
<1>3. InStep
  <2>1. Cardinality({}) = 0
    BY FS_EmptySet
  <2>2. tokens.list = <<>> /\ clients.list = <<>>
    BY DEF Init
  <2>3. IsInjective(tokens.list) /\ IsInjective(clients.list)
    BY <2>2 DEF IsInjective
  <2>4. Range(tokens.list) = {} /\ Range(clients.list) = {}
    BY <2>2 DEF Range
  <2>5. RecencyOrder
    BY <2>2 DEF RecencyOrder
  <2> QED  BY <1>1, <1>2, <2>1, <2>3, <2>4, <2>5 DEF InStep, InStepCache
<1>4. TypeOK
  BY <1>1, CacheAssumption DEF Init, TypeOK, Serving
<1>5. RequestInv /\ SeenInv
  BY DEF Init, RequestInv, SeenInv
<1>6. VerdictInv /\ ClientInv
  BY <1>1, <1>2 DEF Init, VerdictInv, ClientInv
<1> QED  BY <1>3, <1>4, <1>5, <1>6 DEF IInv

\* Every step keeps the types of what is not in the caches.
LEMMA TypeStep == ASSUME IInv, [Next]_vars PROVE TypeOK'
<1>1. TypeOK /\ RequestInv /\ ClientInv
  BY DEF IInv
<1>2. /\ tokens.map' \in [Tokens -> tokenCacheEntry \cup {NoEntry}]
      /\ tokens.list' \in Seq(Tokens)
      /\ clients.map' \in [Accounts -> clientCacheEntry \cup {NoEntry}]
      /\ clients.list' \in Seq(Accounts)
  BY CachesStep, Zenon DEF TokensOK, ClientsOK, CacheOK
<1> DEFINE Rest == /\ now' \in 0..MaxTime
                   /\ authentic' \in SUBSET Tokens
                   /\ flips' \in 0..MaxFlips
                   /\ pc' \in [Requests -> Serving \cup {"idle"}]
                   /\ tok' \in [Requests -> Tokens \cup {NoToken}]
                   /\ verdict' \in [Requests -> BOOLEAN]
                   /\ client' \in [Requests -> Tokens \cup {NoToken}]
                   /\ lastUse' \in [Tokens -> Int]
                   /\ fresh' \in [Requests -> BOOLEAN]
                   /\ seen' \in [Requests -> SUBSET BOOLEAN]
                   /\ vouched' \in SUBSET Tokens
<1>3. ASSUME NEW r \in Requests, NEW t \in Tokens, AuthMiddleware(r, t) PROVE Rest
  <2>1. verdict' \in [Requests -> BOOLEAN]
    <3>1. (TokenFound(t) /\ tokens.map[t].authenticated) \in BOOLEAN
      OBVIOUS
    <3> QED  BY <1>1, <1>3, <3>1, Zenon DEF TypeOK, AuthMiddleware
  <2>2. fresh' \in [Requests -> BOOLEAN]
    <3>1. (now - lastUse[t] > TTL) \in BOOLEAN
      OBVIOUS
    <3> QED  BY <1>1, <1>3, <3>1, Zenon DEF TypeOK, AuthMiddleware
  <2>3. seen' \in [Requests -> SUBSET BOOLEAN]
    <3>1. {(t \in authentic)} \in SUBSET BOOLEAN
      OBVIOUS
    <3> QED  BY <1>1, <1>3, <3>1, Zenon DEF TypeOK, AuthMiddleware
  <2>4. lastUse' \in [Tokens -> Int]
    <3>1. now \in Int
      BY <1>1, CacheAssumption DEF TypeOK
    <3> QED  BY <1>1, <1>3, <3>1, Zenon DEF TypeOK, AuthMiddleware
  <2>5. pc' \in [Requests -> Serving \cup {"idle"}] /\ tok' \in [Requests -> Tokens \cup {NoToken}]
    BY <1>1, <1>3, Zenon DEF TypeOK, AuthMiddleware, Goto, Serving
  <2>6. UNCHANGED <<now, authentic, flips, client, vouched>>
    BY <1>3 DEF AuthMiddleware
  <2> QED  BY <1>1, <2>1, <2>2, <2>3, <2>4, <2>5, <2>6, Zenon DEF TypeOK
<1>4. ASSUME NEW r \in Requests, TokenReview(r) PROVE Rest
  <2>1. verdict' \in [Requests -> BOOLEAN]
    <3>1. (tok[r] \in authentic) \in BOOLEAN
      OBVIOUS
    <3> QED  BY <1>1, <1>4, <3>1, Zenon DEF TypeOK, TokenReview
  <2> QED  BY <1>1, <1>4, <2>1, Zenon DEF TypeOK, TokenReview, Goto, Serving
<1>5. ASSUME NEW r \in Requests, CacheVerdict(r) PROVE Rest
  <2>1. now \in Int
    BY <1>1, CacheAssumption DEF TypeOK
  <2> QED  BY <1>1, <1>5, <2>1, Zenon DEF TypeOK, CacheVerdict, Goto, Serving
<1>6. ASSUME NEW r \in Requests, Finish(r) PROVE Rest
  BY <1>1, <1>6, Zenon DEF TypeOK, Finish, Settled, Goto, Serving
<1>7. ASSUME NEW r \in Requests, GetUserK8sClient(r) PROVE Rest
  <2> DEFINE a == AccountOf[tok[r]]
  <2>1. /\ pc' \in [Requests -> Serving \cup {"idle"}]
        /\ now' \in 0..MaxTime /\ authentic' \in SUBSET Tokens /\ flips' \in 0..MaxFlips
        /\ tok' \in [Requests -> Tokens \cup {NoToken}] /\ verdict' \in [Requests -> BOOLEAN]
        /\ lastUse' \in [Tokens -> Int] /\ fresh' \in [Requests -> BOOLEAN]
        /\ seen' \in [Requests -> SUBSET BOOLEAN] /\ vouched' \in SUBSET Tokens
    BY <1>1, <1>7, Zenon DEF TypeOK, GetUserK8sClient, Goto, Settled, Serving
  <2>2. ClientFound(a) => clients.map[a].client \in Tokens
    BY <1>1, Zenon DEF ClientFound, ClientInv, TypeOK
  <2>3. \/ client' = [client EXCEPT ![r] = clients.map[a].client] /\ ClientFound(a)
        \/ client' = client
    BY <1>7, Zenon DEF GetUserK8sClient
  <2>4. client' \in [Requests -> Tokens \cup {NoToken}]
    BY <1>1, <2>2, <2>3, Zenon DEF TypeOK
  <2> QED  BY <2>1, <2>4
<1>8. ASSUME NEW r \in Requests, NewUserK8sClient(r) PROVE Rest
  BY <1>1, <1>8, Zenon DEF TypeOK, NewUserK8sClient, Goto, Serving, history
<1>9. ASSUME NEW t \in Tokens, Judge(t) PROVE Rest
  <2>1. seen' \in [Requests -> SUBSET BOOLEAN]
    <3>1. (t \notin authentic) \in BOOLEAN
      OBVIOUS
    <3> QED  BY <1>1, <1>9, <3>1, Zenon DEF TypeOK, Judge
  <2>2. flips' \in 0..MaxFlips
    BY <1>1, <1>9, CacheAssumption DEF TypeOK, Judge
  <2>3. authentic' \in SUBSET Tokens
    BY <1>1, <1>9, Zenon DEF TypeOK, Judge
  <2>4. UNCHANGED <<now, pc, tok, verdict, client, lastUse, fresh, vouched>>
    BY <1>9, Zenon DEF Judge
  <2> QED  BY <1>1, <2>1, <2>2, <2>3, <2>4, Zenon DEF TypeOK
<1>10. ASSUME Tick PROVE Rest
  <2>1. now' \in 0..MaxTime
    BY <1>1, <1>10, CacheAssumption DEF TypeOK, Tick
  <2> QED  BY <1>1, <1>10, <2>1, Zenon DEF TypeOK, Tick, history
<1>11. ASSUME UNCHANGED vars PROVE Rest
  BY <1>1, <1>11, Zenon DEF TypeOK, vars, cacheVars, history
<1> HIDE DEF Rest
<1>12. ASSUME NEW r \in Requests, Serve(r) PROVE Rest
  BY <1>3, <1>4, <1>5, <1>6, <1>7, <1>8, <1>12, Zenon
     DEF Serve, TokenReviewFails, Refuse, HandlerReturns
<1>13. Rest
  BY <1>9, <1>10, <1>11, <1>12, Zenon DEF Next
<1> QED  BY <1>2, <1>13 DEF TypeOK, Rest

\* Requests that are served have been admitted, on a verdict of some review.
LEMMA RequestStep == ASSUME IInv, [Next]_vars PROVE RequestInv'
<1> DEFINE Own(r) == /\ pc[r] # "idle" => tok[r] \in Tokens
                     /\ pc[r] \in {"build", "use"} => verdict[r] /\ AccountOf[tok[r]] # NoAccount
                     /\ verdict[r] => tok[r] \in vouched
                     /\ client[r] # NoToken => client[r] \in vouched
<1>1. TypeOK /\ VerdictInv /\ ClientInv /\ \A q \in Requests : Own(q)
  BY Zenon DEF IInv, RequestInv
<1> SUFFICES ASSUME NEW q \in Requests PROVE Own(q)'
  BY DEF RequestInv
<1>2. ASSUME pc'[q] = pc[q], tok'[q] = tok[q], verdict'[q] = verdict[q], client'[q] = client[q],
             vouched \subseteq vouched'
      PROVE  Own(q)'
  BY <1>1, <1>2
<1>3. ASSUME NEW r \in Requests, NEW t \in Tokens, AuthMiddleware(r, t) PROVE Own(q)'
  <2>1. CASE q = r
    <3>1. tok'[q] = t /\ client'[q] = client[q] /\ vouched' = vouched
      BY <1>1, <1>3, <2>1, Zenon DEF AuthMiddleware, TypeOK
    <3>2. verdict'[q] = (TokenFound(t) /\ tokens.map[t].authenticated)
      BY <1>1, <1>3, <2>1, Zenon DEF AuthMiddleware, TypeOK
    <3>3. verdict'[q] => t \in vouched
      BY <1>1, <3>2, Zenon DEF VerdictInv, TokenFound
    <3>4. pc'[q] \in {"decided", "review"}
      BY <1>1, <1>3, <2>1, Zenon DEF AuthMiddleware, Goto, TypeOK
    <3> QED  BY <1>1, <3>1, <3>3, <3>4
  <2>2. CASE q # r
    BY <1>1, <1>2, <1>3, <2>2, Zenon DEF AuthMiddleware, Goto, TypeOK
  <2> QED  BY <2>1, <2>2
<1>4. ASSUME NEW r \in Requests, TokenReview(r) PROVE Own(q)'
  <2>1. CASE q = r
    <3>1. /\ pc'[q] = "set" /\ tok'[q] = tok[q] /\ client'[q] = client[q] /\ tok[q] \in Tokens
          /\ vouched' = vouched \cup ({tok[q]} \cap authentic)
      BY <1>1, <1>4, <2>1, Zenon DEF TokenReview, Goto, TypeOK
    <3>2. verdict'[q] = (tok[q] \in authentic)
      BY <1>1, <1>4, <2>1, Zenon DEF TokenReview, TypeOK
    <3> QED  BY <1>1, <3>1, <3>2, Zenon
  <2>2. CASE q # r
    BY <1>1, <1>2, <1>4, <2>2, Zenon DEF TokenReview, Goto, TypeOK
  <2> QED  BY <2>1, <2>2, Zenon
<1>5. ASSUME NEW r \in Requests, CacheVerdict(r) PROVE Own(q)'
  BY <1>1, <1>5, Zenon DEF CacheVerdict, Goto, TypeOK
<1>6. ASSUME NEW r \in Requests, Finish(r) PROVE Own(q)'
  BY <1>1, <1>6, Zenon DEF Finish, Goto, TypeOK
<1>7. ASSUME NEW r \in Requests, GetUserK8sClient(r) PROVE Own(q)'
  <2> DEFINE a == AccountOf[tok[r]]
  <2>1. CASE q = r
    <3>1. /\ tok'[q] = tok[q] /\ verdict'[q] = verdict[q] /\ vouched' = vouched
          /\ tok[q] \in Tokens /\ verdict[q] /\ AccountOf[tok[q]] # NoAccount
      BY <1>1, <1>7, <2>1, Zenon DEF GetUserK8sClient, Admitted
    <3>2. \/ ClientFound(a) /\ client'[q] = clients.map[a].client
          \/ client'[q] = client[q]
      BY <1>1, <1>7, <2>1, Zenon DEF GetUserK8sClient, TypeOK
    <3>3. ClientFound(a) => clients.map[a].client \in vouched
      BY <1>1, Zenon DEF ClientFound, ClientInv
    <3> QED  BY <1>1, <3>1, <3>2, <3>3, Zenon
  <2>2. CASE q # r
    BY <1>1, <1>2, <1>7, <2>2, ZenonT(30) DEF GetUserK8sClient, Goto, TypeOK
  <2> QED  BY <2>1, <2>2, Zenon
<1>8. ASSUME NEW r \in Requests, NewUserK8sClient(r) PROVE Own(q)'
  BY <1>1, <1>8, Zenon DEF NewUserK8sClient, Goto, TypeOK, history
<1>9. ASSUME NEW t \in Tokens, Judge(t) PROVE Own(q)'
  BY <1>2, <1>9, Zenon DEF Judge
<1>10. ASSUME Tick PROVE Own(q)'
  BY <1>2, <1>10 DEF Tick, history
<1>11. ASSUME UNCHANGED vars PROVE Own(q)'
  BY <1>2, <1>11, Zenon DEF vars, history
<1>12. ASSUME NEW r \in Requests, Serve(r) PROVE Own(q)'
  BY <1>3, <1>4, <1>5, <1>6, <1>7, <1>8, <1>12, Zenon
     DEF Serve, TokenReviewFails, Refuse, HandlerReturns
<1> QED  BY <1>9, <1>10, <1>11, <1>12, Zenon DEF Next

\* A token that was unused for longer than the ttl is not found in the cache.
LEMMA NotFoundWhenFresh ==
    ASSUME TypeOK, VerdictInv, NEW t \in Tokens, now - lastUse[t] > TTL
    PROVE  ~TokenFound(t)
<1>1. now \in Int /\ lastUse[t] \in Int /\ TTL \in Int
  BY CacheAssumption DEF TypeOK, TTL
<1>2. t \in Cached(tokens) =>
         tokens.map[t].lastAccess \in Int /\ tokens.map[t].lastAccess <= lastUse[t]
  BY EntriesAndLimits DEF VerdictInv, TypeOK, Cached, tokenCacheEntry
<1> QED  BY <1>1, <1>2 DEF TokenFound

\* What a request has seen of its token goes with what the API server says.
LEMMA SeenStep == ASSUME IInv, [Next]_vars PROVE SeenInv'
<1> DEFINE Own(r) == /\ pc[r] \in {"review", "set", "decided"} => (tok[r] \in authentic) \in seen[r]
                     /\ pc[r] = "set" => verdict[r] \in seen[r]
                     /\ pc[r] = "decided" /\ fresh[r] => verdict[r] \in seen[r]
<1>1. TypeOK /\ VerdictInv /\ \A q \in Requests : Own(q)
  BY DEF IInv, SeenInv
<1> SUFFICES ASSUME NEW q \in Requests PROVE Own(q)'
  BY DEF SeenInv
<1>2. Own(q)
  BY <1>1
<1>3. ASSUME pc'[q] = pc[q], tok'[q] = tok[q], verdict'[q] = verdict[q], fresh'[q] = fresh[q],
             seen'[q] = seen[q], authentic' = authentic
      PROVE  Own(q)'
  BY <1>2, <1>3
<1>4. ASSUME pc'[q] \notin {"review", "set", "decided"} PROVE Own(q)'
  BY <1>4
<1>5. ASSUME NEW r \in Requests, NEW t \in Tokens, AuthMiddleware(r, t) PROVE Own(q)'
  <2>1. CASE q = r
    <3>1. /\ tok'[q] = t /\ authentic' = authentic
          /\ pc'[q] = IF TokenFound(t) THEN "decided" ELSE "review"
      BY <1>1, <1>5, <2>1, Zenon DEF AuthMiddleware, Goto, TypeOK
    <3>2. seen'[q] = {(t \in authentic)}
      BY <1>1, <1>5, <2>1, Zenon DEF AuthMiddleware, TypeOK
    <3>3. fresh'[q] = (now - lastUse[t] > TTL)
      BY <1>1, <1>5, <2>1, Zenon DEF AuthMiddleware, TypeOK
    <3>4. fresh'[q] => pc'[q] = "review"
      BY <1>1, <3>1, <3>3, NotFoundWhenFresh, Zenon
    <3>5. (t \in authentic) \in seen'[q]
      BY <3>2
    <3>6. (tok'[q] \in authentic') \in seen'[q]
      BY <3>1, <3>5, Zenon
    <3>7. pc'[q] # "set"
      BY <3>1
    <3> QED  BY <3>4, <3>6, <3>7, Zenon
  <2>2. CASE q # r
    BY <1>1, <1>3, <1>5, <2>2, Zenon DEF AuthMiddleware, Goto, TypeOK
  <2> QED  BY <2>1, <2>2
<1>6. ASSUME NEW r \in Requests, TokenReview(r) PROVE Own(q)'
  <2>1. CASE q = r
    <3>1. /\ pc[q] = "review" /\ pc'[q] = "set" /\ tok'[q] = tok[q] /\ seen'[q] = seen[q]
          /\ authentic' = authentic
      BY <1>1, <1>6, <2>1, Zenon DEF TokenReview, Goto, TypeOK
    <3>2. verdict'[q] = (tok[q] \in authentic)
      BY <1>1, <1>6, <2>1, Zenon DEF TokenReview, TypeOK
    <3>3. (tok[q] \in authentic) \in seen[q]
      BY <1>2, <3>1, Zenon
    <3>4. (tok'[q] \in authentic') \in seen'[q] /\ verdict'[q] \in seen'[q]
      BY <3>1, <3>2, <3>3, Zenon
    <3> QED  BY <3>4, Zenon
  <2>2. CASE q # r
    BY <1>1, <1>3, <1>6, <2>2, Zenon DEF TokenReview, Goto, TypeOK
  <2> QED  BY <2>1, <2>2, Zenon
<1>7. ASSUME NEW r \in Requests, CacheVerdict(r) PROVE Own(q)'
  <2>1. CASE q = r
    <3>1. /\ pc[q] = "set" /\ tok'[q] = tok[q] /\ seen'[q] = seen[q] /\ verdict'[q] = verdict[q]
          /\ authentic' = authentic
      BY <1>1, <1>7, <2>1, Zenon DEF CacheVerdict
    <3>2. (tok[q] \in authentic) \in seen[q] /\ verdict[q] \in seen[q]
      BY <1>2, <3>1, Zenon
    <3>3. (tok'[q] \in authentic') \in seen'[q] /\ verdict'[q] \in seen'[q]
      BY <3>1, <3>2, Zenon
    <3> QED  BY <3>3, Zenon
  <2>2. CASE q # r
    BY <1>1, <1>3, <1>7, <2>2, Zenon DEF CacheVerdict, Goto, TypeOK
  <2> QED  BY <2>1, <2>2, Zenon
<1>8. ASSUME NEW r \in Requests, Finish(r) PROVE Own(q)'
  BY <1>1, <1>3, <1>4, <1>8, Zenon DEF Finish, Settled, Goto, TypeOK
<1>9. ASSUME NEW r \in Requests, GetUserK8sClient(r) PROVE Own(q)'
  BY <1>1, <1>3, <1>4, <1>9, ZenonT(30) DEF GetUserK8sClient, Settled, Goto, TypeOK
<1>10. ASSUME NEW r \in Requests, NewUserK8sClient(r) PROVE Own(q)'
  BY <1>1, <1>3, <1>4, <1>10, Zenon DEF NewUserK8sClient, Goto, TypeOK, history
<1>11. ASSUME NEW t \in Tokens, Judge(t) PROVE Own(q)'
  <2>1. /\ pc'[q] = pc[q] /\ tok'[q] = tok[q] /\ verdict'[q] = verdict[q] /\ fresh'[q] = fresh[q]
        /\ authentic' = (authentic \cup {t}) \ (authentic \cap {t})
    BY <1>11 DEF Judge
  <2>2. seen'[q] = seen[q] \cup IF tok[q] = t /\ pc[q] \notin {"build", "use"}
                                THEN {t \notin authentic} ELSE {}
    BY <1>11 DEF Judge
  <2>3. CASE pc[q] \in {"review", "set", "decided"} /\ tok[q] = t
    <3>1. (t \notin authentic) \in seen'[q]
      BY <2>2, <2>3
    <3>2. (tok'[q] \in authentic') = (t \notin authentic)
      BY <2>1, <2>3
    <3>3. (tok'[q] \in authentic') \in seen'[q]
      BY <3>1, <3>2, Zenon
    <3>4. verdict[q] \in seen[q] => verdict[q] \in seen'[q]
      BY <2>2
    <3> QED  BY <1>2, <2>1, <3>3, <3>4, Zenon
  <2>4. CASE pc[q] \in {"review", "set", "decided"} /\ tok[q] # t
    <3>1. (tok'[q] \in authentic') = (tok[q] \in authentic)
      BY <2>1, <2>4
    <3>2. (tok[q] \in authentic) \in seen'[q]
      BY <1>2, <2>2, <2>4, Zenon
    <3>3. (tok'[q] \in authentic') \in seen'[q]
      BY <3>1, <3>2, Zenon
    <3>4. verdict[q] \in seen[q] => verdict[q] \in seen'[q]
      BY <2>2
    <3> QED  BY <1>2, <2>1, <3>3, <3>4, Zenon
  <2>5. CASE pc[q] \notin {"review", "set", "decided"}
    BY <1>4, <2>1, <2>5, Zenon
  <2> QED  BY <2>3, <2>4, <2>5, Zenon
<1>12. ASSUME Tick PROVE Own(q)'
  BY <1>3, <1>12, Zenon DEF Tick, history
<1>13. ASSUME UNCHANGED vars PROVE Own(q)'
  BY <1>3, <1>13, Zenon DEF vars, history
<1>14. ASSUME NEW r \in Requests, Serve(r) PROVE Own(q)'
  BY <1>5, <1>6, <1>7, <1>8, <1>9, <1>10, <1>14, Zenon
     DEF Serve, TokenReviewFails, Refuse, HandlerReturns
<1> QED  BY <1>11, <1>12, <1>13, <1>14, Zenon DEF Next

\* Every step keeps the invariant.
LEMMA NextIInv == IInv /\ [Next]_vars => IInv'
<1> SUFFICES ASSUME IInv, [Next]_vars PROVE IInv'
  OBVIOUS
<1>1. TokensOK' /\ ClientsOK' /\ VerdictInv' /\ ClientInv' /\ RecencyOrder'
  BY CachesStep
<1>2. InStep'
  BY <1>1 DEF InStep, TokensOK, ClientsOK, CacheOK
<1> QED  BY <1>1, <1>2, TypeStep, RequestStep, SeenStep DEF IInv

LEMMA Invariance == Spec => []IInv
  BY InitIInv, NextIInv, PTL DEF Spec

-----------------------------------------------------------------------------
(***************************************************************************)
(* The maps and the lists of the caches, the stages and the tokens of the  *)
(* requests are always of their types.                                     *)
(***************************************************************************)
THEOREM TypeCorrect == Spec => []TypeOK
<1>1. IInv => TypeOK
  BY DEF IInv
<1> QED  BY <1>1, Invariance, PTL

(***************************************************************************)
(* For caches of any size and any number of requests: map and list hold    *)
(* the same keys, each once and never more than the limit, and the list of *)
(* TokenCache is in the order of last use.                                 *)
(***************************************************************************)
THEOREM CachesInStep == Spec => []InStep
<1>1. IInv => InStep
  BY DEF IInv
<1> QED  BY <1>1, Invariance, PTL

(***************************************************************************)
(* A token that was unused for longer than the ttl is judged anew by       *)
(* validateServiceAccountToken, whatever the concurrent requests do to the *)
(* entry that the cache may still have for it.                             *)
(***************************************************************************)
THEOREM VerdictsFresh == Spec => []FreshVerdict
<1>1. IInv => FreshVerdict
  BY DEF IInv, SeenInv, FreshVerdict
<1> QED  BY <1>1, Invariance, PTL

(***************************************************************************)
(* Only tokens that some TokenReview authenticated act as clients, cached  *)
(* by ClientCache.Set or in the hands of a handler.                        *)
(***************************************************************************)
THEOREM ClientsAuthenticated == Spec => []OnlyAuthenticated
<1>1. IInv => OnlyAuthenticated
  BY Zenon DEF IInv, ClientInv, RequestInv, OnlyAuthenticated
<1> QED  BY <1>1, Invariance, PTL

(***************************************************************************)
(* The client that GetOrCreateUserK8sClient returns is one of the caller's *)
(* account; from the cache, only one whose token has not expired.          *)
(***************************************************************************)
THEOREM ClientsHandedOut == Spec => HandedOut
<1> DEFINE Given(r) == client[r] = NoToken /\ client'[r] # NoToken =>
                          /\ AccountOf[client'[r]] = AccountOf[tok[r]]
                          /\ \/ client'[r] = tok[r]
                             \/ ParseJWTExpiry(client'[r]) = ZeroTime
                             \/ now <= ParseJWTExpiry(client'[r])
<1>1. IInv /\ [Next]_vars => [\A r \in Requests : Given(r)]_vars
  <2> SUFFICES ASSUME IInv, Next, NEW q \in Requests PROVE Given(q)
    OBVIOUS
  <2>1. TypeOK /\ ClientInv
    BY DEF IInv
  <2>2. ASSUME client'[q] = client[q] \/ client'[q] = NoToken PROVE Given(q)
    BY <2>2
  <2>3. ASSUME NEW r \in Requests, Serve(r) PROVE Given(q)
    <3>1. CASE GetUserK8sClient(r)
      <4> DEFINE a == AccountOf[tok[r]]
      <4>1. \/ q = r /\ ClientFound(a) /\ client'[q] = clients.map[a].client
            \/ client'[q] = client[q]
        BY <2>1, <3>1, Zenon DEF GetUserK8sClient, TypeOK
      <4>2. ClientFound(a) =>
               LET c == clients.map[a].client
               IN  /\ AccountOf[c] = a
                   /\ ParseJWTExpiry(c) = ZeroTime \/ now <= ParseJWTExpiry(c)
        BY <2>1, Zenon DEF ClientFound, ClientInv
      <4> QED  BY <2>2, <4>1, <4>2, Zenon
    <3>2. CASE NewUserK8sClient(r)
      BY <2>1, <3>2, Zenon DEF NewUserK8sClient, TypeOK
    <3>3. CASE Finish(r)
      BY <2>1, <2>2, <3>3, Zenon DEF Finish, TypeOK
    <3>4. CASE UNCHANGED client
      BY <2>2, <3>4
    <3>5. \/ GetUserK8sClient(r) \/ NewUserK8sClient(r) \/ Finish(r) \/ UNCHANGED client
      BY <2>3, Zenon DEF Serve, AuthMiddleware, TokenReview, TokenReviewFails, CacheVerdict,
                         Refuse, HandlerReturns
    <3> QED  BY <3>1, <3>2, <3>3, <3>4, <3>5, Zenon
  <2>4. ASSUME NEW t \in Tokens, Judge(t) PROVE Given(q)
    BY <2>2, <2>4, Zenon DEF Judge
  <2>5. CASE Tick
    BY <2>2, <2>5, Zenon DEF Tick
  <2> QED  BY <2>3, <2>4, <2>5, Zenon DEF Next
<1> QED  BY <1>1, Invariance, PTL DEF Spec, HandedOut
=============================================================================
