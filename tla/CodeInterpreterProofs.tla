------------------------ MODULE CodeInterpreterProofs ------------------------
(***************************************************************************)
(* Proofs about CodeInterpreterController, for any number of routers, specs, *)
(* edits and restarts, and however far the informers lag.  In order: the   *)
(* versions of an object as sequences, the inductive invariant, a lemma for *)
(* each of its parts that every step keeps it, and the theorems.           *)
(***************************************************************************)
EXTENDS CodeInterpreterController, SequenceTheorems, TLAPS

\* The versions of an object from the cached one to the last.
Versions(q) == {q[i] : i \in 1..Len(q)}

\* What the writers do to an object, in terms of its versions.
LEMMA VersionsAppend ==
    ASSUME NEW S, NEW q \in Seq(S), q # <<>>, NEW x \in S
    PROVE  /\ Append(q, x) \in Seq(S) /\ Append(q, x) # <<>>
           /\ Versions(Append(q, x)) = Versions(q) \cup {x}
           /\ Cached(Append(q, x)) = Cached(q)
           /\ Actual(Append(q, x)) = x
           /\ Stale(Append(q, x))
  <1>1. Len(q) \in Nat /\ Len(q) > 0
    BY EmptySeq, LenProperties
  <1>2. /\ Append(q, x) \in Seq(S) /\ Len(Append(q, x)) = Len(q) + 1
        /\ \A i \in 1..Len(q) : Append(q, x)[i] = q[i]
        /\ Append(q, x)[Len(q) + 1] = x
    BY AppendProperties
  <1>3. Versions(Append(q, x)) = Versions(q) \cup {x}
    <2>1. 1..Len(Append(q, x)) = (1..Len(q)) \cup {Len(q) + 1}
      BY <1>1, <1>2
    <2> QED BY <2>1, <1>2 DEF Versions
  <1> QED BY <1>1, <1>2, <1>3 DEF Cached, Actual, Stale

\* What a delivery does to an object.
LEMMA VersionsTail ==
    ASSUME NEW S, NEW q \in Seq(S), Stale(q)
    PROVE  /\ Tail(q) \in Seq(S) /\ Tail(q) # <<>>
           /\ Versions(Tail(q)) \subseteq Versions(q)
           /\ Actual(Tail(q)) = Actual(q)
           /\ Len(Tail(q)) = Len(q) - 1
           /\ \A i \in 1..Len(Tail(q)) : Tail(q)[i] = q[i + 1]
  <1>1. Len(q) \in Nat /\ Len(q) > 1 /\ q # <<>>
    BY EmptySeq, LenProperties DEF Stale
  <1>2. /\ Tail(q) \in Seq(S) /\ Len(Tail(q)) = Len(q) - 1
        /\ \A i \in 1..Len(Tail(q)) : Tail(q)[i] = q[i + 1]
    BY <1>1, HeadTailProperties
  <1>3. \A i \in 1..Len(Tail(q)) : i + 1 \in 1..Len(q)
    BY <1>1, <1>2
  <1>4. Versions(Tail(q)) \subseteq Versions(q)
    BY <1>2, <1>3 DEF Versions
  <1>5. Tail(q) # <<>>
    <2>1. \A n \in Nat : n > 1 => n - 1 # 0
      OBVIOUS
    <2>2. Len(Tail(q)) # 0
      BY <2>1, <1>1, <1>2, Zenon
    <2> QED BY <2>2, <1>2, EmptySeq, Zenon
  <1>6. Actual(Tail(q)) = Actual(q)
    <2>1. Len(q) - 1 \in 1..Len(Tail(q))
      BY <1>1, <1>2
    <2>2. Tail(q)[Len(q) - 1] = q[(Len(q) - 1) + 1]
      BY <2>1, <1>2
    <2> QED BY <2>2, <1>1, <1>2 DEF Actual
  <1> QED BY <1>2, <1>4, <1>5, <1>6

\* An object has a cached and a last version, and a restart keeps the last.
LEMMA VersionsEnds ==
    ASSUME NEW S, NEW q \in Seq(S), q # <<>>
    PROVE  /\ Cached(q) \in Versions(q) /\ Cached(q) \in S
           /\ Actual(q) \in Versions(q) /\ Actual(q) \in S
           /\ \A v \in Versions(q) : v \in S
           /\ <<Actual(q)>> \in Seq(S) /\ <<Actual(q)>> # <<>>
           /\ Versions(<<Actual(q)>>) = {Actual(q)}
           /\ Actual(<<Actual(q)>>) = Actual(q)
           /\ ~Stale(q) => Cached(q) = Actual(q)
  <1>1. Len(q) \in Nat /\ Len(q) > 0 /\ \A i \in 1..Len(q) : q[i] \in S
    BY EmptySeq, LenProperties, ElementOfSeq
  <1>2. Cached(q) \in S /\ Actual(q) \in S /\ Cached(q) \in Versions(q) /\ Actual(q) \in Versions(q)
    BY <1>1 DEF Cached, Actual, Versions
  <1>3. \A v \in Versions(q) : v \in S
    BY <1>1 DEF Versions
  <1>4. \A x \in S : <<x>> \in Seq(S) /\ Len(<<x>>) = 1 /\ <<x>>[1] = x /\ <<x>> # <<>>
    OBVIOUS
  <1>5. Versions(<<Actual(q)>>) = {Actual(q)}
    BY <1>2, <1>4 DEF Versions
  <1>6. Actual(<<Actual(q)>>) = Actual(q)
    BY <1>2, <1>4 DEF Actual
  <1>7. ~Stale(q) => Cached(q) = Actual(q)
    BY <1>1 DEF Stale, Cached, Actual
  <1> QED BY <1>2, <1>3, <1>4, <1>5, <1>6, <1>7

-----------------------------------------------------------------------------
\* What the create or update of a template appends, if anything.
LEMMA TemplateWriteAppends ==
    ASSUME TypeOK, NEW d \in SandboxTemplate, Exists(d)
    PROVE  \/ TemplateWrite(d) = tmpl
           \/ \E x \in SandboxTemplate : /\ TemplateWrite(d) = Append(tmpl, x)
                                         /\ x.pod = d.pod /\ x.key = d.key
                                         /\ Exists(x)
  <1>1. Cached(tmpl) \in SandboxTemplate
    BY VersionsEnds, Zenon DEF TypeOK
  <1>2. CASE ~Exists(Cached(tmpl)) /\ ~Exists(Actual(tmpl))
    BY <1>2 DEF TemplateWrite
  <1>3. CASE Exists(Cached(tmpl)) /\ ~Stale(tmpl)
    <2> DEFINE x == [d EXCEPT !.owner = Cached(tmpl).owner]
    <2>1. x \in SandboxTemplate /\ x.pod = d.pod /\ x.key = d.key /\ Exists(x)
      BY <1>1, <1>3 DEF SandboxTemplate, Exists
    <2>2. TemplateWrite(d) = Append(tmpl, x)
      BY <1>3 DEF TemplateWrite
    <2> QED BY <2>1, <2>2, Zenon
  <1>4. CASE /\ ~(~Exists(Cached(tmpl)) /\ ~Exists(Actual(tmpl)))
             /\ ~(Exists(Cached(tmpl)) /\ ~Stale(tmpl))
    BY <1>4 DEF TemplateWrite
  <1> QED BY <1>2, <1>3, <1>4

\* The same for the warm pool.
LEMMA PoolWriteAppends ==
    ASSUME TypeOK, NEW d \in SandboxWarmPool, Exists(d)
    PROVE  \/ PoolWrite(d) = pool
           \/ \E x \in SandboxWarmPool : /\ PoolWrite(d) = Append(pool, x)
                                         /\ x.size = d.size
                                         /\ x.owner \in {d.owner, Cached(pool).owner}
                                         /\ Exists(x)
  <1>1. Cached(pool) \in SandboxWarmPool
    BY VersionsEnds, Zenon DEF TypeOK
  <1>2. CASE ~Exists(Cached(pool)) /\ ~Exists(Actual(pool))
    BY <1>2 DEF PoolWrite
  <1>3. CASE Exists(Cached(pool)) /\ ~Stale(pool)
    <2> DEFINE x == [d EXCEPT !.owner = Cached(pool).owner]
    <2>1. x \in SandboxWarmPool /\ x.size = d.size /\ x.owner = Cached(pool).owner /\ Exists(x)
      BY <1>1, <1>3 DEF SandboxWarmPool, Exists
    <2>2. PoolWrite(d) = Append(pool, x)
      BY <1>3 DEF PoolWrite
    <2> QED BY <2>1, <2>2, Zenon
  <1>4. CASE /\ ~(~Exists(Cached(pool)) /\ ~Exists(Actual(pool)))
             /\ ~(Exists(Cached(pool)) /\ ~Stale(pool))
    BY <1>4 DEF PoolWrite
  <1> QED BY <1>2, <1>3, <1>4

(***************************************************************************)
(* The inductive invariant.                                                *)
(***************************************************************************)
\* A router that serves, and the workload manager, hold the Secret's key or one
\* of a deleted Secret; the cached key and the template's are believed.
KeyInv ==
    /\ \A r \in Routers :
          rpc[r] = "serving" => r \in outdated \/ (rkey[r] = secret /\ secret # NoKey)
    /\ cachedKey # NoKey => Manager \in outdated \/ cachedKey = secret
    /\ cachedKey \in Believed \cup {NoKey}
    /\ Actual(tmpl).key \in Believed \cup {NoKey}

\* The informer delivers CodeInterpreters in the order of their uids.
Ordered(q) ==
    \A i, j \in 1..Len(q) :
        i < j /\ q[i].uid # 0 /\ q[j].uid # 0 => q[i].uid <= q[j].uid

\* The reconciler does not hold a CodeInterpreter newer than the cached ones.
OrderInv ==
    /\ Ordered(ci)
    /\ \A v \in Versions(ci) : v.uid <= edits /\ (v.uid = 0 => v = NoCI)
    /\ wpc # "idle" =>
          /\ held.uid # 0
          /\ held.uid <= edits
          /\ \A v \in Versions(ci) : v.uid # 0 => held.uid <= v.uid

\* No pool was made for a CodeInterpreter newer than the one that is held, or
\* than those that can still be read.
OwnerInv ==
    \A p \in Versions(pool) :
        /\ p.owner <= edits
        /\ \A v \in Versions(ci) : v.uid # 0 => p.owner <= v.uid
        /\ wpc # "idle" => p.owner <= held.uid

\* The two halves of InPlace: a template and a pool as a spec asks for them,
\* with a key that is believed.
TemplateFits(t, believed, spec) ==
    IF spec.size > 0
    THEN /\ Exists(t) /\ t.pod = spec.pod
         /\ t.key \in IF spec.auth = "picod" THEN believed ELSE {NoKey}
    ELSE ~Exists(t)

PoolFits(p, spec) ==
    IF spec.size > 0 THEN Exists(p) /\ p.size = spec.size ELSE ~Exists(p)

TemplateSettled(spec) == TemplateFits(Actual(tmpl), Believed, spec) \/ "template" \in missed
PoolSettled(spec) == PoolFits(Actual(pool), spec) \/ "pool" \in missed

\* The versions of one CodeInterpreter: the generation counts its specs.
Later(a, b) == b.uid = a.uid /\ a.gen <= b.gen /\ (a.gen = b.gen => a.spec = b.spec)

\* Behind a version of the present CodeInterpreter there are later ones only.
Line(q) ==
    Actual(q).uid # 0 =>
        \A i, j \in 1..Len(q) : i <= j /\ q[i].uid = Actual(q).uid => Later(q[i], q[j])

\* What is held of the present CodeInterpreter is not later than what is cached,
\* and the Ready condition is never ahead of the generation.
LineInv ==
    /\ Line(ci)
    /\ Actual(ci).observed <= Actual(ci).gen
    /\ wpc # "idle" /\ held.uid = Actual(ci).uid => \A v \in Versions(ci) : Later(held, v)

\* The reconciler is at a call that the spec it holds asks for, and the calls
\* that it has made have had their effect.
StageInv ==
    /\ wpc \in {"template", "pool"} => held.spec.size > 0
    /\ wpc \in {"delpool", "deltemplate"} => ~(held.spec.size > 0)
    /\ held.uid = Actual(ci).uid =>
          /\ wpc \in {"pool", "status"} => TemplateSettled(held.spec)
          /\ wpc \in {"deltemplate", "status"} => PoolSettled(held.spec)

\* Once the Ready condition is set, no other spec is left that the reconciler
\* could still act on, in the cache or in its hands.
SameVersion(a, b) == a.uid = b.uid /\ a.gen = b.gen /\ a.spec = b.spec

ReadyInv ==
    Actual(ci).uid # 0 /\ Actual(ci).observed = Actual(ci).gen =>
        /\ \A v \in Versions(ci) : SameVersion(v, Actual(ci))
        /\ wpc # "idle" => SameVersion(held, Actual(ci))
        /\ TemplateSettled(Actual(ci).spec)
        /\ PoolSettled(Actual(ci).spec)

IInv ==
    /\ TypeOK /\ KeyInv /\ OrderInv /\ OwnerInv
    /\ LineInv /\ StageInv /\ ReadyInv /\ PoolHasTemplate

-----------------------------------------------------------------------------
\* The controller starts with no object, nothing written and nothing held.
LEMMA InvariantInitially == Init => IInv
  <1> SUFFICES ASSUME Init PROVE IInv
    OBVIOUS
  <1>1. /\ NoCI \in CodeInterpreter /\ NoTemplate \in SandboxTemplate /\ NoPool \in SandboxWarmPool
    BY DEF NoCI, NoTemplate, NoPool, CodeInterpreter, SandboxTemplate, SandboxWarmPool
  <1>2. \A x : /\ Len(<<x>>) = 1 /\ <<x>>[1] = x /\ <<x>> # <<>>
    OBVIOUS
  <1>3. \A x : Versions(<<x>>) = {x} /\ Actual(<<x>>) = x /\ Cached(<<x>>) = x
    BY <1>2 DEF Versions, Actual, Cached
  <1>4. TypeOK
    <2>1. KeyTypeOK
      BY KeyAssumption DEF Init, KeyInit, KeyTypeOK
    <2>2. /\ ci \in Seq(CodeInterpreter) /\ ci # <<>>
          /\ tmpl \in Seq(SandboxTemplate) /\ tmpl # <<>>
          /\ pool \in Seq(SandboxWarmPool) /\ pool # <<>>
      BY <1>1 DEF Init
    <2>3. 0 \in 0..MaxEdits /\ 0 \in 0..MaxRestarts
      BY SpecAssumption
    <2> QED BY <1>1, <2>1, <2>2, <2>3, Zenon DEF Init, TypeOK
  <1>5. KeyInv
    BY <1>3 DEF Init, KeyInit, KeyInv, NoTemplate, NoKey
  <1>6. OrderInv
    <2>1. Ordered(ci)
      BY <1>2 DEF Init, Ordered
    <2> QED BY <1>3, <2>1 DEF Init, OrderInv, NoCI
  <1>7. OwnerInv /\ PoolHasTemplate
    BY <1>3 DEF Init, OwnerInv, PoolHasTemplate, NoPool, NoCI, Exists
  <1>8. Actual(ci) = NoCI /\ wpc = "idle" /\ NoCI.uid = 0 /\ NoCI.observed = 0 /\ NoCI.gen = 0
    BY <1>3 DEF Init, NoCI
  <1>9. LineInv /\ StageInv /\ ReadyInv
    BY <1>8 DEF LineInv, Line, StageInv, ReadyInv
  <1> QED BY <1>4, <1>5, <1>6, <1>7, <1>9 DEF IInv

-----------------------------------------------------------------------------
\* The order of uids, under what writers and informers do.
LEMMA OrderedAppend ==
    ASSUME NEW q \in Seq(CodeInterpreter), q # <<>>, Ordered(q), NEW x \in CodeInterpreter,
           x.uid # 0 => \A v \in Versions(q) : v.uid # 0 => v.uid <= x.uid
    PROVE  Ordered(Append(q, x))
  <1>1. Len(q) \in Nat
    BY LenProperties
  <1>2. /\ Len(Append(q, x)) = Len(q) + 1
        /\ \A i \in 1..Len(q) : Append(q, x)[i] = q[i]
        /\ Append(q, x)[Len(q) + 1] = x
    BY AppendProperties
  <1> SUFFICES ASSUME NEW i \in 1..Len(Append(q, x)), NEW j \in 1..Len(Append(q, x)), i < j,
                      Append(q, x)[i].uid # 0, Append(q, x)[j].uid # 0
               PROVE  Append(q, x)[i].uid <= Append(q, x)[j].uid
    BY DEF Ordered
  <1>3. i \in 1..Len(q) /\ Append(q, x)[i] = q[i] /\ q[i] \in Versions(q)
    BY <1>1, <1>2 DEF Versions
  <1>4. CASE j \in 1..Len(q)
    BY <1>2, <1>3, <1>4 DEF Ordered
  <1>5. CASE j = Len(q) + 1
    BY <1>2, <1>3, <1>5
  <1> QED BY <1>1, <1>2, <1>4, <1>5

LEMMA OrderedTail ==
    ASSUME NEW q \in Seq(CodeInterpreter), Stale(q), Ordered(q)
    PROVE  Ordered(Tail(q))
  <1>1. /\ Len(q) \in Nat /\ Len(Tail(q)) = Len(q) - 1
        /\ \A i \in 1..Len(Tail(q)) : Tail(q)[i] = q[i + 1]
    BY LenProperties, VersionsTail
  <1>2. \A i \in 1..Len(Tail(q)) : i + 1 \in 1..Len(q)
    BY <1>1
  <1>3. \A i, j \in 1..Len(Tail(q)) : i < j => i + 1 < j + 1
    BY <1>1
  <1> QED BY <1>1, <1>2, <1>3 DEF Ordered

LEMMA OrderedEnds ==
    ASSUME NEW q \in Seq(CodeInterpreter), q # <<>>, Ordered(q)
    PROVE  /\ Cached(q).uid # 0 => \A v \in Versions(q) : v.uid # 0 => Cached(q).uid <= v.uid
           /\ Actual(q).uid # 0 => \A v \in Versions(q) : v.uid # 0 => v.uid <= Actual(q).uid
           /\ Ordered(<<Actual(q)>>)
  <1>1. Len(q) \in Nat /\ Len(q) > 0 /\ \A i \in 1..Len(q) : q[i].uid \in Nat
    <2>1. Len(q) \in Nat /\ Len(q) > 0
      BY EmptySeq, LenProperties
    <2>2. \A i \in 1..Len(q) : q[i] \in CodeInterpreter
      BY ElementOfSeq
    <2> QED BY <2>1, <2>2 DEF CodeInterpreter
  <1>2. ASSUME Cached(q).uid # 0, NEW v \in Versions(q), v.uid # 0
        PROVE  Cached(q).uid <= v.uid
    <2>1. PICK j \in 1..Len(q) : v = q[j]
      BY DEF Versions
    <2>2. 1 \in 1..Len(q) /\ (j = 1 \/ 1 < j)
      BY <1>1
    <2> QED BY <1>1, <1>2, <2>1, <2>2 DEF Cached, Ordered
  <1>3. ASSUME Actual(q).uid # 0, NEW v \in Versions(q), v.uid # 0
        PROVE  v.uid <= Actual(q).uid
    <2>1. PICK i \in 1..Len(q) : v = q[i]
      BY DEF Versions
    <2>2. Len(q) \in 1..Len(q) /\ (i = Len(q) \/ i < Len(q))
      BY <1>1
    <2> QED BY <1>1, <1>3, <2>1, <2>2 DEF Actual, Ordered
  <1>4. Ordered(<<Actual(q)>>)
    <2>1. Len(<<Actual(q)>>) = 1
      OBVIOUS
    <2>2. \A i, j \in 1..1 : ~(i < j)
      OBVIOUS
    <2> QED BY <2>1, <2>2 DEF Ordered
  <1> QED BY <1>2, <1>3, <1>4

-----------------------------------------------------------------------------
\* The line of versions, under what writers and informers do.
LEMMA LaterTransitive ==
    ASSUME NEW a \in CodeInterpreter, NEW b \in CodeInterpreter, NEW c \in CodeInterpreter,
           Later(a, b), Later(b, c)
    PROVE  Later(a, c)
  BY DEF Later, CodeInterpreter

LEMMA LineAppend ==
    ASSUME NEW q \in Seq(CodeInterpreter), q # <<>>, Line(q), NEW x \in CodeInterpreter,
           \/ x.uid = 0
           \/ \A v \in Versions(q) : v.uid # x.uid
           \/ Later(Actual(q), x)
    PROVE  Line(Append(q, x))
  <1>1. Len(q) \in Nat /\ Len(q) > 0 /\ \A i \in 1..Len(q) : q[i] \in CodeInterpreter
    BY EmptySeq, LenProperties, ElementOfSeq
  <1>2. /\ Len(Append(q, x)) = Len(q) + 1
        /\ \A i \in 1..Len(q) : Append(q, x)[i] = q[i]
        /\ Append(q, x)[Len(q) + 1] = x
        /\ Actual(Append(q, x)) = x
    BY AppendProperties, VersionsAppend
  <1> SUFFICES ASSUME x.uid # 0, NEW i \in 1..Len(Append(q, x)), NEW j \in 1..Len(Append(q, x)),
                      i <= j, Append(q, x)[i].uid = x.uid
               PROVE  Later(Append(q, x)[i], Append(q, x)[j])
    BY <1>2 DEF Line
  <1>3. CASE i = Len(q) + 1
    <2>1. j = i
      BY <1>1, <1>2, <1>3
    <2>2. Later(x, x)
      BY DEF Later, CodeInterpreter
    <2> QED BY <1>2, <1>3, <2>1, <2>2
  <1>4. CASE i \in 1..Len(q)
    <2>1. Append(q, x)[i] = q[i] /\ q[i] \in Versions(q)
      BY <1>2, <1>4 DEF Versions
    <2>2. Later(Actual(q), x) /\ Actual(q).uid = x.uid
      BY <2>1 DEF Later
    <2>3. \A k \in 1..Len(q) : i <= k => Later(q[i], q[k])
      BY <1>4, <2>1, <2>2 DEF Line
    <2>4. CASE j \in 1..Len(q)
      BY <1>2, <2>1, <2>3, <2>4
    <2>5. CASE j = Len(q) + 1
      <3>1. Len(q) \in 1..Len(q) /\ i <= Len(q)
        BY <1>1, <1>4
      <3>2. Later(q[i], Actual(q)) /\ q[i] \in CodeInterpreter /\ Actual(q) \in CodeInterpreter
        BY <1>1, <1>4, <2>3, <3>1 DEF Actual
      <3> QED BY <1>2, <2>1, <2>2, <2>5, <3>2, LaterTransitive
    <2> QED BY <1>1, <1>2, <2>4, <2>5
  <1> QED BY <1>1, <1>2, <1>3, <1>4

LEMMA LineTail ==
    ASSUME NEW q \in Seq(CodeInterpreter), Stale(q), Line(q)
    PROVE  Line(Tail(q))
  <1>1. /\ Len(q) \in Nat /\ Len(Tail(q)) = Len(q) - 1 /\ Actual(Tail(q)) = Actual(q)
        /\ \A i \in 1..Len(Tail(q)) : Tail(q)[i] = q[i + 1]
    BY LenProperties, VersionsTail
  <1>2. \A i \in 1..Len(Tail(q)) : i + 1 \in 1..Len(q)
    BY <1>1
  <1>3. \A i, j \in 1..Len(Tail(q)) : i <= j => i + 1 <= j + 1
    BY <1>1
  <1> QED BY <1>1, <1>2, <1>3 DEF Line

LEMMA LineEnds ==
    ASSUME NEW q \in Seq(CodeInterpreter), q # <<>>, Line(q)
    PROVE  /\ Line(<<Actual(q)>>)
           /\ Actual(q).uid # 0 =>
                 /\ Cached(q).uid = Actual(q).uid => \A v \in Versions(q) : Later(Cached(q), v)
                 /\ \A v \in Versions(q) : v.uid = Actual(q).uid => Later(v, Actual(q))
  <1>1. Len(q) \in Nat /\ Len(q) > 0
    BY EmptySeq, LenProperties
  <1>2. /\ 1 \in 1..Len(q) /\ Len(q) \in 1..Len(q)
        /\ \A i \in 1..Len(q) : 1 <= i /\ i <= Len(q)
    BY <1>1
  <1>3. /\ Len(<<Actual(q)>>) = 1 /\ <<Actual(q)>>[1] = Actual(q)
        /\ Actual(<<Actual(q)>>) = Actual(q) /\ Actual(q) \in CodeInterpreter
    BY VersionsEnds
  <1>4. Later(Actual(q), Actual(q)) /\ \A i \in 1..1 : i = 1
    BY <1>3 DEF Later, CodeInterpreter
  <1>5. Line(<<Actual(q)>>)
    BY <1>3, <1>4 DEF Line
  <1>6. ASSUME Actual(q).uid # 0, NEW v \in Versions(q)
        PROVE  /\ Cached(q).uid = Actual(q).uid => Later(Cached(q), v)
               /\ v.uid = Actual(q).uid => Later(v, Actual(q))
    <2>1. PICK k \in 1..Len(q) : v = q[k]
      BY DEF Versions
    <2> QED BY <1>2, <1>6, <2>1 DEF Line, Cached, Actual
  <1> QED BY <1>5, <1>6

-----------------------------------------------------------------------------
\* The versions that are read, and the absent objects, are typed.
LEMMA EndsTyped ==
    ASSUME TypeOK
    PROVE  /\ Cached(ci) \in CodeInterpreter /\ Actual(ci) \in CodeInterpreter
           /\ Cached(tmpl) \in SandboxTemplate /\ Actual(tmpl) \in SandboxTemplate
           /\ Cached(pool) \in SandboxWarmPool /\ Actual(pool) \in SandboxWarmPool
           /\ NoCI \in CodeInterpreter
           /\ NoTemplate \in SandboxTemplate
           /\ NoPool \in SandboxWarmPool
  <1>1. /\ Cached(ci) \in CodeInterpreter /\ Actual(ci) \in CodeInterpreter
        /\ Cached(tmpl) \in SandboxTemplate /\ Actual(tmpl) \in SandboxTemplate
        /\ Cached(pool) \in SandboxWarmPool /\ Actual(pool) \in SandboxWarmPool
    BY VersionsEnds, Zenon DEF TypeOK
  <1>2. /\ NoCI \in CodeInterpreter
        /\ NoTemplate \in SandboxTemplate
        /\ NoPool \in SandboxWarmPool
    BY DEF NoCI, NoTemplate, NoPool, CodeInterpreter, SandboxTemplate, SandboxWarmPool
  <1> QED BY <1>1, <1>2

\* What the reconciler asks for is typed.
LEMMA DesiredTyped ==
    ASSUME TypeOK
    PROVE  /\ ConvertToPodTemplate(held) \in SandboxTemplate
           /\ [owner |-> held.uid, size |-> held.spec.size] \in SandboxWarmPool
           /\ [held EXCEPT !.observed = held.gen] \in CodeInterpreter
  <1>1. held.spec \in [size : Nat, pod : Nat, auth : {"picod", "none"}]
    BY SpecAssumption DEF TypeOK, CodeInterpreter, NoSpec
  <1> QED
    BY <1>1, Zenon DEF TypeOK, KeyTypeOK, ConvertToPodTemplate, CodeInterpreter, SandboxTemplate,
                SandboxWarmPool, NoKey

\* Types of the versions after each kind of write.
LEMMA WritesTyped ==
    ASSUME TypeOK
    PROVE  /\ \A x \in CodeInterpreter : Append(ci, x) \in Seq(CodeInterpreter) /\ Append(ci, x) # <<>>
           /\ \A x \in SandboxTemplate : Append(tmpl, x) \in Seq(SandboxTemplate) /\ Append(tmpl, x) # <<>>
           /\ \A x \in SandboxWarmPool : Append(pool, x) \in Seq(SandboxWarmPool) /\ Append(pool, x) # <<>>
           /\ \A d \in SandboxTemplate : TemplateWrite(d) \in Seq(SandboxTemplate) /\ TemplateWrite(d) # <<>>
           /\ \A d \in SandboxWarmPool : PoolWrite(d) \in Seq(SandboxWarmPool) /\ PoolWrite(d) # <<>>
           /\ TemplateDeleted \in Seq(SandboxTemplate) /\ TemplateDeleted # <<>>
           /\ PoolDeleted \in Seq(SandboxWarmPool) /\ PoolDeleted # <<>>
  <1>1. \A x \in CodeInterpreter : Append(ci, x) \in Seq(CodeInterpreter) /\ Append(ci, x) # <<>>
    BY VersionsAppend DEF TypeOK
  <1>2. \A x \in SandboxTemplate : Append(tmpl, x) \in Seq(SandboxTemplate) /\ Append(tmpl, x) # <<>>
    BY VersionsAppend DEF TypeOK
  <1>3. \A x \in SandboxWarmPool : Append(pool, x) \in Seq(SandboxWarmPool) /\ Append(pool, x) # <<>>
    BY VersionsAppend DEF TypeOK
  <1>4. ASSUME NEW d \in SandboxTemplate
        PROVE  TemplateWrite(d) \in Seq(SandboxTemplate) /\ TemplateWrite(d) # <<>>
    <2>1. [d EXCEPT !.owner = Cached(tmpl).owner] \in SandboxTemplate
      BY EndsTyped DEF SandboxTemplate
    <2>2. \/ TemplateWrite(d) = tmpl
          \/ TemplateWrite(d) = Append(tmpl, d)
          \/ TemplateWrite(d) = Append(tmpl, [d EXCEPT !.owner = Cached(tmpl).owner])
      BY DEF TemplateWrite
    <2> QED BY <2>1, <2>2, <1>2, Zenon DEF TypeOK
  <1>5. ASSUME NEW d \in SandboxWarmPool
        PROVE  PoolWrite(d) \in Seq(SandboxWarmPool) /\ PoolWrite(d) # <<>>
    <2>1. [d EXCEPT !.owner = Cached(pool).owner] \in SandboxWarmPool
      BY EndsTyped DEF SandboxWarmPool
    <2>2. \/ PoolWrite(d) = pool
          \/ PoolWrite(d) = Append(pool, d)
          \/ PoolWrite(d) = Append(pool, [d EXCEPT !.owner = Cached(pool).owner])
      BY DEF PoolWrite
    <2> QED BY <2>1, <2>2, <1>3, Zenon DEF TypeOK
  <1>6. TemplateDeleted \in Seq(SandboxTemplate) /\ TemplateDeleted # <<>>
    BY <1>2, EndsTyped DEF TypeOK, TemplateDeleted
  <1>7. PoolDeleted \in Seq(SandboxWarmPool) /\ PoolDeleted # <<>>
    BY <1>3, EndsTyped DEF TypeOK, PoolDeleted
  <1> QED BY <1>1, <1>2, <1>3, <1>4, <1>5, <1>6, <1>7, Zenon

LEMMA TypeStep == TypeOK /\ [Next]_vars => TypeOK'
  <1> SUFFICES ASSUME TypeOK, [Next]_vars PROVE TypeOK'
    OBVIOUS
  <1>1. CASE KeyNext /\ UNCHANGED ctrlVars
    <2>1. KeyTypeOK'
      <3>1. drawn < MaxKeys => drawn + 1 \in Keys
        BY KeyAssumption DEF TypeOK, KeyTypeOK, Keys
      <3>2. drawn < MaxKeys => drawn + 1 \in 0..MaxKeys
        BY KeyAssumption DEF TypeOK, KeyTypeOK
      <3>3. ASSUME NEW r \in Routers, StoreSecret(r) PROVE KeyTypeOK'
        BY <3>1, <3>2, <3>3 DEF TypeOK, KeyTypeOK, StoreSecret, CreateSecret
      <3>4. ASSUME NEW r \in Routers, StoreSecretFails(r) PROVE KeyTypeOK'
        BY <3>1, <3>2, <3>4 DEF TypeOK, KeyTypeOK, StoreSecretFails, CreateSecret
      <3>5. ASSUME NEW r \in Routers, SecretExists(r) \/ LoadSecret(r) PROVE KeyTypeOK'
        BY <3>5 DEF TypeOK, KeyTypeOK, SecretExists, LoadSecret
      <3>6. ASSUME NEW r \in Routers, RouterStops(r) PROVE KeyTypeOK'
        BY <3>6 DEF TypeOK, KeyTypeOK, RouterStops
      <3>7. CASE LoadPublicKeyFromSecret \/ SecretDeleted
        BY <3>7 DEF TypeOK, KeyTypeOK, LoadPublicKeyFromSecret, SecretDeleted
      <3> QED BY <1>1, <3>3, <3>4, <3>5, <3>6, <3>7 DEF KeyNext, RouterStep
    <2> QED BY <1>1, <2>1 DEF TypeOK, ctrlVars
  <1>2. CASE User
    <2>1. PICK new : Edit(new) /\ new \in CodeInterpreter
      <3>1. \A spec \in Specs : UserCreates(spec) => \E new \in CodeInterpreter : Edit(new)
        <4>1. \A spec \in Specs :
                 [uid |-> edits + 1, gen |-> 1, spec |-> spec, observed |-> 0] \in CodeInterpreter
          BY DEF CodeInterpreter, TypeOK
        <4> QED BY <4>1 DEF UserCreates
      <3>2. \A spec \in Specs : UserUpdates(spec) => \E new \in CodeInterpreter : Edit(new)
        <4>1. \A c \in CodeInterpreter, spec \in Specs :
                 [uid |-> c.uid, gen |-> c.gen + 1, spec |-> spec, observed |-> c.observed]
                     \in CodeInterpreter
          BY DEF CodeInterpreter
        <4> QED BY <4>1, EndsTyped DEF UserUpdates
      <3>3. UserDeletes => \E new \in CodeInterpreter : Edit(new)
        BY EndsTyped DEF UserDeletes
      <3> QED BY <1>2, <3>1, <3>2, <3>3 DEF User
    <2>2. edits' \in 0..MaxEdits
      BY <2>1, SpecAssumption DEF Edit, TypeOK
    <2>3. ci' \in Seq(CodeInterpreter) /\ ci' # <<>>
      BY <2>1, WritesTyped, Zenon DEF Edit
    <2> QED BY <2>1, <2>2, <2>3 DEF Edit, TypeOK, KeyTypeOK, keyVars
  <1>3. CASE Cluster
    <2>1. CASE CollectTemplate
      BY <2>1, WritesTyped, EndsTyped, Zenon DEF CollectTemplate, TypeOK, KeyTypeOK, keyVars
    <2>2. CASE CollectPool
      BY <2>2, WritesTyped, EndsTyped, Zenon DEF CollectPool, TypeOK, KeyTypeOK, keyVars
    <2>3. CASE DeliverCI
      <3>1. ci' \in Seq(CodeInterpreter) /\ ci' # <<>>
        BY <2>3, VersionsTail DEF DeliverCI, TypeOK
      <3>2. queued' \in BOOLEAN
        BY <2>3 DEF DeliverCI
      <3> QED BY <2>3, <3>1, <3>2 DEF DeliverCI, TypeOK, KeyTypeOK, keyVars
    <2>4. CASE DeliverTemplate
      <3>1. tmpl' \in Seq(SandboxTemplate) /\ tmpl' # <<>>
        BY <2>4, VersionsTail DEF DeliverTemplate, TypeOK
      <3> QED BY <2>4, <3>1 DEF DeliverTemplate, TypeOK, KeyTypeOK, keyVars
    <2>5. CASE DeliverPool
      <3>1. pool' \in Seq(SandboxWarmPool) /\ pool' # <<>>
        BY <2>5, VersionsTail DEF DeliverPool, TypeOK
      <3> QED BY <2>5, <3>1 DEF DeliverPool, TypeOK, KeyTypeOK, keyVars
    <2> QED BY <1>3, <2>1, <2>2, <2>3, <2>4, <2>5 DEF Cluster
  <1>4. CASE Succeeds
    <2>1. CASE Reconcile
      BY <2>1, EndsTyped, Zenon DEF Reconcile, TypeOK, KeyTypeOK, keyVars
    <2>2. CASE WaitForPublicKey
      BY <2>2, EndsTyped DEF WaitForPublicKey, Requeue, TypeOK, KeyTypeOK, keyVars
    <2>3. CASE EnsureSandboxTemplate
      <3>1. tmpl' \in Seq(SandboxTemplate) /\ tmpl' # <<>>
        BY <2>3, WritesTyped, DesiredTyped, Zenon DEF EnsureSandboxTemplate, TypeOK
      <3> QED BY <2>3, <3>1, EndsTyped, Zenon
              DEF EnsureSandboxTemplate, Requeue, Goes, Decided, TypeOK, KeyTypeOK, keyVars
    <2>4. CASE EnsureSandboxWarmPool
      <3>1. pool' \in Seq(SandboxWarmPool) /\ pool' # <<>>
        BY <2>4, WritesTyped, DesiredTyped, Zenon DEF EnsureSandboxWarmPool, TypeOK
      <3> QED BY <2>4, <3>1, EndsTyped, Zenon
              DEF EnsureSandboxWarmPool, Requeue, Goes, Decided, TypeOK, KeyTypeOK, keyVars
    <2>5. CASE DeleteSandboxWarmPool
      BY <2>5, WritesTyped, Zenon DEF DeleteSandboxWarmPool, Goes, Decided, TypeOK, KeyTypeOK,
                                      keyVars
    <2>6. CASE DeleteSandboxTemplate
      BY <2>6, WritesTyped, Zenon DEF DeleteSandboxTemplate, Goes, Decided, TypeOK, KeyTypeOK,
                                      keyVars
    <2>7. CASE UpdateStatus
      BY <2>7, WritesTyped, DesiredTyped, EndsTyped, Zenon
      DEF UpdateStatus, Returns, Requeue, TypeOK, KeyTypeOK, keyVars
    <2> QED BY <1>4, <2>1, <2>2, <2>3, <2>4, <2>5, <2>6, <2>7 DEF Succeeds
  <1>5. CASE Fails
    <2>1. CASE EnsureSandboxTemplateFails
      BY <2>1, WritesTyped, DesiredTyped, EndsTyped, Zenon
      DEF EnsureSandboxTemplateFails, Requeue, TypeOK, KeyTypeOK, keyVars
    <2>2. CASE EnsureSandboxWarmPoolFails
      BY <2>2, WritesTyped, DesiredTyped, EndsTyped, Zenon
      DEF EnsureSandboxWarmPoolFails, Requeue, TypeOK, KeyTypeOK, keyVars
    <2>3. CASE DeleteSandboxWarmPoolFails
      BY <2>3, WritesTyped, EndsTyped, Zenon DEF DeleteSandboxWarmPoolFails, Requeue, TypeOK,
                                                 KeyTypeOK, keyVars
    <2>4. CASE DeleteSandboxTemplateFails
      BY <2>4, WritesTyped, EndsTyped, Zenon DEF DeleteSandboxTemplateFails, Requeue, TypeOK,
                                                 KeyTypeOK, keyVars
    <2>5. CASE UpdateStatusFails
      BY <2>5, WritesTyped, DesiredTyped, EndsTyped, Zenon
      DEF UpdateStatusFails, Requeue, TypeOK, KeyTypeOK, keyVars
    <2> QED BY <1>5, <2>1, <2>2, <2>3, <2>4, <2>5 DEF Fails
  <1>6. CASE Restart
    <2>1. /\ ci' \in Seq(CodeInterpreter) /\ ci' # <<>>
          /\ tmpl' \in Seq(SandboxTemplate) /\ tmpl' # <<>>
          /\ pool' \in Seq(SandboxWarmPool) /\ pool' # <<>>
      BY <1>6, VersionsEnds DEF Restart, TypeOK
    <2>2. restarts' \in 0..MaxRestarts
      BY <1>6, SpecAssumption DEF Restart, TypeOK
    <2>3. queued' \in BOOLEAN
      BY <1>6 DEF Restart
    <2> QED BY <1>6, <2>1, <2>2, <2>3, EndsTyped DEF Restart, TypeOK, KeyTypeOK
  <1>7. CASE UNCHANGED vars
    BY <1>7 DEF vars, keyVars, ctrlVars, TypeOK, KeyTypeOK
  <1> QED BY <1>1, <1>2, <1>3, <1>4, <1>5, <1>6, <1>7 DEF Next

-----------------------------------------------------------------------------
\* What a step makes of the template: nothing, or the collector or the
\* reconciler removes it, or the reconciler writes it with the cached key.
LEMMA TemplateSteps ==
    ASSUME TypeOK, OrderInv, Next
    PROVE  \/ Actual(tmpl') = Actual(tmpl)
           \/ /\ Actual(tmpl') = NoTemplate
              /\ CollectTemplate \/ DeleteSandboxTemplate \/ DeleteSandboxTemplateFails
           \/ /\ Exists(Actual(tmpl'))
              /\ Actual(tmpl').key \in {NoKey, cachedKey}
              /\ PodTemplateEqual(Actual(tmpl'), ConvertToPodTemplate(held))
              /\ EnsureSandboxTemplate \/ EnsureSandboxTemplateFails
  <1>1. \A x \in SandboxTemplate : Actual(Append(tmpl, x)) = x
    BY VersionsAppend DEF TypeOK
  <1>2. CASE tmpl' = tmpl
    BY <1>2
  <1>3. CASE DeliverTemplate
    BY <1>3, VersionsTail DEF DeliverTemplate, TypeOK
  <1>4. CASE Restart
    BY <1>4, VersionsEnds DEF Restart, TypeOK
  <1>5. CASE CollectTemplate
    BY <1>5, <1>1, EndsTyped DEF CollectTemplate
  <1>6. CASE DeleteSandboxTemplate
    BY <1>6, <1>1, EndsTyped DEF DeleteSandboxTemplate, TemplateDeleted
  <1>7. CASE DeleteSandboxTemplateFails
    BY <1>7, <1>1, EndsTyped, Zenon DEF DeleteSandboxTemplateFails, TemplateDeleted
  <1>8. CASE EnsureSandboxTemplate \/ EnsureSandboxTemplateFails
    <2> DEFINE d == ConvertToPodTemplate(held)
    <2>1. d \in SandboxTemplate /\ Exists(d) /\ d.key \in {NoKey, cachedKey}
      BY <1>8, DesiredTyped
      DEF OrderInv, EnsureSandboxTemplate, EnsureSandboxTemplateFails, TemplateDue,
          ConvertToPodTemplate, Exists
    <2>2. tmpl' = tmpl \/ tmpl' = TemplateWrite(d)
      BY <1>8 DEF EnsureSandboxTemplate, EnsureSandboxTemplateFails
    <2>3. \/ TemplateWrite(d) = tmpl
          \/ \E x \in SandboxTemplate : /\ TemplateWrite(d) = Append(tmpl, x)
                                        /\ x.pod = d.pod /\ x.key = d.key
                                        /\ Exists(x)
      BY <2>1, TemplateWriteAppends
    <2> HIDE DEF d
    <2>4. \/ tmpl' = tmpl
          \/ /\ Exists(Actual(tmpl')) /\ Actual(tmpl').key \in {NoKey, cachedKey}
             /\ PodTemplateEqual(Actual(tmpl'), d)
      BY <1>1, <2>1, <2>2, <2>3, Zenon DEF PodTemplateEqual
    <2> QED BY <1>8, <2>4 DEF d
  <1> QED
    BY <1>2, <1>3, <1>4, <1>5, <1>6, <1>7, <1>8, Zenon
    DEF Next, ctrlVars, User, UserCreates, UserUpdates, UserDeletes, Edit, Cluster, CollectPool,
        DeliverCI, DeliverPool, Succeeds, Reconcile, WaitForPublicKey, EnsureSandboxWarmPool,
        DeleteSandboxWarmPool, UpdateStatus, Fails, EnsureSandboxWarmPoolFails,
        DeleteSandboxWarmPoolFails, UpdateStatusFails

\* The controller touches no key but its own, and only forgets that one.
LEMMA KeySteps ==
    ASSUME Next, ~(KeyNext /\ UNCHANGED ctrlVars)
    PROVE  /\ UNCHANGED <<rpc, rkey, drawn, secret, deleted>>
           /\ \/ UNCHANGED <<cachedKey, outdated>>
              \/ cachedKey' = NoKey /\ outdated' = outdated \ {Manager}
  BY Zenon
  DEF Next, keyVars, User, UserCreates, UserUpdates, UserDeletes, Edit, Cluster,
      CollectTemplate, CollectPool, DeliverCI, DeliverTemplate, DeliverPool, Succeeds,
      Reconcile, WaitForPublicKey, EnsureSandboxTemplate, EnsureSandboxWarmPool,
      DeleteSandboxWarmPool, DeleteSandboxTemplate, UpdateStatus, Fails,
      EnsureSandboxTemplateFails, EnsureSandboxWarmPoolFails, DeleteSandboxWarmPoolFails,
      DeleteSandboxTemplateFails, UpdateStatusFails, Restart

\* A Secret is created only where there is none, and a key that was believed
\* once stays so.
LEMMA BelievedSteps ==
    ASSUME Next
    PROVE  Believed \subseteq Believed'
  <1>1. CASE UNCHANGED <<secret, deleted>>
    BY <1>1, Zenon DEF Believed
  <1>2. CASE CreateSecret /\ UNCHANGED deleted
    BY <1>2 DEF CreateSecret, Believed
  <1>3. CASE SecretDeleted
    BY <1>3 DEF SecretDeleted, Believed
  <1>4. CASE KeyNext /\ UNCHANGED ctrlVars
    BY <1>1, <1>2, <1>3, <1>4, Zenon
    DEF KeyNext, RouterStep, StoreSecret, StoreSecretFails, SecretExists, LoadSecret, RouterStops,
        LoadPublicKeyFromSecret
  <1> QED BY <1>1, <1>4, KeySteps

LEMMA KeyStep == TypeOK /\ OrderInv /\ KeyInv /\ [Next]_vars => KeyInv'
  <1> SUFFICES ASSUME TypeOK, OrderInv, KeyInv, [Next]_vars PROVE KeyInv'
    OBVIOUS
  <1>1. CASE UNCHANGED vars
    BY <1>1 DEF vars, keyVars, ctrlVars, KeyInv, Believed
  <1> SUFFICES ASSUME Next PROVE KeyInv'
    BY <1>1
  <1>2. Believed \subseteq Believed'
    BY BelievedSteps
  <1>3. Actual(tmpl').key \in Believed' \cup {NoKey}
    <2>1. NoTemplate.key = NoKey
      BY DEF NoTemplate
    <2>2. Actual(tmpl').key \in {NoKey, Actual(tmpl).key, cachedKey}
      BY <2>1, TemplateSteps, Zenon
    <2> QED BY <1>2, <2>2, Zenon DEF KeyInv
  <1>4. cachedKey' \in Believed' \cup {NoKey}
    <2>1. CASE cachedKey' \in {NoKey, cachedKey}
      BY <1>2, <2>1, Zenon DEF KeyInv
    <2>2. CASE LoadPublicKeyFromSecret
      BY <1>2, <2>2 DEF LoadPublicKeyFromSecret, Believed, TypeOK, KeyTypeOK
    <2> QED
      BY <2>1, <2>2, KeySteps, Zenon
      DEF KeyNext, RouterStep, StoreSecret, StoreSecretFails, SecretExists, LoadSecret,
          RouterStops, SecretDeleted
  <1> DEFINE Holders ==
        /\ \A r \in Routers :
              rpc[r] = "serving" => r \in outdated \/ (rkey[r] = secret /\ secret # NoKey)
        /\ cachedKey # NoKey => Manager \in outdated \/ cachedKey = secret
  <1>5. ASSUME KeyNext /\ UNCHANGED ctrlVars PROVE Holders'
    <2>1. Holders /\ rpc \in [Routers -> {"down", "load", "serving"}]
                  /\ rkey \in [Routers -> Keys \cup {NoKey}]
                  /\ Manager \notin Routers /\ drawn \in Nat
      BY KeyAssumption DEF KeyInv, TypeOK, KeyTypeOK
    <2>2. ASSUME NEW r \in Routers, StoreSecret(r) PROVE Holders'
      BY <2>1, <2>2 DEF StoreSecret, CreateSecret, NoKey
    <2>3. ASSUME NEW r \in Routers, StoreSecretFails(r) PROVE Holders'
      BY <2>1, <2>3 DEF StoreSecretFails, CreateSecret, NoKey
    <2>4. ASSUME NEW r \in Routers, SecretExists(r) \/ LoadSecret(r) PROVE Holders'
      BY <2>1, <2>4 DEF SecretExists, LoadSecret
    <2>5. ASSUME NEW r \in Routers, RouterStops(r) PROVE Holders'
      BY <2>1, <2>5 DEF RouterStops
    <2>6. CASE LoadPublicKeyFromSecret
      BY <2>1, <2>6 DEF LoadPublicKeyFromSecret
    <2>7. CASE SecretDeleted
      BY <2>1, <2>7 DEF SecretDeleted
    <2> QED BY <1>5, <2>2, <2>3, <2>4, <2>5, <2>6, <2>7 DEF KeyNext, RouterStep
  <1>6. ASSUME ~(KeyNext /\ UNCHANGED ctrlVars) PROVE Holders'
    <2>1. Holders /\ Manager \notin Routers
      BY KeyAssumption DEF KeyInv
    <2> QED BY <1>6, <2>1, KeySteps
  <1>7. Holders'
    BY <1>5, <1>6
  <1> QED BY <1>2, <1>3, <1>4, <1>7 DEF KeyInv

-----------------------------------------------------------------------------
\* A version that a step may append: a deletion, an update, a status for the
\* version that is held, or a creation.
Written(x) ==
    \/ x = NoCI
    \/ /\ x.uid # 0 /\ x.uid = Actual(ci).uid
       /\ \/ x.gen = Actual(ci).gen + 1 /\ x.observed = Actual(ci).observed
          \/ /\ wpc = "status" /\ wpc' = "idle" /\ Actual(ci) = held
             /\ x.gen = held.gen /\ x.spec = held.spec /\ x.observed = x.gen
             /\ UNCHANGED <<secret, deleted, tmpl, pool, missed>>
    \/ x.uid = edits + 1 /\ edits' = edits + 1 /\ x.gen = 1 /\ x.observed = 0

\* What a step makes of the CodeInterpreter and of the copy that is held.
LEMMA CodeInterpreterSteps ==
    ASSUME TypeOK, OrderInv, Next
    PROVE  /\ \/ ci' = ci
              \/ ci' = <<Actual(ci)>>
              \/ Stale(ci) /\ ci' = Tail(ci)
              \/ \E x \in CodeInterpreter : ci' = Append(ci, x) /\ Written(x)
           /\ edits' \in {edits, edits + 1}
           /\ \/ wpc' = "idle"
              \/ wpc # "idle" /\ held' = held
              \/ held' = Cached(ci) /\ Cached(ci) # NoCI /\ ci' = ci
  <1>1. CASE KeyNext /\ UNCHANGED ctrlVars
    BY <1>1 DEF ctrlVars
  <1>2. CASE User
    <2>1. ASSUME NEW spec \in Specs, UserCreates(spec)
          PROVE  \E x \in CodeInterpreter : Written(x) /\ Edit(x)
      <3>1. [uid |-> edits + 1, gen |-> 1, spec |-> spec, observed |-> 0] \in CodeInterpreter
        BY DEF CodeInterpreter, TypeOK
      <3> QED BY <2>1, <3>1 DEF UserCreates, Edit, Written
    <2>2. ASSUME NEW spec \in Specs, UserUpdates(spec)
          PROVE  \E x \in CodeInterpreter : Written(x) /\ Edit(x)
      <3>1. \A c \in CodeInterpreter :
               [uid |-> c.uid, gen |-> c.gen + 1, spec |-> spec, observed |-> c.observed]
                   \in CodeInterpreter
        BY DEF CodeInterpreter
      <3>2. Actual(ci).uid # 0
        BY <2>2, VersionsEnds, Zenon DEF UserUpdates, OrderInv, TypeOK
      <3> QED BY <2>2, <3>1, <3>2, EndsTyped DEF UserUpdates, Written
    <2>3. CASE UserDeletes
      BY <2>3, EndsTyped DEF UserDeletes, Edit, Written
    <2> QED BY <1>2, <2>1, <2>2, <2>3 DEF User, Edit
  <1>3. CASE Cluster
    BY <1>3 DEF Cluster, CollectTemplate, CollectPool, DeliverCI, DeliverTemplate, DeliverPool
  <1>4. CASE UpdateStatus \/ UpdateStatusFails
    <2>1. /\ edits' = edits /\ wpc = "status" /\ wpc' = "idle"
          /\ UNCHANGED <<secret, deleted, tmpl, pool, missed>>
          /\ \/ ci' = ci
             \/ Actual(ci) = held /\ ci' = Append(ci, [held EXCEPT !.observed = held.gen])
      <3>1. CASE UpdateStatus
        BY <3>1 DEF UpdateStatus, Returns, Requeue, keyVars
      <3>2. CASE UpdateStatusFails
        BY <3>2 DEF UpdateStatusFails, Requeue, keyVars
      <3> QED BY <1>4, <3>1, <3>2
    <2>2. held.uid # 0
      BY <1>4 DEF UpdateStatus, UpdateStatusFails, OrderInv
    <2> DEFINE x == [held EXCEPT !.observed = held.gen]
    <2>3. /\ x.uid = held.uid /\ x.gen = held.gen /\ x.spec = held.spec
          /\ x.observed = x.gen /\ x \in CodeInterpreter
      BY DesiredTyped, Zenon DEF TypeOK, CodeInterpreter
    <2> HIDE DEF x
    <2>4. Actual(ci) = held => Written(x)
      BY <2>1, <2>2, <2>3 DEF Written
    <2> QED BY <2>1, <2>3, <2>4 DEF x
  <1>5. CASE Succeeds /\ ~UpdateStatus
    BY <1>5
    DEF Succeeds, Reconcile, WaitForPublicKey, EnsureSandboxTemplate, EnsureSandboxWarmPool,
        DeleteSandboxWarmPool, DeleteSandboxTemplate, TemplateDue, Goes, Requeue
  <1>6. CASE Fails /\ ~UpdateStatusFails
    BY <1>6, Zenon
    DEF Fails, EnsureSandboxTemplateFails, EnsureSandboxWarmPoolFails,
        DeleteSandboxWarmPoolFails, DeleteSandboxTemplateFails, Requeue
  <1>7. CASE Restart
    BY <1>7 DEF Restart
  <1> QED BY <1>1, <1>2, <1>3, <1>4, <1>5, <1>6, <1>7 DEF Next, Succeeds, Fails

\* The uids of the next versions: old ones, none, a new one, or the last one.
LEMMA UidSteps ==
    ASSUME TypeOK, OrderInv, Next
    PROVE  /\ edits \in Nat /\ edits' \in Nat /\ edits <= edits'
           /\ \A v \in Versions(ci) : v.uid \in Nat
           /\ Actual(ci) \in Versions(ci) /\ Cached(ci) \in Versions(ci)
           /\ Ordered(ci')
           /\ \A v \in Versions(ci') :
                 /\ v \in Versions(ci) \/ v.uid = 0 \/ v.uid = edits + 1
                    \/ (v.uid = Actual(ci).uid /\ v.uid # 0)
                 /\ v.uid <= edits' /\ (v.uid = 0 => v = NoCI)
  <1>1. edits \in Nat /\ edits' \in Nat /\ edits <= edits'
    <2>1. edits \in Nat
      BY DEF TypeOK
    <2> QED BY <2>1, CodeInterpreterSteps
  <1>2. \A v \in Versions(ci) : v.uid \in Nat
    <2>1. \A v \in Versions(ci) : v \in CodeInterpreter
      BY VersionsEnds, Zenon DEF TypeOK
    <2> QED BY <2>1 DEF CodeInterpreter
  <1>3. Actual(ci) \in Versions(ci) /\ Cached(ci) \in Versions(ci)
    BY VersionsEnds, Zenon DEF TypeOK
  <1> DEFINE Follows ==
        /\ Ordered(ci')
        /\ \A v \in Versions(ci') :
              /\ v \in Versions(ci) \/ v.uid = 0 \/ v.uid = edits + 1
                 \/ (v.uid = Actual(ci).uid /\ v.uid # 0)
              /\ v.uid <= edits' /\ (v.uid = 0 => v = NoCI)
  <1>4. ASSUME ci' = ci PROVE Follows
    BY <1>1, <1>2, <1>4 DEF OrderInv
  <1>5. ASSUME ci' = <<Actual(ci)>> PROVE Follows
    <2>1. Versions(ci') = {Actual(ci)} /\ Ordered(ci')
      BY <1>5, OrderedEnds, VersionsEnds DEF OrderInv, TypeOK
    <2> QED BY <1>1, <1>2, <1>3, <2>1 DEF OrderInv
  <1>6. ASSUME Stale(ci) /\ ci' = Tail(ci) PROVE Follows
    <2>1. Versions(ci') \subseteq Versions(ci) /\ Ordered(ci')
      BY <1>6, OrderedTail, VersionsTail DEF OrderInv, TypeOK
    <2> QED BY <1>1, <1>2, <2>1 DEF OrderInv
  <1>7. ASSUME NEW x \in CodeInterpreter, ci' = Append(ci, x),
               \/ x = NoCI
               \/ x.uid # 0 /\ x.uid = Actual(ci).uid
               \/ x.uid = edits + 1 /\ edits' = edits + 1
        PROVE  Follows
    <2>1. x.uid \in Nat /\ NoCI.uid = 0
      BY DEF CodeInterpreter, NoCI
    <2>2. ASSUME x.uid # 0, NEW v \in Versions(ci), v.uid # 0
          PROVE  v.uid <= x.uid
      <3>1. CASE x.uid = Actual(ci).uid
        BY <2>2, <3>1, OrderedEnds, Zenon DEF OrderInv, TypeOK
      <3>2. CASE x.uid = edits + 1
        BY <1>1, <1>2, <2>2, <3>2 DEF OrderInv
      <3> QED BY <1>7, <2>1, <2>2, <3>1, <3>2
    <2>3. Ordered(ci')
      BY <1>7, <2>2, OrderedAppend DEF OrderInv, TypeOK
    <2>4. Versions(ci') = Versions(ci) \cup {x}
      BY <1>7, VersionsAppend DEF TypeOK
    <2>5. /\ x.uid = 0 \/ x.uid = edits + 1 \/ (x.uid = Actual(ci).uid /\ x.uid # 0)
          /\ x.uid <= edits' /\ (x.uid = 0 => x = NoCI)
      BY <1>1, <1>2, <1>3, <1>7, <2>1 DEF OrderInv
    <2> QED BY <1>1, <1>2, <2>3, <2>4, <2>5 DEF OrderInv
  <1>8. Follows
    BY <1>4, <1>5, <1>6, <1>7, CodeInterpreterSteps DEF Written
  <1> QED BY <1>1, <1>2, <1>3, <1>8

LEMMA OrderStep == TypeOK /\ OrderInv /\ [Next]_vars => OrderInv'
  <1> SUFFICES ASSUME TypeOK, OrderInv, [Next]_vars PROVE OrderInv'
    OBVIOUS
  <1>1. CASE UNCHANGED vars
    BY <1>1, Zenon DEF vars, ctrlVars, OrderInv, Ordered, Versions
  <1>2. CASE Next
    <2>1. ASSUME wpc' # "idle"
          PROVE  /\ held'.uid # 0
                 /\ held'.uid <= edits'
                 /\ \A v \in Versions(ci') : v.uid # 0 => held'.uid <= v.uid
      <3>1. /\ held'.uid # 0 /\ held'.uid <= edits /\ held'.uid \in Nat
            /\ \A v \in Versions(ci) : v.uid # 0 => held'.uid <= v.uid
        <4>1. CASE wpc # "idle" /\ held' = held
          BY <4>1 DEF OrderInv, TypeOK, CodeInterpreter
        <4>2. CASE held' = Cached(ci) /\ Cached(ci) # NoCI
          BY <1>2, <4>2, UidSteps, OrderedEnds, Zenon DEF OrderInv, TypeOK
        <4> QED BY <1>2, <2>1, <4>1, <4>2, CodeInterpreterSteps
      <3> QED BY <1>2, UidSteps, <3>1
    <2> QED BY <1>2, <2>1, UidSteps DEF OrderInv
  <1> QED BY <1>1, <1>2

\* What a step makes of the versions of the pool, and of the last of them.
LEMMA PoolSteps ==
    ASSUME TypeOK, OrderInv, Next
    PROVE  /\ \/ Versions(pool') \subseteq Versions(pool)
              \/ Versions(pool') = Versions(pool) \cup {NoPool}
              \/ /\ wpc = "pool" /\ ci' = ci
                 /\ wpc' # "idle" => held' = held
                 /\ \E x \in SandboxWarmPool :
                       /\ x.owner \in {held.uid, Cached(pool).owner}
                       /\ Versions(pool') = Versions(pool) \cup {x}
           /\ \/ Actual(pool') = Actual(pool)
              \/ /\ Actual(pool') = NoPool
                 /\ CollectPool \/ DeleteSandboxWarmPool \/ DeleteSandboxWarmPoolFails
              \/ /\ Exists(Actual(pool')) /\ Actual(pool').size = held.spec.size
                 /\ EnsureSandboxWarmPool \/ EnsureSandboxWarmPoolFails
  <1>1. \A x \in SandboxWarmPool :
           Versions(Append(pool, x)) = Versions(pool) \cup {x} /\ Actual(Append(pool, x)) = x
    BY VersionsAppend DEF TypeOK
  <1>2. CASE pool' = pool
    BY <1>2
  <1>3. CASE DeliverPool
    BY <1>3, VersionsTail DEF DeliverPool, TypeOK
  <1>4. CASE Restart
    BY <1>4, VersionsEnds DEF Restart, TypeOK
  <1>5. CASE CollectPool
    BY <1>5, <1>1, EndsTyped, Zenon DEF CollectPool
  <1>6. CASE DeleteSandboxWarmPool
    BY <1>6, <1>1, EndsTyped DEF DeleteSandboxWarmPool, PoolDeleted
  <1>7. CASE DeleteSandboxWarmPoolFails
    BY <1>7, <1>1, EndsTyped, Zenon DEF DeleteSandboxWarmPoolFails, PoolDeleted
  <1>8. CASE EnsureSandboxWarmPool \/ EnsureSandboxWarmPoolFails
    <2> DEFINE d == [owner |-> held.uid, size |-> held.spec.size]
    <2>1. d \in SandboxWarmPool /\ Exists(d) /\ d.owner = held.uid /\ d.size = held.spec.size
      BY <1>8, DesiredTyped DEF OrderInv, EnsureSandboxWarmPool, EnsureSandboxWarmPoolFails,
                                Exists
    <2>2. /\ pool' = pool \/ pool' = PoolWrite(d)
          /\ wpc = "pool" /\ ci' = ci /\ (wpc' # "idle" => held' = held)
      BY <1>8, Zenon DEF EnsureSandboxWarmPool, EnsureSandboxWarmPoolFails, Goes, Requeue
    <2>3. \/ PoolWrite(d) = pool
          \/ \E x \in SandboxWarmPool : /\ PoolWrite(d) = Append(pool, x)
                                        /\ x.size = d.size
                                        /\ x.owner \in {d.owner, Cached(pool).owner}
                                        /\ Exists(x)
      BY <2>1, PoolWriteAppends
    <2> HIDE DEF d
    <2>4. \/ pool' = pool
          \/ \E x \in SandboxWarmPool : /\ x.owner \in {held.uid, Cached(pool).owner}
                                        /\ Versions(pool') = Versions(pool) \cup {x}
                                        /\ Actual(pool') = x
                                        /\ x.size = held.spec.size /\ Exists(x)
      BY <1>1, <2>1, <2>2, <2>3, Zenon
    <2> QED BY <1>8, <2>2, <2>4, Zenon
  <1> QED
    BY <1>2, <1>3, <1>4, <1>5, <1>6, <1>7, <1>8, Zenon
    DEF Next, ctrlVars, User, UserCreates, UserUpdates, UserDeletes, Edit, Cluster,
        CollectTemplate, DeliverCI, DeliverTemplate, Succeeds, Reconcile, WaitForPublicKey,
        EnsureSandboxTemplate, DeleteSandboxTemplate, UpdateStatus, Fails,
        EnsureSandboxTemplateFails, DeleteSandboxTemplateFails, UpdateStatusFails

-----------------------------------------------------------------------------
\* No version of the pool that a step leaves is owned by a CodeInterpreter
\* newer than those known before it.
LEMMA OwnerBound ==
    ASSUME TypeOK, OrderInv, OwnerInv, Next
    PROVE  \A p \in Versions(pool') :
               /\ p.owner \in Nat
               /\ p.owner <= edits
               /\ \A v \in Versions(ci) : v.uid # 0 => p.owner <= v.uid
               /\ wpc # "idle" => p.owner <= held.uid
  <1> DEFINE Bounded(p) == /\ p.owner \in Nat
                           /\ p.owner <= edits
                           /\ \A v \in Versions(ci) : v.uid # 0 => p.owner <= v.uid
                           /\ wpc # "idle" => p.owner <= held.uid
  <1>1. edits \in Nat /\ held.uid \in Nat /\ \A v \in Versions(ci) : v.uid \in Nat
    BY UidSteps DEF TypeOK, CodeInterpreter
  <1>2. \A p \in Versions(pool) : Bounded(p)
    <2>1. \A p \in Versions(pool) : p \in SandboxWarmPool
      BY VersionsEnds, Zenon DEF TypeOK
    <2> QED BY <2>1 DEF OwnerInv, SandboxWarmPool
  <1>3. Bounded(NoPool)
    BY <1>1 DEF NoPool
  <1>4. ASSUME wpc = "pool", NEW x, x.owner \in {held.uid, Cached(pool).owner}
        PROVE  Bounded(x)
    <2>1. Cached(pool) \in Versions(pool)
      BY VersionsEnds, Zenon DEF TypeOK
    <2>2. CASE x.owner = held.uid
      BY <1>1, <1>4, <2>2 DEF OrderInv
    <2>3. CASE x.owner = Cached(pool).owner
      BY <1>2, <2>1, <2>3
    <2> QED BY <1>4, <2>2, <2>3
  <1> HIDE DEF Bounded
  <1>5. \A p \in Versions(pool') : Bounded(p)
    BY <1>2, <1>3, <1>4, PoolSteps
  <1> QED BY <1>5 DEF Bounded

LEMMA OwnerStep == TypeOK /\ OrderInv /\ OwnerInv /\ [Next]_vars => OwnerInv'
  <1> SUFFICES ASSUME TypeOK, OrderInv, OwnerInv, [Next]_vars PROVE OwnerInv'
    OBVIOUS
  <1>1. CASE UNCHANGED vars
    BY <1>1 DEF vars, ctrlVars, OwnerInv, Versions
  <1>2. CASE Next
    <2> SUFFICES ASSUME NEW p \in Versions(pool')
                 PROVE  /\ p.owner <= edits'
                        /\ \A v \in Versions(ci') : v.uid # 0 => p.owner <= v.uid
                        /\ wpc' # "idle" => p.owner <= held'.uid
      BY DEF OwnerInv
    <2>1. /\ p.owner \in Nat /\ p.owner <= edits
          /\ \A v \in Versions(ci) : v.uid # 0 => p.owner <= v.uid
          /\ wpc # "idle" => p.owner <= held.uid
      BY <1>2, OwnerBound
    <2>2. p.owner <= edits' /\ \A v \in Versions(ci') : v.uid # 0 => p.owner <= v.uid
      BY <1>2, <2>1, UidSteps
    <2>3. ASSUME wpc' # "idle" PROVE p.owner <= held'.uid
      <3>1. CASE wpc # "idle" /\ held' = held
        BY <2>1, <3>1
      <3>2. CASE held' = Cached(ci) /\ Cached(ci) # NoCI
        BY <1>2, <2>1, <3>2, UidSteps DEF OrderInv
      <3> QED BY <1>2, <2>3, <3>1, <3>2, CodeInterpreterSteps
    <2> QED BY <2>2, <2>3
  <1> QED BY <1>1, <1>2

-----------------------------------------------------------------------------
\* What the last version becomes, for the steps of the environment.
LEMMA ActualSteps ==
    ASSUME TypeOK
    PROVE  /\ \A x \in CodeInterpreter : Actual(Append(ci, x)) = x
           /\ \A x \in SandboxTemplate : Actual(Append(tmpl, x)) = x
           /\ \A x \in SandboxWarmPool : Actual(Append(pool, x)) = x
           /\ Stale(ci) => Actual(Tail(ci)) = Actual(ci)
           /\ Stale(tmpl) => Actual(Tail(tmpl)) = Actual(tmpl)
           /\ Stale(pool) => Actual(Tail(pool)) = Actual(pool)
           /\ ~Stale(tmpl) => Cached(tmpl) = Actual(tmpl)
           /\ ~Stale(pool) => Cached(pool) = Actual(pool)
  <1>1. /\ \A x \in CodeInterpreter : Actual(Append(ci, x)) = x
        /\ \A x \in SandboxTemplate : Actual(Append(tmpl, x)) = x
        /\ \A x \in SandboxWarmPool : Actual(Append(pool, x)) = x
    BY VersionsAppend DEF TypeOK
  <1>2. /\ Stale(ci) => Actual(Tail(ci)) = Actual(ci)
        /\ Stale(tmpl) => Actual(Tail(tmpl)) = Actual(tmpl)
        /\ Stale(pool) => Actual(Tail(pool)) = Actual(pool)
    BY VersionsTail DEF TypeOK
  <1>3. /\ ~Stale(tmpl) => Cached(tmpl) = Actual(tmpl)
        /\ ~Stale(pool) => Cached(pool) = Actual(pool)
    BY VersionsEnds, Zenon DEF TypeOK
  <1> QED BY <1>1, <1>2, <1>3

\* A template that was written as the reconciler wants it fits the spec that
\* it holds: the key it had cached is believed.
LEMMA DesiredFits ==
    ASSUME KeyInv, TemplateDue, held.spec.size > 0,
           NEW t, Exists(t), PodTemplateEqual(t, ConvertToPodTemplate(held))
    PROVE  TemplateFits(t, Believed, held.spec)
  BY DEF TemplateFits, PodTemplateEqual, ConvertToPodTemplate, TemplateDue, IsPublicKeyCached,
         KeyInv

\* The calls that have returned: what they decide on.
TemplateDone == (EnsureSandboxTemplate /\ wpc' = "pool") \/ DeleteSandboxTemplate
PoolDone == (EnsureSandboxWarmPool /\ wpc' = "status") \/ DeleteSandboxWarmPool

\* The template is as the spec asks when ensureSandboxTemplate has gone on to
\* the pool or deleteSandboxTemplate has returned, or a stale read is on record.
LEMMA TemplateMade ==
    ASSUME TypeOK, KeyInv, OrderInv, StageInv, TemplateDone
    PROVE  TemplateFits(Actual(tmpl'), Believed', held.spec) \/ "template" \in missed'
  <1>1. CASE EnsureSandboxTemplate /\ wpc' = "pool"
    <2> DEFINE d == ConvertToPodTemplate(held)
               right(t) == Exists(t) /\ PodTemplateEqual(t, d)
    <2>1. /\ tmpl' = IF right(Cached(tmpl)) THEN tmpl ELSE TemplateWrite(d)
          /\ Decided("template", Stale(tmpl), right(Actual(tmpl')))
          /\ TemplateDue /\ Believed' = Believed /\ held.spec.size > 0
      BY <1>1, Zenon DEF EnsureSandboxTemplate, Requeue, keyVars, TemplateDue, StageInv, Believed
    <2>2. d \in SandboxTemplate /\ Exists(d)
      BY <2>1, DesiredTyped DEF OrderInv, TemplateDue, ConvertToPodTemplate, Exists
    <2>3. right(Actual(tmpl')) => TemplateFits(Actual(tmpl'), Believed', held.spec)
      BY <2>1, DesiredFits
    <2> HIDE DEF d
    <2>4. CASE Stale(tmpl)
      BY <2>1, <2>3, <2>4, Zenon DEF Decided
    <2>5. CASE ~Stale(tmpl)
      <3>1. Cached(tmpl) = Actual(tmpl)
        BY <2>5, ActualSteps
      <3>2. CASE right(Cached(tmpl))
        BY <2>1, <2>3, <3>1, <3>2, Zenon
      <3>3. CASE ~right(Cached(tmpl))
        <4> DEFINE x == [d EXCEPT !.owner = Cached(tmpl).owner]
        <4>1. /\ x \in SandboxTemplate /\ x.owner = Cached(tmpl).owner
              /\ PodTemplateEqual(x, d) /\ PodTemplateEqual(d, d)
          BY <2>2, EndsTyped DEF SandboxTemplate, PodTemplateEqual
        <4>2. tmpl' = Append(tmpl, IF Exists(Cached(tmpl)) THEN x ELSE d)
          BY <2>1, <2>5, <3>1, <3>3 DEF TemplateWrite
        <4> HIDE DEF x
        <4>3. Actual(tmpl') = IF Exists(Cached(tmpl)) THEN x ELSE d
          BY <2>2, <4>1, <4>2, ActualSteps
        <4> QED BY <2>2, <2>3, <4>1, <4>3 DEF Exists
      <3> QED BY <3>2, <3>3
    <2> QED BY <2>4, <2>5
  <1>2. CASE DeleteSandboxTemplate
    <2>1. /\ ~(held.spec.size > 0)
          /\ tmpl' = IF Exists(Cached(tmpl)) THEN TemplateDeleted ELSE tmpl
          /\ Decided("template", Stale(tmpl), ~Exists(Actual(tmpl')))
      BY <1>2 DEF DeleteSandboxTemplate, StageInv
    <2>2. ~Exists(Actual(tmpl')) \/ Stale(tmpl)
      BY <2>1, ActualSteps, EndsTyped DEF TemplateDeleted, Exists, NoTemplate
    <2> QED BY <2>1, <2>2 DEF TemplateFits, Decided
  <1> QED BY <1>1, <1>2 DEF TemplateDone

\* The same for the warm pool.
LEMMA PoolMade ==
    ASSUME TypeOK, OrderInv, StageInv, PoolDone
    PROVE  PoolFits(Actual(pool'), held.spec) \/ "pool" \in missed'
  <1>1. CASE EnsureSandboxWarmPool /\ wpc' = "status"
    <2> DEFINE d == [owner |-> held.uid, size |-> held.spec.size]
               right(p) == Exists(p) /\ p.size = held.spec.size
    <2>1. /\ pool' = IF right(Cached(pool)) THEN pool ELSE PoolWrite(d)
          /\ Decided("pool", Stale(pool), right(Actual(pool')))
          /\ wpc = "pool" /\ held.spec.size > 0
      BY <1>1, Zenon DEF EnsureSandboxWarmPool, Requeue, StageInv
    <2>2. d \in SandboxWarmPool /\ Exists(d) /\ d.size = held.spec.size
      BY <2>1, DesiredTyped DEF OrderInv, Exists
    <2>3. right(Actual(pool')) => PoolFits(Actual(pool'), held.spec)
      BY <2>1, Zenon DEF PoolFits
    <2> HIDE DEF d
    <2>4. CASE Stale(pool)
      BY <2>1, <2>3, <2>4 DEF Decided
    <2>5. CASE ~Stale(pool)
      <3>1. Cached(pool) = Actual(pool)
        BY <2>5, ActualSteps
      <3>2. CASE right(Cached(pool))
        BY <2>1, <2>3, <3>1, <3>2, Zenon
      <3>3. CASE ~right(Cached(pool))
        <4> DEFINE x == [d EXCEPT !.owner = Cached(pool).owner]
        <4>1. x \in SandboxWarmPool /\ x.owner = Cached(pool).owner /\ x.size = d.size
          BY <2>2, EndsTyped DEF SandboxWarmPool
        <4>2. pool' = Append(pool, IF Exists(Cached(pool)) THEN x ELSE d)
          BY <2>1, <2>5, <3>1, <3>3 DEF PoolWrite
        <4> HIDE DEF x
        <4>3. Actual(pool') = IF Exists(Cached(pool)) THEN x ELSE d
          BY <2>2, <4>1, <4>2, ActualSteps
        <4> QED BY <2>2, <2>3, <4>1, <4>3, Zenon DEF Exists
      <3> QED BY <3>2, <3>3
    <2> QED BY <2>4, <2>5
  <1>2. CASE DeleteSandboxWarmPool
    <2>1. /\ ~(held.spec.size > 0)
          /\ pool' = IF Exists(Cached(pool)) THEN PoolDeleted ELSE pool
          /\ Decided("pool", Stale(pool), ~Exists(Actual(pool')))
      BY <1>2 DEF DeleteSandboxWarmPool, StageInv
    <2>2. ~Exists(Actual(pool')) \/ Stale(pool)
      BY <2>1, ActualSteps, EndsTyped DEF PoolDeleted, Exists, NoPool
    <2> QED BY <2>1, <2>2 DEF PoolFits, Decided
  <1> QED BY <1>1, <1>2 DEF PoolDone

\* A child stays on record until a call decides on it again.
LEMMA MissedSteps ==
    ASSUME Next
    PROVE  /\ "template" \in missed => "template" \in missed' \/ TemplateDone
           /\ "pool" \in missed => "pool" \in missed' \/ PoolDone
  BY Zenon DEF Next, ctrlVars, User, UserCreates, UserUpdates, UserDeletes, Edit, Cluster,
         CollectTemplate, CollectPool, DeliverCI, DeliverTemplate, DeliverPool, Succeeds,
         Reconcile, WaitForPublicKey, EnsureSandboxTemplate, EnsureSandboxWarmPool,
         DeleteSandboxWarmPool, DeleteSandboxTemplate, UpdateStatus, Fails,
         EnsureSandboxTemplateFails, EnsureSandboxWarmPoolFails, DeleteSandboxWarmPoolFails,
         DeleteSandboxTemplateFails, UpdateStatusFails, Restart, TemplateDone, PoolDone, Decided,
         Goes

\* No step spoils a template that fits, while there is a CodeInterpreter and
\* the reconciler works for no other spec.
LEMMA TemplateKept ==
    ASSUME TypeOK, KeyInv, OrderInv, StageInv, Next, NEW spec,
           wpc \in {"template", "deltemplate"} => held.spec = spec,
           Actual(ci) # NoCI,
           TemplateSettled(spec)
    PROVE  TemplateFits(Actual(tmpl'), Believed', spec) \/ "template" \in missed'
  <1>1. CASE TemplateDone
    <2>1. wpc \in {"template", "deltemplate"}
      BY <1>1, Zenon DEF TemplateDone, EnsureSandboxTemplate, DeleteSandboxTemplate, TemplateDue
    <2> QED BY <1>1, <2>1, TemplateMade
  <1>2. CASE "template" \in missed
    BY <1>1, <1>2, MissedSteps
  <1>3. CASE ~TemplateDone /\ TemplateFits(Actual(tmpl), Believed, spec)
    <2>1. CASE Actual(tmpl') = Actual(tmpl)
      BY <1>3, <2>1, BelievedSteps, Zenon DEF TemplateFits
    <2>2. CASE Actual(tmpl') = NoTemplate /\ CollectTemplate
      BY <2>2, Zenon DEF CollectTemplate
    <2>3. CASE Actual(tmpl') = NoTemplate /\ DeleteSandboxTemplateFails
      BY <2>3 DEF DeleteSandboxTemplateFails, StageInv, TemplateFits, Exists, NoTemplate
    <2>4. CASE /\ Exists(Actual(tmpl'))
               /\ PodTemplateEqual(Actual(tmpl'), ConvertToPodTemplate(held))
               /\ EnsureSandboxTemplate \/ EnsureSandboxTemplateFails
      <3>1. /\ TemplateDue /\ wpc = "template" /\ held.spec.size > 0
            /\ Believed' = Believed
        BY <2>4, Zenon DEF EnsureSandboxTemplate, EnsureSandboxTemplateFails, TemplateDue,
                           StageInv, keyVars, Believed
      <3> QED BY <2>4, <3>1, DesiredFits, Zenon
    <2> QED BY <1>3, <2>1, <2>2, <2>3, <2>4, TemplateSteps DEF TemplateDone
  <1> QED BY <1>1, <1>2, <1>3 DEF TemplateSettled

LEMMA PoolKept ==
    ASSUME TypeOK, OrderInv, StageInv, Next, NEW spec,
           wpc \in {"pool", "delpool"} => held.spec = spec,
           Actual(ci) # NoCI,
           PoolSettled(spec)
    PROVE  PoolFits(Actual(pool'), spec) \/ "pool" \in missed'
  <1>1. CASE PoolDone
    <2>1. wpc \in {"pool", "delpool"}
      BY <1>1, Zenon DEF PoolDone, EnsureSandboxWarmPool, DeleteSandboxWarmPool
    <2> QED BY <1>1, <2>1, PoolMade
  <1>2. CASE "pool" \in missed
    BY <1>1, <1>2, MissedSteps
  <1>3. CASE ~PoolDone /\ PoolFits(Actual(pool), spec)
    <2>1. CASE Actual(pool') = Actual(pool)
      BY <1>3, <2>1
    <2>2. CASE Actual(pool') = NoPool /\ CollectPool
      BY <2>2 DEF CollectPool
    <2>3. CASE Actual(pool') = NoPool /\ DeleteSandboxWarmPoolFails
      BY <2>3 DEF DeleteSandboxWarmPoolFails, StageInv, PoolFits, Exists, NoPool
    <2>4. CASE /\ Exists(Actual(pool')) /\ Actual(pool').size = held.spec.size
               /\ EnsureSandboxWarmPool \/ EnsureSandboxWarmPoolFails
      BY <2>4, Zenon DEF EnsureSandboxWarmPool, EnsureSandboxWarmPoolFails, StageInv, PoolFits
    <2> QED BY <1>3, <2>1, <2>2, <2>3, <2>4, PoolSteps, Zenon DEF PoolDone
  <1> QED BY <1>1, <1>2, <1>3 DEF PoolSettled

\* The uid of the last version, as seen by a reconciler at work or a pool.
LEMMA ActualUidSteps ==
    ASSUME TypeOK, OrderInv, Next, NEW u \in Nat, u # 0, u <= edits, Actual(ci').uid = u
    PROVE  Actual(ci).uid = u
  <1>1. CASE ci' = ci
    BY <1>1
  <1>2. CASE ci' = <<Actual(ci)>>
    BY <1>2, VersionsEnds DEF TypeOK
  <1>3. CASE Stale(ci) /\ ci' = Tail(ci)
    BY <1>3, ActualSteps
  <1>4. ASSUME NEW x \in CodeInterpreter, ci' = Append(ci, x),
               \/ x = NoCI
               \/ x.uid # 0 /\ x.uid = Actual(ci).uid
               \/ x.uid = edits + 1 /\ edits' = edits + 1
        PROVE  Actual(ci).uid = u
    <2>1. Actual(ci') = x
      BY <1>4, ActualSteps
    <2>2. edits \in Nat /\ NoCI.uid = 0
      BY DEF TypeOK, NoCI
    <2> QED BY <1>4, <2>1, <2>2
  <1> QED BY <1>1, <1>2, <1>3, <1>4, CodeInterpreterSteps DEF Written

\* The steps of others leave the children as they are, or collect one.
LEMMA OthersSteps ==
    ASSUME TypeOK, (KeyNext /\ UNCHANGED ctrlVars) \/ User \/ Cluster
    PROVE  /\ wpc' = wpc /\ held' = held
           /\ missed \subseteq missed'
           /\ \/ Actual(tmpl') = Actual(tmpl)
              \/ Actual(ci) # NoCI => "template" \in missed'
           /\ Actual(pool') = Actual(pool) \/ ~Exists(Actual(pool'))
  <1>1. CASE KeyNext /\ UNCHANGED ctrlVars
    BY <1>1 DEF ctrlVars
  <1>2. CASE User
    BY <1>2, Zenon DEF User, UserCreates, UserUpdates, UserDeletes, Edit
  <1>3. CASE CollectTemplate
    BY <1>3, Zenon DEF CollectTemplate
  <1>4. CASE CollectPool
    BY <1>4, ActualSteps, EndsTyped DEF CollectPool, Exists, NoPool
  <1>5. CASE DeliverCI \/ DeliverTemplate \/ DeliverPool
    BY <1>5, ActualSteps, Zenon DEF DeliverCI, DeliverTemplate, DeliverPool
  <1> QED BY <1>1, <1>2, <1>3, <1>4, <1>5 DEF Cluster

LEMMA StageStep == TypeOK /\ KeyInv /\ OrderInv /\ StageInv /\ [Next]_vars => StageInv'
  <1> SUFFICES ASSUME TypeOK, KeyInv, OrderInv, StageInv, [Next]_vars PROVE StageInv'
    OBVIOUS
  <1>1. CASE UNCHANGED vars
    BY <1>1, Zenon DEF vars, ctrlVars, keyVars, StageInv, TemplateSettled, PoolSettled, Believed
  <1> SUFFICES ASSUME Next PROVE StageInv'
    BY <1>1
  <1>2. /\ wpc' \in {"template", "pool"} => held'.spec.size > 0
        /\ wpc' \in {"delpool", "deltemplate"} => ~(held'.spec.size > 0)
    <2>1. CASE (KeyNext /\ UNCHANGED ctrlVars) \/ User \/ Cluster
      BY <2>1, OthersSteps DEF StageInv
    <2>2. CASE Reconcile
      BY <2>2 DEF Reconcile
    <2>3. CASE Restart \/ Fails \/ WaitForPublicKey \/ UpdateStatus
      BY <2>3, Zenon DEF Restart, Fails, EnsureSandboxTemplateFails, EnsureSandboxWarmPoolFails,
                  DeleteSandboxWarmPoolFails, DeleteSandboxTemplateFails, UpdateStatusFails,
                  WaitForPublicKey, UpdateStatus, Requeue, Returns
    <2>4. CASE \/ EnsureSandboxTemplate \/ EnsureSandboxWarmPool
               \/ DeleteSandboxWarmPool \/ DeleteSandboxTemplate
      BY <2>4, Zenon DEF EnsureSandboxTemplate, EnsureSandboxWarmPool, DeleteSandboxWarmPool,
                  DeleteSandboxTemplate, TemplateDue, Goes, Requeue, StageInv
    <2> QED BY <2>1, <2>2, <2>3, <2>4 DEF Next, Succeeds
  <1>3. ASSUME held'.uid = Actual(ci').uid, wpc' \in {"pool", "deltemplate", "status"}
        PROVE  /\ wpc' \in {"pool", "status"} =>
                     TemplateFits(Actual(tmpl'), Believed', held'.spec) \/ "template" \in missed'
               /\ wpc' \in {"deltemplate", "status"} =>
                     PoolFits(Actual(pool'), held'.spec) \/ "pool" \in missed'
    <2>1. \/ wpc' = wpc /\ held' = held /\ ~TemplateDone /\ ~PoolDone
          \/ wpc' = "pool" /\ held' = held /\ TemplateDone /\ wpc = "template"
          \/ wpc' = "status" /\ held' = held /\ PoolDone /\ wpc = "pool"
          \/ wpc' = "deltemplate" /\ held' = held /\ PoolDone /\ wpc = "delpool"
          \/ wpc' = "status" /\ held' = held /\ TemplateDone /\ wpc = "deltemplate"
      <3>1. CASE (KeyNext /\ UNCHANGED ctrlVars) \/ User \/ Cluster
        BY <1>3, <3>1, OthersSteps, Zenon
        DEF TemplateDone, PoolDone, EnsureSandboxTemplate, EnsureSandboxWarmPool, TemplateDue,
            DeleteSandboxWarmPool, DeleteSandboxTemplate, Goes
      <3>2. CASE \/ EnsureSandboxTemplate \/ EnsureSandboxWarmPool
                 \/ DeleteSandboxWarmPool \/ DeleteSandboxTemplate
        BY <1>3, <3>2, Zenon
        DEF TemplateDone, PoolDone, EnsureSandboxTemplate, EnsureSandboxWarmPool, TemplateDue,
            DeleteSandboxWarmPool, DeleteSandboxTemplate, Goes, Requeue
      <3>3. CASE Restart \/ Fails \/ Reconcile \/ WaitForPublicKey \/ UpdateStatus
        BY <1>3, <3>3
        DEF Restart, Fails, EnsureSandboxTemplateFails, EnsureSandboxWarmPoolFails,
            DeleteSandboxWarmPoolFails, DeleteSandboxTemplateFails, UpdateStatusFails,
            Reconcile, WaitForPublicKey, UpdateStatus, Requeue, Returns
      <3> QED BY <3>1, <3>2, <3>3 DEF Next, Succeeds
    <2>2. held.uid \in Nat /\ held.uid # 0 /\ held.uid <= edits
      BY <1>3, <2>1, Zenon DEF OrderInv, TypeOK, CodeInterpreter
    <2>3. Actual(ci).uid = held.uid /\ Actual(ci) # NoCI
      BY <1>3, <2>1, <2>2, ActualUidSteps DEF NoCI
    <2>4. wpc' \in {"pool", "status"} =>
             TemplateFits(Actual(tmpl'), Believed', held.spec) \/ "template" \in missed'
      <3>1. CASE TemplateDone
        BY <3>1, TemplateMade
      <3>2. CASE wpc \in {"pool", "status"}
        BY <2>3, <3>2, TemplateKept, Zenon DEF StageInv
      <3> QED BY <2>1, <3>1, <3>2
    <2>5. wpc' \in {"deltemplate", "status"} =>
             PoolFits(Actual(pool'), held.spec) \/ "pool" \in missed'
      <3>1. CASE PoolDone
        BY <3>1, PoolMade
      <3>2. CASE wpc \in {"deltemplate", "status"}
        BY <2>3, <3>2, PoolKept, Zenon DEF StageInv
      <3> QED BY <2>1, <3>1, <3>2
    <2> QED BY <2>1, <2>4, <2>5
  <1> QED BY <1>2, <1>3, Zenon DEF StageInv, TemplateSettled, PoolSettled

\* The calls that write the pool or delete the template are safe: the pool
\* that stands then belongs to an older CodeInterpreter, or the first call
\* has had its effect.
LEMMA PoolStep ==
    TypeOK /\ KeyInv /\ OrderInv /\ OwnerInv /\ StageInv /\ PoolHasTemplate /\ [Next]_vars
        => PoolHasTemplate'
  <1> SUFFICES ASSUME TypeOK, KeyInv, OrderInv, OwnerInv, StageInv, PoolHasTemplate, [Next]_vars,
                      Exists(Actual(pool')), Actual(pool').owner = Actual(ci').uid
               PROVE  Exists(Actual(tmpl')) \/ missed' # {}
    BY DEF PoolHasTemplate
  <1>1. CASE UNCHANGED vars
    BY <1>1 DEF vars, ctrlVars, PoolHasTemplate
  <1> SUFFICES ASSUME Next PROVE Exists(Actual(tmpl')) \/ missed' # {}
    BY <1>1
  <1> DEFINE u == Actual(pool').owner
  <1>2. /\ u \in Nat /\ u # 0 /\ u <= edits
        /\ wpc # "idle" => u <= held.uid
    <2>1. pool' \in Seq(SandboxWarmPool) /\ pool' # <<>>
      BY TypeStep DEF TypeOK
    <2>2. Actual(pool') \in Versions(pool')
      BY <2>1, VersionsEnds, Zenon
    <2> QED BY <2>2, OwnerBound DEF Exists
  <1>3. Actual(ci).uid = u
    BY <1>2, ActualUidSteps
  <1>4. Actual(ci) # NoCI /\ Actual(ci) \in Versions(ci)
    <2>1. Actual(ci) \in Versions(ci)
      BY VersionsEnds, Zenon DEF TypeOK
    <2>2. NoCI.uid = 0
      BY DEF NoCI
    <2> QED BY <1>2, <1>3, <2>1, <2>2
  <1>5. wpc # "idle" => held.uid = u
    <2>1. wpc # "idle" => held.uid <= Actual(ci).uid /\ held.uid \in Nat
      BY <1>2, <1>3, <1>4, Zenon DEF OrderInv, TypeOK, CodeInterpreter
    <2> QED BY <1>2, <1>3, <2>1
  <1> HIDE DEF u
  <1>6. CASE (KeyNext /\ UNCHANGED ctrlVars) \/ User \/ Cluster
    BY <1>3, <1>4, <1>6, OthersSteps, Zenon DEF PoolHasTemplate, u
  <1>7. CASE EnsureSandboxTemplate \/ EnsureSandboxTemplateFails
    <2>1. CASE EnsureSandboxTemplate /\ wpc' = "pool"
      BY <2>1, TemplateMade, Zenon DEF TemplateDone, TemplateFits, StageInv,
                                       EnsureSandboxTemplate, TemplateDue
    <2>2. CASE ~(EnsureSandboxTemplate /\ wpc' = "pool")
      <3>1. pool' = pool /\ missed' = missed
        BY <1>7, <2>2, Zenon DEF EnsureSandboxTemplate, Goes, EnsureSandboxTemplateFails
      <3>2. Exists(Actual(tmpl)) => Exists(Actual(tmpl'))
        BY <1>7, TemplateSteps, Zenon
        DEF EnsureSandboxTemplate, EnsureSandboxTemplateFails, TemplateDue, CollectTemplate,
            DeleteSandboxTemplate, DeleteSandboxTemplateFails, Requeue, Goes
      <3> QED BY <1>3, <3>1, <3>2, Zenon DEF PoolHasTemplate, u
    <2> QED BY <2>1, <2>2
  <1>8. CASE EnsureSandboxWarmPool \/ EnsureSandboxWarmPoolFails
    <2>1. tmpl' = tmpl /\ wpc = "pool" /\ ("template" \in missed => "template" \in missed')
      BY <1>8, Zenon DEF EnsureSandboxWarmPool, EnsureSandboxWarmPoolFails, Decided
    <2> QED BY <1>3, <1>5, <2>1, Zenon DEF StageInv, TemplateSettled, TemplateFits
  <1>9. CASE DeleteSandboxWarmPool
    BY <1>9, PoolMade, Zenon DEF PoolDone, PoolFits, StageInv, DeleteSandboxWarmPool
  <1>10. CASE DeleteSandboxTemplate \/ DeleteSandboxTemplateFails
    <2>1. pool' = pool /\ wpc = "deltemplate" /\ ("pool" \in missed => "pool" \in missed')
      BY <1>10, Zenon DEF DeleteSandboxTemplate, DeleteSandboxTemplateFails, Decided
    <2> QED BY <1>3, <1>5, <2>1, Zenon DEF StageInv, PoolSettled, PoolFits
  <1>11. CASE Reconcile \/ WaitForPublicKey \/ UpdateStatus \/ UpdateStatusFails
    <2>1. tmpl' = tmpl /\ pool' = pool /\ missed' = missed
      BY <1>11 DEF Reconcile, WaitForPublicKey, UpdateStatus, UpdateStatusFails
    <2> QED BY <1>3, <2>1 DEF PoolHasTemplate, u
  <1>12. CASE DeleteSandboxWarmPoolFails
    <2>1. tmpl' = tmpl /\ missed' = missed /\ pool' \in {pool, PoolDeleted}
      BY <1>12, Zenon DEF DeleteSandboxWarmPoolFails
    <2>2. pool' = pool
      <3>1. Actual(Append(pool, NoPool)) = NoPool /\ ~Exists(NoPool)
        BY ActualSteps, EndsTyped, Zenon DEF Exists, NoPool
      <3>2. pool' # Append(pool, NoPool)
        BY <3>1, Zenon
      <3> QED BY <2>1, <3>2 DEF PoolDeleted
    <2> QED BY <1>3, <2>1, <2>2, Zenon DEF PoolHasTemplate, u
  <1>13. CASE Restart
    <2>1. Actual(tmpl') = Actual(tmpl) /\ Actual(pool') = Actual(pool) /\ missed' = missed
      BY <1>13, VersionsEnds, Zenon DEF Restart, TypeOK
    <2> QED BY <1>3, <2>1, Zenon DEF PoolHasTemplate, u
  <1> QED BY <1>6, <1>7, <1>8, <1>9, <1>10, <1>11, <1>12, <1>13 DEF Next, Succeeds, Fails

-----------------------------------------------------------------------------
\* What a step makes of the versions: it delivers some, or appends one.
LEMMA VersionSteps ==
    ASSUME TypeOK, OrderInv, LineInv, Next
    PROVE  /\ Line(ci')
           /\ \/ Actual(ci') = Actual(ci) /\ Versions(ci') \subseteq Versions(ci)
              \/ \E x \in CodeInterpreter :
                    /\ Actual(ci') = x /\ Versions(ci') = Versions(ci) \cup {x}
                    /\ Written(x)
                    /\ x.uid = Actual(ci).uid /\ x.uid # 0 => Later(Actual(ci), x)
  <1>1. CASE ci' = ci
    BY <1>1 DEF LineInv
  <1>2. CASE ci' = <<Actual(ci)>>
    BY <1>2, VersionsEnds, LineEnds DEF LineInv, TypeOK
  <1>3. CASE Stale(ci) /\ ci' = Tail(ci)
    BY <1>3, VersionsTail, LineTail DEF LineInv, TypeOK
  <1>4. ASSUME NEW x \in CodeInterpreter, ci' = Append(ci, x), Written(x)
        PROVE  /\ Line(ci')
               /\ Actual(ci') = x /\ Versions(ci') = Versions(ci) \cup {x}
               /\ x.uid = Actual(ci).uid /\ x.uid # 0 => Later(Actual(ci), x)
    <2>1. /\ edits \in Nat /\ NoCI.uid = 0 /\ Actual(ci) \in CodeInterpreter
          /\ \A v \in Versions(ci) : v.uid \in Nat /\ v.uid <= edits
          /\ Actual(ci) \in Versions(ci)
      BY UidSteps, EndsTyped, Zenon DEF OrderInv, NoCI
    <2>2. \/ x.uid = 0
          \/ \A v \in Versions(ci) : v.uid # x.uid
          \/ Later(Actual(ci), x)
      <3>1. CASE x = NoCI
        BY <2>1, <3>1
      <3>2. CASE x.uid = edits + 1
        BY <2>1, <3>2
      <3>3. CASE /\ x.uid = Actual(ci).uid
                 /\ x.gen = Actual(ci).gen + 1 \/ (Actual(ci) = held /\ x.gen = held.gen /\ x.spec = held.spec)
        BY <2>1, <3>3 DEF Later, CodeInterpreter
      <3> QED BY <1>4, <3>1, <3>2, <3>3, Zenon DEF Written
    <2>3. Line(ci')
      BY <1>4, <2>2, LineAppend DEF LineInv, TypeOK
    <2>4. Actual(ci') = x /\ Versions(ci') = Versions(ci) \cup {x}
      BY <1>4, VersionsAppend DEF TypeOK
    <2> QED BY <2>1, <2>2, <2>3, <2>4
  <1> QED BY <1>1, <1>2, <1>3, <1>4, CodeInterpreterSteps, Zenon

LEMMA LineStep == TypeOK /\ OrderInv /\ LineInv /\ [Next]_vars => LineInv'
  <1> SUFFICES ASSUME TypeOK, OrderInv, LineInv, [Next]_vars PROVE LineInv'
    OBVIOUS
  <1>1. CASE UNCHANGED vars
    BY <1>1, Zenon DEF vars, ctrlVars, LineInv
  <1> SUFFICES ASSUME Next PROVE LineInv'
    BY <1>1
  <1>2. Actual(ci').observed <= Actual(ci').gen
    <2>1. \A c \in CodeInterpreter : c.gen \in Nat /\ c.observed \in Nat
      BY DEF CodeInterpreter
    <2>2. ASSUME NEW x \in CodeInterpreter, Written(x), Actual(ci') = x
          PROVE  x.observed <= x.gen
      BY <2>1, <2>2, EndsTyped DEF Written, LineInv, NoCI
    <2> QED BY <2>2, VersionSteps DEF LineInv
  <1>3. ASSUME wpc' # "idle", held'.uid = Actual(ci').uid, NEW v \in Versions(ci')
        PROVE  Later(held', v)
    <2>1. CASE held' = Cached(ci) /\ Cached(ci) # NoCI /\ ci' = ci
      <3>1. Cached(ci).uid # 0
        BY <2>1, UidSteps DEF OrderInv
      <3> QED BY <1>3, <2>1, <3>1, LineEnds, Zenon DEF LineInv, TypeOK
    <2>2. CASE wpc # "idle" /\ held' = held
      <3>1. held.uid \in Nat /\ held.uid # 0 /\ held.uid <= edits
        BY <2>2 DEF OrderInv, TypeOK, CodeInterpreter
      <3>2. Actual(ci).uid = held.uid
        BY <1>3, <2>2, <3>1, ActualUidSteps
      <3>3. \A w \in Versions(ci) : Later(held, w)
        BY <2>2, <3>2, Zenon DEF LineInv
      <3>4. held \in CodeInterpreter /\ Actual(ci) \in CodeInterpreter /\ Actual(ci) \in Versions(ci)
        BY UidSteps, EndsTyped, Zenon DEF TypeOK
      <3>5. CASE v \in Versions(ci)
        BY <2>2, <3>3, <3>5
      <3>6. ASSUME NEW x \in CodeInterpreter, Actual(ci') = x, v = x,
                   x.uid = Actual(ci).uid /\ x.uid # 0 => Later(Actual(ci), x)
            PROVE  Later(held, v)
        BY <1>3, <2>2, <3>1, <3>2, <3>3, <3>4, <3>6, LaterTransitive
      <3> QED BY <2>2, <3>5, <3>6, VersionSteps
    <2> QED BY <1>3, <2>1, <2>2, CodeInterpreterSteps, Zenon
  <1> QED BY <1>2, <1>3, VersionSteps DEF LineInv

\* The status is written for the last version, when every other is the same,
\* and an edit makes it stale; until then no step works for another spec.
LEMMA ReadyStep ==
    TypeOK /\ KeyInv /\ OrderInv /\ LineInv /\ StageInv /\ ReadyInv /\ [Next]_vars => ReadyInv'
  <1> SUFFICES ASSUME TypeOK, KeyInv, OrderInv, LineInv, StageInv, ReadyInv, [Next]_vars,
                      Actual(ci').uid # 0, Actual(ci').observed = Actual(ci').gen
               PROVE  /\ \A v \in Versions(ci') : SameVersion(v, Actual(ci'))
                      /\ wpc' # "idle" => SameVersion(held', Actual(ci'))
                      /\ TemplateFits(Actual(tmpl'), Believed', Actual(ci').spec) \/ "template" \in missed'
                      /\ PoolFits(Actual(pool'), Actual(ci').spec) \/ "pool" \in missed'
    BY Zenon DEF ReadyInv, TemplateSettled, PoolSettled
  <1>1. CASE UNCHANGED vars
    BY <1>1, Zenon DEF vars, ctrlVars, keyVars, ReadyInv, TemplateSettled, PoolSettled, Believed
  <1>2. CASE Next /\ Actual(ci') = Actual(ci) /\ Versions(ci') \subseteq Versions(ci)
    <2>1. /\ \A v \in Versions(ci) : SameVersion(v, Actual(ci))
          /\ wpc # "idle" => SameVersion(held, Actual(ci))
          /\ TemplateSettled(Actual(ci).spec) /\ PoolSettled(Actual(ci).spec)
      BY <1>2, Zenon DEF ReadyInv
    <2>2. wpc' # "idle" => SameVersion(held', Actual(ci))
      BY <1>2, <2>1, CodeInterpreterSteps, UidSteps, Zenon
    <2>3. wpc # "idle" => held.spec = Actual(ci).spec
      BY <2>1, Zenon DEF SameVersion
    <2>4. Actual(ci) # NoCI
      BY <1>2 DEF NoCI
    <2>5. TemplateFits(Actual(tmpl'), Believed', Actual(ci).spec) \/ "template" \in missed'
      BY <1>2, <2>1, <2>3, <2>4, TemplateKept, Zenon
    <2>6. PoolFits(Actual(pool'), Actual(ci).spec) \/ "pool" \in missed'
      BY <1>2, <2>1, <2>3, <2>4, PoolKept, Zenon
    <2> QED BY <1>2, <2>1, <2>2, <2>5, <2>6, Zenon
  <1>3. ASSUME Next, NEW x \in CodeInterpreter, Written(x),
               Actual(ci') = x, Versions(ci') = Versions(ci) \cup {x}
        PROVE  /\ \A v \in Versions(ci') : SameVersion(v, x)
               /\ wpc' = "idle"
               /\ TemplateFits(Actual(tmpl'), Believed', x.spec) \/ "template" \in missed'
               /\ PoolFits(Actual(pool'), x.spec) \/ "pool" \in missed'
    <2>1. Actual(ci).gen \in Nat /\ Actual(ci).observed \in Nat /\ NoCI.uid = 0
      BY EndsTyped DEF CodeInterpreter, NoCI
    <2>2. ~(x.gen = Actual(ci).gen + 1 /\ x.observed = Actual(ci).observed)
      BY <1>3, <2>1 DEF LineInv
    <2>3. /\ wpc = "status" /\ wpc' = "idle" /\ Actual(ci) = held
          /\ x.uid = held.uid /\ x.gen = held.gen /\ x.spec = held.spec /\ held.uid # 0
          /\ UNCHANGED <<secret, deleted, tmpl, pool, missed>>
      BY <1>3, <2>1, <2>2 DEF Written
    <2>4. ASSUME NEW v \in Versions(ci) PROVE SameVersion(v, x)
      <3>1. Later(held, v)
        BY <2>3 DEF LineInv
      <3>2. Later(v, held)
        BY <2>3, <3>1, LineEnds, Zenon DEF LineInv, TypeOK, Later
      <3>3. v \in CodeInterpreter /\ held \in CodeInterpreter
        BY VersionsEnds, Zenon DEF TypeOK
      <3>4. v.gen \in Nat /\ held.gen \in Nat
        BY <3>3 DEF CodeInterpreter
      <3> QED BY <2>3, <3>1, <3>2, <3>4 DEF Later, SameVersion
    <2>5. TemplateSettled(held.spec) /\ PoolSettled(held.spec)
      BY <2>3, Zenon DEF StageInv
    <2>6. SameVersion(x, x)
      BY DEF SameVersion
    <2>7. Believed' = Believed
      BY <2>3, Zenon DEF Believed
    <2> QED BY <1>3, <2>3, <2>4, <2>5, <2>6, <2>7, Zenon DEF TemplateSettled, PoolSettled
  <1>4. CASE Next
    BY <1>2, <1>3, <1>4, VersionSteps, Zenon
  <1> QED BY <1>1, <1>4, Zenon

-----------------------------------------------------------------------------
\* IInv holds in every reachable state.
THEOREM Invariance == Spec => []IInv
  <1>1. Init => IInv
    BY InvariantInitially
  <1>2. IInv /\ [Next]_vars => IInv'
    BY TypeStep, KeyStep, OrderStep, OwnerStep, LineStep, StageStep, ReadyStep, PoolStep DEF IInv
  <1> QED BY <1>1, <1>2, PTL DEF Spec

\* Every variable keeps its type, however far the informers lag.
THEOREM TypeCorrect == Spec => []TypeOK
  <1>1. IInv => TypeOK
    BY DEF IInv
  <1> QED BY <1>1, Invariance, PTL

\* Every serving router, and the workload manager, holds the key of the Secret,
\* or had it from one that was deleted since (TryStoreOrLoadJWTKeySecret,
\* loadPublicKeyFromSecret), for any number of routers that start, race and
\* stop, and of rotations.
THEOREM OneKey == Spec => []KeysAgree
  <1>1. IInv => KeysAgree
    BY DEF IInv, KeyInv, KeysAgree, IsPublicKeyCached
  <1> QED BY <1>1, Invariance, PTL

\* No template carries another key than the Secret's or that of a deleted one
\* (ensureSandboxTemplate), whichever writes fail or are decided on stale reads.
THEOREM TemplatesBelieved == Spec => []TemplateKey
  <1>1. IInv => TemplateKey
    BY DEF IInv, KeyInv, TemplateKey
  <1> QED BY <1>1, Invariance, PTL

\* A warm pool of the present CodeInterpreter has its template, unless a stale
\* read or a collection is on record (Reconcile), whichever calls fail.
THEOREM TemplateFirst == Spec => []PoolHasTemplate
  <1>1. IInv => PoolHasTemplate
    BY DEF IInv
  <1> QED BY <1>1, Invariance, PTL

\* The Ready condition is true of the generation it names (updateStatus after
\* the calls on the children), whatever the caches show, whichever calls fail
\* and however often users edit, but for what is on record as missed.
THEOREM ReadyTold == Spec => []ReadyInPlace
  <1>1. ASSUME IInv PROVE ReadyInPlace
    <2> SUFFICES ASSUME Actual(ci) # NoCI, Actual(ci).observed = Actual(ci).gen, missed = {}
                 PROVE  InPlace(Actual(ci))
      BY DEF ReadyInPlace
    <2>1. Actual(ci).uid # 0
      BY <1>1, VersionsEnds, Zenon DEF IInv, OrderInv, TypeOK
    <2>2. /\ TemplateFits(Actual(tmpl), Believed, Actual(ci).spec)
          /\ PoolFits(Actual(pool), Actual(ci).spec)
      BY <1>1, <2>1, Zenon DEF IInv, ReadyInv, TemplateSettled, PoolSettled
    <2> QED BY <2>2, Zenon DEF InPlace, TemplateFits, PoolFits
  <1> QED BY <1>1, Invariance, PTL
==============================================================================
