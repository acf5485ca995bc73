------------------------- MODULE RequestPathProofs --------------------------
(***************************************************************************)
(* Proofs about what a request passes on its way to the resource: the      *)
(* authentication preflight (DPoPReplay) and the shadow middleware with    *)
(* its backoff (ShadowEvaluation).  They hold for every number of requests *)
(* and keys, every cache size, every window, skew and grace, and all       *)
(* delays the constructor accepts.                                         *)
(***************************************************************************)
EXTENDS DPoPReplay, ShadowEvaluation, FiniteSetTheorems, WellFoundedInduction,
        TLAPS

-----------------------------------------------------------------------------
(* The preflight.                                                          *)

(* Keys and times of the initial state are well typed.                     *)
LEMMA InitType == Init => TypeOK
BY ReplayAssumption DEF Init, TypeOK, Times

(* A handler that has checked a proof holds it until it is stored, and the *)
(* cache maps replay keys to times.                                        *)
LEMMA NextType == TypeOK /\ [Next]_vars => TypeOK'
<1> SUFFICES ASSUME TypeOK, [Next]_vars PROVE TypeOK'
  OBVIOUS
<1> USE ReplayAssumption DEF TypeOK, Times
<1>1. ASSUME NEW h \in Handlers, NEW r \in Request, Preflight(h, r)
      PROVE  TypeOK'
  <2>1. PICK v \in Verdicts(r) :
          IF v = "store"
          THEN /\ pc' = [pc EXCEPT ![h] = "store"]
               /\ proof' = [proof EXCEPT ![h] = r.proof]
               /\ outcome' = [outcome EXCEPT ![h] = None]
          ELSE /\ outcome' = [outcome EXCEPT ![h] = v]
               /\ UNCHANGED <<pc, proof>>
    BY <1>1 DEF Preflight
  <2>2. v \in {"forward", "reject", "store"}
    BY <2>1 DEF Verdicts, Request, Authorization
  <2>3. v = "store" => r.header = "present"
    BY <2>1 DEF Verdicts, Request, Authorization
  <2>4. v = "store" => r.proof \in Proof
    BY <2>3 DEF Request
  <2> QED
    BY <1>1, <2>1, <2>2, <2>4 DEF Preflight
<1>2. ASSUME NEW h \in Handlers, Store(h) PROVE TypeOK'
  <2> DEFINE p == proof[h]
  <2>1. p.key \in Keys /\ p.iat \in 0..TimeBound /\ p \in Proof
    BY <1>2 DEF Store, Proof
  <2>2. KeptUntil(p.iat) \in 0..(TimeBound + ReplayWindow + Grace)
    BY <2>1 DEF KeptUntil
  <2>3. /\ pc' \in [Handlers -> {"idle", "store"}]
        /\ proof' \in [Handlers -> Proof \union {NoProof}]
        /\ \A g \in Handlers : pc'[g] = "store" => proof'[g] \in Proof
    BY <1>2 DEF Store
  <2>4. CASE Seen(p.key)
    BY <1>2, <2>3, <2>4 DEF Store, Keep, Live
  <2>5. CASE ~Seen(p.key)
    <3>1. PICK gone \in Evictions :
            /\ entries' = [x \in (Live \ gone) \union {p.key} |->
                             IF x = p.key THEN KeptUntil(p.iat)
                             ELSE entries[x]]
            /\ outcome' = [outcome EXCEPT ![h] = "forward"]
            /\ used' = {q \in used : q.key \notin gone} \union {p}
      BY <1>2, <2>5 DEF Store
    <3>2. gone \subseteq Live
      BY DEF Evictions
    <3>3. /\ DOMAIN entries' \subseteq Keys
          /\ \A k \in DOMAIN entries' :
                entries'[k] \in 0..(TimeBound + ReplayWindow + Grace)
      BY <2>1, <2>2, <3>1, <3>2 DEF Live
    <3> QED
      BY <1>2, <2>1, <2>3, <3>1, <3>3 DEF Store
  <2> QED
    BY <2>4, <2>5
<1>3. CASE Cleanup
  BY <1>3 DEF Cleanup, Keep, Live
<1>4. CASE Tick
  BY <1>4 DEF Tick
<1>5. CASE UNCHANGED vars
  BY <1>5 DEF vars
<1> QED
  BY <1>1, <1>2, <1>3, <1>4, <1>5 DEF Next

(* Type correctness of the preflight.                                      *)
THEOREM ReplayTypeCorrect == Spec => []TypeOK
BY InitType, NextType, PTL DEF Spec

-----------------------------------------------------------------------------
(* AcceptedIsRemembered is inductive: an entry leaves the cache only when  *)
(* it has expired or is displaced, and an acceptance writes an entry that  *)
(* lasts as long as its window.                                            *)
LEMMA NextRemembered ==
    TypeOK /\ AcceptedIsRemembered /\ [Next]_vars => AcceptedIsRemembered'
<1> SUFFICES ASSUME TypeOK, AcceptedIsRemembered, [Next]_vars,
                    NEW p \in used', now' < p.iat + ReplayWindow
             PROVE  /\ p.key \in DOMAIN entries'
                    /\ entries'[p.key] = p.iat + ReplayWindow
  BY DEF AcceptedIsRemembered
<1> DEFINE Kept == /\ p.key \in DOMAIN entries'
                   /\ entries'[p.key] = p.iat + ReplayWindow
<1> USE ReplayAssumption DEF TypeOK, Times
<1>1. ASSUME p \in used, now' = now
      PROVE  p.key \in Live /\ entries[p.key] = p.iat + ReplayWindow
  BY <1>1 DEF AcceptedIsRemembered, Live
<1>2. ASSUME NEW h \in Handlers, Store(h) PROVE Kept
  <2>0. proof[h].iat \in 0..TimeBound /\ now' = now
    BY <1>2 DEF Store, Proof
  <2>1. CASE Seen(proof[h].key)
    <3>1. entries' = Keep(Live) /\ used' = used
      BY <1>2, <2>1 DEF Store
    <3> QED
      BY <1>1, <2>0, <3>1 DEF Keep
  <2>2. CASE ~Seen(proof[h].key)
    <3>1. PICK gone \in Evictions :
            /\ entries' = [x \in (Live \ gone) \union {proof[h].key} |->
                             IF x = proof[h].key
                             THEN KeptUntil(proof[h].iat) ELSE entries[x]]
            /\ used' = {q \in used : q.key \notin gone} \union {proof[h]}
      BY <1>2, <2>2 DEF Store
    <3>2. CASE p = proof[h]
      <4>1. KeptUntil(p.iat) = p.iat + ReplayWindow
        BY <2>0, <3>2 DEF KeptUntil
      <4> QED
        BY <3>1, <3>2, <4>1
    <3>3. CASE p # proof[h]
      <4>1. p \in used /\ p.key \notin gone
        BY <3>1, <3>3
      <4>2. p.key \in Live /\ entries[p.key] = p.iat + ReplayWindow
        BY <1>1, <2>0, <4>1
      <4>3. p.key # proof[h].key
        BY <2>2, <4>2 DEF Seen
      <4> QED
        BY <3>1, <4>1, <4>2, <4>3
    <3> QED
      BY <3>2, <3>3
  <2> QED
    BY <2>1, <2>2
<1>3. CASE Cleanup
  BY <1>1, <1>3 DEF Cleanup, Keep
<1>4. CASE Tick
  <2>1. p \in used /\ p.iat \in 0..TimeBound /\ now < p.iat + ReplayWindow
    BY <1>4 DEF Tick, Proof
  <2> QED
    BY <1>4, <2>1 DEF Tick, AcceptedIsRemembered
<1>5. CASE \E h \in Handlers, r \in Request : Preflight(h, r)
  BY <1>5 DEF Preflight, AcceptedIsRemembered
<1>6. CASE UNCHANGED vars
  BY <1>6 DEF vars, AcceptedIsRemembered
<1> QED
  BY <1>2, <1>3, <1>4, <1>5, <1>6 DEF Next

(* Until its window has passed, an accepted proof is in the cache unless a *)
(* full cache displaced it.                                                *)
THEOREM AcceptedProofsRemembered == Spec => []AcceptedIsRemembered
<1>1. Init => AcceptedIsRemembered
  BY DEF Init, AcceptedIsRemembered
<1> QED
  BY <1>1, ReplayTypeCorrect, NextRemembered, PTL DEF Spec

(* So a proof that was not displaced is accepted again only when its       *)
(* replay window has passed.                                               *)
THEOREM ProofReusedPastWindow == Spec => ReuseOnlyPastWindow
<1>1. ASSUME TypeOK, AcceptedIsRemembered, Next,
             NEW h \in Handlers, Accepts(h), proof[h] \in used
      PROVE  now >= proof[h].iat + ReplayWindow
  <2> USE ReplayAssumption DEF TypeOK, Times
  <2>0. proof[h].iat \in 0..TimeBound /\ now \in Nat
    BY <1>1 DEF Proof
  <2> SUFFICES ASSUME now < proof[h].iat + ReplayWindow PROVE FALSE
    BY <2>0
  <2>1. pc[h] = "store"
    BY <1>1 DEF Accepts
  <2>2. Seen(proof[h].key)
    BY <1>1, <2>0 DEF AcceptedIsRemembered, Seen, Live
  <2>3. ASSUME NEW g \in Handlers, Store(g) PROVE FALSE
    <3>1. g = h
      BY <1>1, <2>1, <2>3 DEF Store, Accepts
    <3>2. outcome' = [outcome EXCEPT ![h] = "reject"]
      BY <2>2, <2>3, <3>1 DEF Store
    <3>3. outcome'[h] = "reject"
      BY <1>1, <3>2
    <3> QED
      BY <1>1, <3>3 DEF Accepts
  <2>4. ASSUME NEW g \in Handlers, NEW r \in Request, Preflight(g, r)
        PROVE  FALSE
    BY <1>1, <2>1, <2>4 DEF Preflight, Accepts
  <2> QED
    BY <1>1, <2>1, <2>3, <2>4 DEF Next, Cleanup, Tick, Accepts
<1>2. TypeOK /\ AcceptedIsRemembered /\ [Next]_vars
        => [\A h \in Handlers :
               Accepts(h) /\ proof[h] \in used =>
                   now >= proof[h].iat + ReplayWindow]_vars
  BY <1>1
<1> QED
  BY <1>2, ReplayTypeCorrect, AcceptedProofsRemembered, PTL
  DEF Spec, ReuseOnlyPastWindow

-----------------------------------------------------------------------------
(* The size of the cache.                                                  *)
SizeInv == IsFiniteSet(DOMAIN entries) /\ CacheBounded

(* Dropping entries keeps the bound.                                       *)
LEMMA KeepBounded ==
    ASSUME SizeInv, NEW K, K \subseteq DOMAIN entries
    PROVE  IsFiniteSet(K) /\ Cardinality(K) <= MaxEntries
<1>1. IsFiniteSet(K) /\ Cardinality(K) <= Cardinality(DOMAIN entries)
  BY FS_Subset DEF SizeInv
<1>2. Cardinality(K) \in Nat /\ Cardinality(DOMAIN entries) \in Nat
  BY <1>1, FS_CardinalityType DEF SizeInv
<1> QED
  BY <1>1, <1>2, ReplayAssumption DEF SizeInv, CacheBounded

(* At the limit at least one entry makes room for a new one.               *)
LEMMA RoomForOne ==
    ASSUME SizeInv, NEW gone \in Evictions
    PROVE  IsFiniteSet(Live \ gone) /\ Cardinality(Live \ gone) < MaxEntries
<1>1. Live \subseteq DOMAIN entries
  BY DEF Live
<1>2. IsFiniteSet(Live) /\ Cardinality(Live) <= MaxEntries
  BY <1>1, KeepBounded
<1>3. Cardinality(Live) \in Nat
  BY <1>2, FS_CardinalityType
<1>4. CASE Cardinality(Live) < MaxEntries
  <2>1. gone = {} /\ Live \ gone = Live
    BY <1>4 DEF Evictions
  <2> QED
    BY <1>2, <1>4, <2>1
<1>5. CASE ~(Cardinality(Live) < MaxEntries)
  <2>1. gone \subseteq Live /\ Cardinality(gone) = NumToEvict
    BY <1>5 DEF Evictions
  <2>2. NumToEvict \in Nat /\ NumToEvict > 0
    BY ReplayAssumption DEF NumToEvict
  <2>3. /\ IsFiniteSet(Live \ gone)
        /\ Cardinality(Live \ gone)
             = Cardinality(Live) - Cardinality(Live \cap gone)
    BY <1>2, FS_Difference
  <2>4. Live \cap gone = gone
    BY <2>1
  <2>5. Cardinality(Live \ gone) = Cardinality(Live) - NumToEvict
    BY <2>1, <2>3, <2>4
  <2>6. Cardinality(Live \ gone) < MaxEntries
    BY <1>2, <1>3, <2>2, <2>5, ReplayAssumption
  <2> QED
    BY <2>3, <2>6
<1> QED
  BY <1>4, <1>5

(* Store and Cleanup keep the cache finite and within its limit.           *)
LEMMA NextBounded == SizeInv /\ [Next]_vars => SizeInv'
<1> SUFFICES ASSUME SizeInv, [Next]_vars PROVE SizeInv'
  OBVIOUS
<1>0. Live \subseteq DOMAIN entries
  BY DEF Live
<1>1. ASSUME entries' = Keep(Live) PROVE SizeInv'
  <2>1. DOMAIN entries' = Live
    BY <1>1 DEF Keep
  <2> QED
    BY <1>0, <2>1, KeepBounded DEF SizeInv, CacheBounded
<1>2. ASSUME NEW h \in Handlers, Store(h) PROVE SizeInv'
  <2> DEFINE k == proof[h].key
  <2>1. CASE Seen(k)
    BY <1>1, <1>2, <2>1 DEF Store
  <2>2. CASE ~Seen(k)
    <3>1. PICK gone \in Evictions :
            entries' = [x \in (Live \ gone) \union {k} |->
                          IF x = k THEN KeptUntil(proof[h].iat)
                          ELSE entries[x]]
      BY <1>2, <2>2 DEF Store
    <3>2. DOMAIN entries' = (Live \ gone) \union {k}
      BY <3>1
    <3>3. IsFiniteSet(Live \ gone) /\ Cardinality(Live \ gone) < MaxEntries
      BY RoomForOne
    <3>4. k \notin Live \ gone
      BY <2>2 DEF Seen
    <3>5. /\ IsFiniteSet((Live \ gone) \union {k})
          /\ Cardinality((Live \ gone) \union {k})
               = Cardinality(Live \ gone) + 1
      BY <3>3, <3>4, FS_AddElement
    <3>6. Cardinality(Live \ gone) \in Nat
      BY <3>3, FS_CardinalityType
    <3> QED
      BY <3>2, <3>3, <3>5, <3>6, ReplayAssumption DEF SizeInv, CacheBounded
  <2> QED
    BY <2>1, <2>2
<1>3. CASE Cleanup
  BY <1>1, <1>3 DEF Cleanup
<1>4. CASE UNCHANGED entries
  BY <1>4 DEF SizeInv, CacheBounded
<1> QED
  BY <1>2, <1>3, <1>4 DEF Next, Preflight, Tick, vars

(* The replay cache never holds more than MaxEntries proofs.               *)
THEOREM ReplayCacheBounded == Spec => []CacheBounded
<1>1. Init => SizeInv
  <2> SUFFICES ASSUME Init PROVE SizeInv
    OBVIOUS
  <2>1. DOMAIN entries = {}
    BY DEF Init
  <2>2. IsFiniteSet({}) /\ Cardinality({}) = 0
    BY FS_EmptySet
  <2> QED
    BY <2>1, <2>2, ReplayAssumption DEF SizeInv, CacheBounded
<1>2. SizeInv => CacheBounded
  BY DEF SizeInv
<1> QED
  BY <1>1, <1>2, NextBounded, PTL DEF Spec

-----------------------------------------------------------------------------
(* The backoff.                                                            *)

(* A nonempty set of naturals has a least element.                         *)
LEMMA LeastNumber ==
    ASSUME NEW X \in SUBSET Nat, X # {}
    PROVE  \E n \in X : \A m \in X : n <= m
<1> DEFINE R == OpToRel(<, Nat)
<1>1. \A a, b \in Nat : <<a, b>> \in R <=> a < b
  BY DEF OpToRel
<1>2. IsWellFoundedOn(R, Nat)
  BY NatLessThanWellFounded
<1> HIDE DEF R
<1>3. PICK n \in X : \A m \in X : ~(<<m, n>> \in R)
  BY <1>2, WFMin
<1>4. \A m \in X : ~(m < n)
  BY <1>1, <1>3, Zenon
<1> QED
  BY <1>4

(* g doubles the base delay n times, one value after the other.            *)
Doubles(g, n) ==
    /\ g \in [0..n -> Nat]
    /\ \A i \in 0..n : g[i] = IF i = 0 THEN BaseDelay ELSE 2 * g[i - 1]

(* Doubling n times is possible for every n: one for which it were not     *)
(* could not be the least.                                                 *)
LEMMA DoublingExists == \A n \in Nat : \E g : Doubles(g, n)
<1> SUFFICES ASSUME NEW o \in Nat, ~\E g : Doubles(g, o) PROVE FALSE
  OBVIOUS
<1> DEFINE X == {n \in Nat : ~\E g : Doubles(g, n)}
<1>1. PICK n \in X : \A m \in X : n <= m
  <2>1. X \in SUBSET Nat /\ X # {}
    OBVIOUS
  <2> HIDE DEF X
  <2> QED
    BY <2>1, LeastNumber
<1>2. CASE n = 0
  <2>1. Doubles([i \in 0..n |-> BaseDelay], n)
    BY <1>2, DelaysOrdered DEF Doubles
  <2> QED
    BY <2>1
<1>3. CASE n # 0
  <2>1. n - 1 \in Nat /\ n - 1 \notin X
    BY <1>1, <1>3
  <2>2. PICK g : Doubles(g, n - 1)
    BY <2>1
  <2> DEFINE h == [i \in 0..n |-> IF i = n THEN 2 * g[n - 1] ELSE g[i]]
  <2>3. g \in [0..n - 1 -> Nat]
    BY <2>2 DEF Doubles
  <2>4. h \in [0..n -> Nat]
    BY <1>3, <2>1, <2>3
  <2>5. ASSUME NEW i \in 0..n
        PROVE  h[i] = IF i = 0 THEN BaseDelay ELSE 2 * h[i - 1]
    <3>1. CASE i = n
      BY <1>3, <2>1, <3>1
    <3>2. CASE i # n
      <4>1. i \in 0..n - 1 /\ h[i] = g[i] /\ (i # 0 => h[i - 1] = g[i - 1])
        BY <2>1, <3>2
      <4> QED
        BY <2>2, <4>1 DEF Doubles
    <3> QED
      BY <3>1, <3>2
  <2> HIDE DEF h
  <2> QED
    BY <2>4, <2>5 DEF Doubles
<1> QED
  BY <1>2, <1>3

(* However far it goes on, doubling gives the same values.                 *)
LEMMA DoublingUnique ==
    ASSUME NEW n \in Nat, NEW m \in Nat, NEW g, NEW h,
           Doubles(g, n), Doubles(h, m), NEW i \in Nat, i <= n, i <= m
    PROVE  g[i] = h[i]
<1> DEFINE X == {k \in Nat : k <= n /\ k <= m /\ g[k] # h[k]}
<1> SUFFICES ASSUME X # {} PROVE FALSE
  OBVIOUS
<1>1. PICK k \in X : \A l \in X : k <= l
  <2>1. X \in SUBSET Nat /\ X # {}
    OBVIOUS
  <2> HIDE DEF X
  <2> QED
    BY <2>1, LeastNumber
<1>2. k \in 0..n /\ k \in 0..m
  BY <1>1
<1>3. CASE k = 0
  BY <1>1, <1>2, <1>3 DEF Doubles
<1>4. CASE k # 0
  <2>1. k - 1 \in Nat /\ k - 1 \notin X /\ k - 1 <= n /\ k - 1 <= m
    BY <1>1, <1>2, <1>4
  <2>2. g[k - 1] = h[k - 1]
    BY <2>1
  <2>3. g[k] = 2 * g[k - 1] /\ h[k] = 2 * h[k - 1]
    BY <1>2, <1>4 DEF Doubles
  <2> QED
    BY <1>1, <2>2, <2>3
<1> QED
  BY <1>3, <1>4

(* So the delay of delayForFailuresLocked is what its loop computes.       *)
LEMMA DoubledStep ==
    /\ Doubled \in [Nat -> Nat]
    /\ Doubled[0] = BaseDelay
    /\ \A n \in Nat : Doubled[n + 1] = 2 * Doubled[n]
<1> DEFINE G(n) == CHOOSE g : Doubles(g, n)
           D == [n \in Nat |-> G(n)[n]]
<1>1. \A n \in Nat : Doubles(G(n), n)
  BY DoublingExists
<1> HIDE DEF G
<1>2. ASSUME NEW n \in Nat
      PROVE  D[n] = IF n = 0 THEN BaseDelay ELSE 2 * D[n - 1]
  <2>1. n \in 0..n
    OBVIOUS
  <2>2. CASE n = 0
    BY <1>1, <2>1, <2>2 DEF Doubles
  <2>3. CASE n # 0
    <3>1. n - 1 \in Nat /\ n - 1 <= n
      BY <2>3
    <3>2. G(n)[n - 1] = G(n - 1)[n - 1]
      BY <1>1, <3>1, DoublingUnique
    <3>3. G(n)[n] = 2 * G(n)[n - 1]
      BY <1>1, <2>1, <2>3 DEF Doubles
    <3> QED
      BY <2>3, <3>1, <3>2, <3>3
  <2> QED
    BY <2>2, <2>3
<1>3. D = [n \in Nat |-> IF n = 0 THEN BaseDelay ELSE 2 * D[n - 1]]
  BY <1>2
<1>4. D \in [Nat -> Nat]
  <2>1. ASSUME NEW n \in Nat PROVE G(n)[n] \in Nat
    <3>1. n \in 0..n /\ G(n) \in [0..n -> Nat]
      BY <1>1 DEF Doubles
    <3> QED
      BY <3>1
  <2> QED
    BY <2>1
<1> HIDE DEF D
<1>5. Doubled = [n \in Nat |-> IF n = 0 THEN BaseDelay
                                 ELSE 2 * Doubled[n - 1]]
  BY <1>3 DEF Doubled
<1>6. ASSUME NEW n \in Nat PROVE Doubled[n] \in Nat
  <2> DEFINE X == {k \in Nat : Doubled[k] \notin Nat}
  <2> SUFFICES ASSUME X # {} PROVE FALSE
    OBVIOUS
  <2>1. PICK k \in X : \A l \in X : k <= l
    <3>1. X \in SUBSET Nat /\ X # {}
      OBVIOUS
    <3> HIDE DEF X
    <3> QED
      BY <3>1, LeastNumber
  <2>2. CASE k = 0
    BY <1>5, <2>1, <2>2, DelaysOrdered
  <2>3. CASE k # 0
    <3>1. k - 1 \in Nat /\ k - 1 \notin X
      BY <2>1, <2>3
    <3>2. Doubled[k - 1] \in Nat
      BY <3>1
    <3>3. Doubled[k] = 2 * Doubled[k - 1]
      BY <1>5, <2>1, <2>3
    <3> QED
      BY <2>1, <3>2, <3>3
  <2> QED
    BY <2>2, <2>3
<1>7. Doubled \in [Nat -> Nat]
  BY <1>5, <1>6
<1>8. ASSUME NEW n \in Nat PROVE Doubled[n + 1] = 2 * Doubled[n]
  <2>1. n + 1 \in Nat /\ n + 1 # 0 /\ (n + 1) - 1 = n
    OBVIOUS
  <2> QED
    BY <1>5, <2>1
<1> QED
  BY <1>5, <1>7, <1>8

(* Doubling starts at the base delay and never goes down.                  *)
LEMMA DoubledGrows ==
    ASSUME NEW m \in Nat, NEW n \in Nat, m <= n
    PROVE  BaseDelay <= Doubled[m] /\ Doubled[m] <= Doubled[n]
<1> DEFINE X == {k \in Nat : m <= k /\ ~(Doubled[m] <= Doubled[k])}
           Y == {k \in Nat : ~(BaseDelay <= Doubled[k])}
<1>1. ASSUME X # {} PROVE FALSE
  <2>1. PICK k \in X : \A l \in X : k <= l
    <3>1. X \in SUBSET Nat /\ X # {}
      BY <1>1
    <3> HIDE DEF X
    <3> QED
      BY <3>1, LeastNumber
  <2>2. k # m
    BY <2>1, DoubledStep
  <2>3. k - 1 \in Nat /\ k - 1 \notin X /\ m <= k - 1 /\ (k - 1) + 1 = k
    BY <2>1, <2>2
  <2>4. Doubled[k] = 2 * Doubled[k - 1]
    BY <2>3, DoubledStep
  <2>5. Doubled[m] <= Doubled[k - 1]
    BY <2>3
  <2>6. Doubled[m] \in Nat /\ Doubled[k - 1] \in Nat
    BY <2>3, DoubledStep
  <2> QED
    BY <2>1, <2>4, <2>5, <2>6
<1>2. ASSUME Y # {} PROVE FALSE
  <2>1. PICK k \in Y : \A l \in Y : k <= l
    <3>1. Y \in SUBSET Nat /\ Y # {}
      BY <1>2
    <3> HIDE DEF Y
    <3> QED
      BY <3>1, LeastNumber
  <2>2. k # 0
    BY <2>1, DoubledStep, DelaysOrdered
  <2>3. k - 1 \in Nat /\ k - 1 \notin Y /\ (k - 1) + 1 = k
    BY <2>1, <2>2
  <2>4. Doubled[k] = 2 * Doubled[k - 1] /\ Doubled[k - 1] \in Nat
    BY <2>3, DoubledStep
  <2> QED
    BY <2>1, <2>3, <2>4, DelaysOrdered
<1> QED
  BY <1>1, <1>2

(* The delay lies between the two configured ones, grows with the number   *)
(* of failures, and is the doubled one but for the rounding of MaxDelay/2. *)
LEMMA DelayRange ==
    ASSUME NEW f \in Nat \ {0}
    PROVE  /\ Delay(f) \in Nat
           /\ BaseDelay <= Delay(f) /\ Delay(f) <= MaxDelay
           /\ f < Saturated => Delay(f) <= Doubled[f - 1] + 1
<1> DEFINE s == f - 1
<1>0. s \in Nat /\ Doubled[s] \in Nat /\ BaseDelay <= Doubled[s]
  BY DoubledStep, DoubledGrows
<1>1. \/ Delay(f) = Doubled[s] /\ Doubled[s] <= MaxDelay
      \/ Delay(f) = MaxDelay
  BY <1>0, DelaysOrdered DEF Delay
<1>2. ASSUME f < Saturated, Delay(f) # Doubled[s]
      PROVE  MaxDelay <= Doubled[s] + 1
  <2>1. (\E i \in 0..s - 1 : Doubled[i] >= MaxDelay \div 2)
          \/ Doubled[s] > MaxDelay
    BY <1>2 DEF Delay, Saturated
  <2>2. ASSUME NEW i \in 0..s - 1, Doubled[i] >= MaxDelay \div 2
        PROVE  MaxDelay <= Doubled[s] + 1
    <3>1. i \in Nat /\ i + 1 \in Nat /\ i + 1 <= s
      BY <1>0
    <3>2. Doubled[i + 1] = 2 * Doubled[i] /\ Doubled[i] \in Nat
      BY <3>1, DoubledStep
    <3>3. Doubled[i + 1] <= Doubled[s]
      BY <1>0, <3>1, DoubledGrows
    <3>4. MaxDelay <= 2 * (MaxDelay \div 2) + 1 /\ MaxDelay \div 2 \in Nat
      BY DelaysOrdered
    <3> HIDE DEF s
    <3> QED
      BY <1>0, <2>2, <3>2, <3>3, <3>4, DelaysOrdered
  <2> QED
    BY <1>0, <2>1, <2>2, DelaysOrdered
<1> QED
  BY <1>0, <1>1, <1>2, DelaysOrdered

(* A failure more never makes the delay shorter: a delay that has not      *)
(* reached the maximum has not taken any of the loop's early returns, and  *)
(* neither has a shorter loop.                                             *)
LEMMA DelayGrows ==
    ASSUME NEW f \in Nat \ {0}, NEW g \in Nat \ {0}, f <= g
    PROVE  Delay(f) <= Delay(g)
<1>0. /\ Delay(f) \in Nat /\ Delay(g) \in Nat
      /\ Delay(f) <= MaxDelay
  BY DelayRange
<1>1. CASE Delay(g) = MaxDelay
  BY <1>0, <1>1
<1>2. CASE Delay(g) # MaxDelay
  <2>1. /\ Delay(g) = Doubled[g - 1] /\ ~(g - 1 > 30)
        /\ ~(Doubled[g - 1] > MaxDelay)
        /\ \A i \in 0..(g - 1) - 1 : ~(Doubled[i] >= MaxDelay \div 2)
    BY <1>2 DEF Delay
  <2>2. f - 1 \in Nat /\ g - 1 \in Nat /\ f - 1 <= g - 1
    OBVIOUS
  <2>3. /\ Doubled[f - 1] <= Doubled[g - 1]
        /\ Doubled[f - 1] \in Nat /\ Doubled[g - 1] \in Nat
    BY <2>2, DoubledStep, DoubledGrows
  <2>4. /\ ~(f - 1 > 30) /\ ~(Doubled[f - 1] > MaxDelay)
        /\ \A i \in 0..(f - 1) - 1 : ~(Doubled[i] >= MaxDelay \div 2)
    BY <2>1, <2>2, <2>3, DelaysOrdered
  <2>5. Delay(f) = Doubled[f - 1]
    BY <2>4 DEF Delay
  <2> QED
    BY <2>1, <2>3, <2>5
<1> QED
  BY <1>1, <1>2

-----------------------------------------------------------------------------
(* Where a handler of the shadow middleware may stand.                     *)
Places == {"idle", "attempt", "evaluating", "failed", "succeeded", "fallback",
           "next"}

(* The time left is never more than the delay of the failures counted so   *)
(* far.  BackoffFollowsFailures alone is not inductive: past 31 failures   *)
(* it bounds nothing.                                                      *)
BackoffInv ==
    /\ failures \in 0..Saturated
    /\ wait \in Nat
    /\ at \in [Requests -> Places]
    /\ wait > 0 => failures > 0
    /\ failures > 0 => wait <= Delay(failures)

(* recordFailure counts, up to the limit of the counter, and sets the      *)
(* delay of the new count.                                                 *)
LEMMA CountedFailure ==
    ASSUME failures \in 0..Saturated, NEW h \in Requests, RecordFailure(h)
    PROVE  /\ failures' \in 1..Saturated
           /\ failures <= failures'
           /\ wait' = Delay(failures')
<1> DEFINE f == IF failures < Saturated THEN failures + 1 ELSE Saturated
<1>1. Min({failures + 1, Saturated}) = f
  BY DEF Min, Saturated
<1>2. failures' = Min({failures + 1, Saturated})
      /\ wait' = Delay(failures')
  BY DEF RecordFailure
<1> QED
  BY <1>1, <1>2 DEF Saturated

(* A failure sets the delay of its count, a success clears both, and time  *)
(* only shortens the wait, whichever handlers are inside the command.      *)
LEMMA NextBackoff == BackoffInv /\ [ShadowNext]_shadowVars => BackoffInv'
<1> SUFFICES ASSUME BackoffInv, [ShadowNext]_shadowVars PROVE BackoffInv'
  OBVIOUS
<1> USE DEF BackoffInv
<1>1. ASSUME NEW h \in Requests, RecordFailure(h) PROVE BackoffInv'
  <2>1. failures' \in 1..Saturated /\ wait' = Delay(failures')
    BY <1>1, CountedFailure
  <2>2. failures' \in Nat \ {0} /\ failures' \in 0..Saturated
    BY <2>1 DEF Saturated
  <2>3. wait' \in Nat
    BY <2>1, <2>2, DelayRange
  <2>4. at' \in [Requests -> Places]
    BY <1>1 DEF RecordFailure, Goto, Places
  <2> QED
    BY <2>1, <2>2, <2>3, <2>4
<1>2. ASSUME NEW h \in Requests, RecordSuccess(h) PROVE BackoffInv'
  <2>1. failures' = 0 /\ wait' = 0
    BY <1>2 DEF RecordSuccess
  <2>2. at' \in [Requests -> Places]
    BY <1>2 DEF RecordSuccess, Goto, Places
  <2> QED
    BY <2>1, <2>2 DEF Saturated
<1>3. CASE TimePasses
  <2>1. /\ wait > 0 /\ wait' = wait - 1 /\ failures' = failures /\ at' = at
    BY <1>3 DEF TimePasses
  <2>2. failures > 0 /\ failures \in Nat \ {0}
    BY <2>1 DEF Saturated
  <2>3. Delay(failures) \in Nat
    BY <2>2, DelayRange
  <2> QED
    BY <2>1, <2>2, <2>3
<1>4. ASSUME UNCHANGED <<failures, wait>>, at' \in [Requests -> Places]
      PROVE  BackoffInv'
  BY <1>4
<1>5. ASSUME NEW h \in Requests,
             Arrive(h) \/ AllowAttempt(h) \/ Evaluated(h)
               \/ Fallback(h) \/ Serve(h) \/ Cancel(h)
      PROVE  BackoffInv'
  <2>1. UNCHANGED <<failures, wait>>
    BY <1>5 DEF Arrive, AllowAttempt, Evaluated, Fallback, Serve,
                Cancel
  <2>2. at' \in [Requests -> Places]
    BY <1>5 DEF Arrive, AllowAttempt, Evaluated, Fallback, Serve,
                Cancel, Goto, Places
  <2> QED
    BY <1>4, <2>1, <2>2
<1>6. CASE Health \/ UNCHANGED shadowVars
  BY <1>4, <1>6 DEF Health, shadowVars
<1> QED
  BY <1>1, <1>2, <1>3, <1>5, <1>6 DEF ShadowNext, Step

(* In every interleaving of handlers the wait fits the failures counted.   *)
THEOREM BackoffInvariant == ShadowSpec => []BackoffInv
<1>1. ShadowInit => BackoffInv
  BY DEF ShadowInit, BackoffInv, Places, Saturated
<1> QED
  BY <1>1, NextBackoff, PTL DEF ShadowSpec

(* So nobody waits without a failure, nor longer than the base delay       *)
(* doubled once per further failure.                                       *)
THEOREM BackoffCounted == ShadowSpec => []BackoffFollowsFailures
<1>1. BackoffInv => BackoffFollowsFailures
  <2> SUFFICES ASSUME BackoffInv, failures \in 1..Saturated - 1
               PROVE  wait <= Doubled[failures - 1] + 1
    BY DEF BackoffInv, BackoffFollowsFailures
  <2>1. /\ failures \in Nat \ {0} /\ failures < Saturated
        /\ failures - 1 \in Nat
    BY DEF Saturated
  <2>2. /\ Delay(failures) \in Nat
        /\ Delay(failures) <= Doubled[failures - 1] + 1
    BY <2>1, DelayRange
  <2>3. Doubled[failures - 1] \in Nat
    BY <2>1, DoubledStep
  <2> QED
    BY <2>1, <2>2, <2>3 DEF BackoffInv
<1> QED
  BY <1>1, BackoffInvariant, PTL

(* A failure that a handler records while others have the evaluator in     *)
(* backoff never shortens the backoff: the delay grows with the count.     *)
THEOREM BackoffNotShortened == ShadowSpec => FailureNeverShortensBackoff
<1>1. ASSUME BackoffInv, ShadowNext, NEW h \in Requests,
             at[h] = "failed", at'[h] = "fallback"
      PROVE  wait' >= wait /\ wait' >= BaseDelay
  <2>1. RecordFailure(h)
    BY <1>1 DEF BackoffInv, ShadowNext, Step, Arrive, AllowAttempt,
                Evaluated, RecordFailure, RecordSuccess, Fallback,
                Serve, Cancel, Health, TimePasses, Goto
  <2>2. /\ failures' \in 1..Saturated /\ failures <= failures'
        /\ wait' = Delay(failures')
    BY <1>1, <2>1, CountedFailure DEF BackoffInv
  <2>3. failures' \in Nat \ {0}
    BY <2>2 DEF Saturated
  <2>4. wait' \in Nat /\ wait' >= BaseDelay
    BY <2>2, <2>3, DelayRange, DelaysOrdered
  <2>5. CASE failures = 0
    BY <1>1, <2>4, <2>5 DEF BackoffInv
  <2>6. CASE failures # 0
    <3>1. failures \in Nat \ {0} /\ wait <= Delay(failures) /\ wait \in Nat
      BY <1>1, <2>6 DEF BackoffInv, Saturated
    <3>2. Delay(failures) <= Delay(failures') /\ Delay(failures) \in Nat
      BY <2>2, <2>3, <3>1, DelayGrows, DelayRange
    <3> QED
      BY <2>2, <2>4, <3>1, <3>2
  <2> QED
    BY <2>5, <2>6
<1>2. BackoffInv /\ [ShadowNext]_shadowVars
        => [\A h \in Requests :
              (at[h] = "failed" /\ at'[h] = "fallback") =>
                /\ wait' >= wait
                /\ wait' >= BaseDelay]_shadowVars
  BY <1>1
<1> QED
  BY <1>2, BackoffInvariant, PTL DEF ShadowSpec, FailureNeverShortensBackoff
=============================================================================
