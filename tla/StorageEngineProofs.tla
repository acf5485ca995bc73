------------------------- MODULE StorageEngineProofs -------------------------
(* Proofs about StorageEngine, for any clients, any finite set of            *)
(* resources, any bodies and sizes and any quota.                            *)
EXTENDS StorageEngine, FiniteSetTheorems, TLAPS

-----------------------------------------------------------------------------
(* Sums over the resources. The fold of QuotaCovers takes the resources in   *)
(* an order CHOOSE determines; the lemmas say what such a sum is, and how    *)
(* changing one summand changes it. Induction goes by a least counterexample.*)

Weights == [URIs -> Nat]

Pick(S) == CHOOSE u \in S : TRUE

IsSum(f, w) ==
    f = [S \in SUBSET URIs |->
           IF S = {} THEN 0 ELSE f[S \ {Pick(S)}] + w[Pick(S)]]

SumOf(w) == CHOOSE f : IsSum(f, w)

Total(w) == SumOf(w)[URIs]

(* A nonempty set of naturals has a least element.                           *)
LEMMA LeastNatural ==
    ASSUME NEW X \in SUBSET Nat, X # {}
    PROVE  \E n \in X : \A m \in X : n <= m
<1> DEFINE R == OpToRel(<, Nat)
<1>1. IsWellFoundedOn(R, Nat)
  BY NatLessThanWellFounded
<1>2. \A a, b \in Nat : <<a, b>> \in R <=> a < b
  BY DEF OpToRel
<1> HIDE DEF R
<1>3. \E n \in X : \A m \in X : ~(<<m, n>> \in R)
  BY <1>1, WFMin
<1>4. PICK n \in X : \A m \in X : ~(<<m, n>> \in R)
  BY <1>3
<1>5. ASSUME NEW m \in X PROVE n <= m
  <2>1. ~(m < n)
    BY <1>2, <1>4, Zenon
  <2> QED
    BY <2>1
<1> QED
  BY <1>5

(* Sets of resources are finite, and one without an element is smaller.      *)
LEMMA Sizes ==
    /\ Cardinality(URIs) \in Nat
    /\ \A S \in SUBSET URIs :
          /\ Cardinality(S) \in Nat /\ Cardinality(S) <= Cardinality(URIs)
          /\ Cardinality(S) = 0 <=> S = {}
          /\ \A u \in S : Cardinality(S \ {u}) = Cardinality(S) - 1
BY StorageAssumption, FS_Subset, FS_CardinalityType, FS_EmptySet,
   FS_RemoveElement

(* Induction over sets of resources: there is no counterexample B when the   *)
(* empty set is none, and a set is none that is none without its pick.       *)
LEMMA SetInduction ==
    ASSUME NEW B \in SUBSET SUBSET URIs, {} \notin B,
           \A S \in SUBSET URIs :
              S # {} /\ S \ {Pick(S)} \notin B => S \notin B
    PROVE  B = {}
<1> SUFFICES ASSUME B # {} PROVE FALSE
  OBVIOUS
<1> DEFINE X == {Cardinality(S) : S \in B}
<1>1. X \in SUBSET Nat /\ X # {}
  BY Sizes
<1>2. PICK n \in X : \A m \in X : n <= m
  BY <1>1, LeastNatural
<1>3. PICK S \in B : n = Cardinality(S)
  OBVIOUS
<1>4. S # {} /\ Pick(S) \in S
  BY DEF Pick
<1>5. Cardinality(S \ {Pick(S)}) < n /\ S \ {Pick(S)} \in SUBSET URIs
  BY <1>3, <1>4, Sizes
<1>6. S \ {Pick(S)} \notin B
  <2> SUFFICES ASSUME S \ {Pick(S)} \in B PROVE FALSE
    OBVIOUS
  <2>1. Cardinality(S \ {Pick(S)}) \in X
    OBVIOUS
  <2>2. n <= Cardinality(S \ {Pick(S)})
    BY <1>2, <2>1
  <2>3. n \in Nat /\ Cardinality(S \ {Pick(S)}) \in Nat
    BY <1>1, <1>5, Sizes
  <2> QED
    BY <1>5, <2>2, <2>3
<1> QED
  BY <1>4, <1>6

(* The recursive definition of a sum has a solution.                         *)
LEMMA SumExists ==
    ASSUME NEW w \in Weights
    PROVE  IsSum(SumOf(w), w)
<1> DEFINE Up(n) == {S \in SUBSET URIs : Cardinality(S) <= n}
           Eq(f, D) ==
               f = [S \in D |->
                      IF S = {} THEN 0 ELSE f[S \ {Pick(S)}] + w[Pick(S)]]
           Bad == {n \in Nat : ~\E f : Eq(f, Up(n))}
<1>1. Bad = {}
  <2> SUFFICES ASSUME Bad # {} PROVE FALSE
    OBVIOUS
  <2>1. PICK n \in Bad : \A m \in Bad : n <= m
    BY LeastNatural
  <2>2. n # 0
    <3> SUFFICES ASSUME n = 0 PROVE FALSE
      OBVIOUS
    <3>1. Up(0) = {{}}
      BY Sizes
    <3>2. Eq([S \in Up(0) |-> 0], Up(0))
      BY <3>1
    <3> QED
      BY <3>2
  <2>3. n - 1 \in Nat /\ n - 1 \notin Bad
    <3>1. n \in Nat
      OBVIOUS
    <3> HIDE DEF Bad
    <3> QED
      BY <2>1, <2>2, <3>1
  <2>4. PICK f : Eq(f, Up(n - 1))
    BY <2>3
  <2> DEFINE g == [S \in Up(n) |->
                     IF S = {} THEN 0 ELSE f[S \ {Pick(S)}] + w[Pick(S)]]
  <2>5. \A S \in Up(n) : S # {} => S \ {Pick(S)} \in Up(n - 1)
    <3> SUFFICES ASSUME NEW S \in Up(n), S # {}
                 PROVE  S \ {Pick(S)} \in Up(n - 1)
      OBVIOUS
    <3>1. Pick(S) \in S
      BY DEF Pick
    <3>2. Cardinality(S \ {Pick(S)}) = Cardinality(S) - 1
      BY <3>1, Sizes
    <3> QED
      BY <2>3, <3>2, Sizes
  <2>6. \A S \in Up(n - 1) : S \in Up(n) /\ g[S] = f[S]
    <3>1. \A S \in Up(n - 1) : S \in Up(n)
      BY <2>3, Sizes
    <3> QED
      BY <2>4, <3>1
  <2>7. Eq(g, Up(n))
    <3>1. \A S \in Up(n) :
             S # {} => f[S \ {Pick(S)}] = g[S \ {Pick(S)}]
      BY <2>5, <2>6
    <3> DEFINE h == [S \in Up(n) |->
                       IF S = {} THEN 0 ELSE g[S \ {Pick(S)}] + w[Pick(S)]]
    <3>2. \A S \in Up(n) : g[S] = h[S]
      BY <3>1
    <3>3. g = h
      BY <3>2
    <3> QED
      BY <3>3
  <2> QED
    BY <2>7
<1>2. Up(Cardinality(URIs)) = SUBSET URIs
  BY Sizes
<1>3. \E f : IsSum(f, w)
  <2>1. Cardinality(URIs) \notin Bad
    BY <1>1
  <2>2. PICK f : Eq(f, Up(Cardinality(URIs)))
    BY <2>1, Sizes
  <2> QED
    BY <1>2, <2>2 DEF IsSum
<1> QED
  BY <1>3 DEF SumOf

LEMMA SumStep ==
    ASSUME NEW w \in Weights, NEW S \in SUBSET URIs
    PROVE  SumOf(w)[S] = IF S = {} THEN 0
                         ELSE SumOf(w)[S \ {Pick(S)}] + w[Pick(S)]
<1> DEFINE f == SumOf(w)
<1>1. IsSum(f, w)
  BY SumExists
<1> HIDE DEF f
<1>2. f[S] = IF S = {} THEN 0 ELSE f[S \ {Pick(S)}] + w[Pick(S)]
  BY <1>1 DEF IsSum
<1> QED
  BY <1>2 DEF f

(* A sum of naturals is one.                                                 *)
LEMMA SumType ==
    ASSUME NEW w \in Weights, NEW S \in SUBSET URIs
    PROVE  SumOf(w)[S] \in Nat
<1> DEFINE B == {T \in SUBSET URIs : SumOf(w)[T] \notin Nat}
<1>1. {} \notin B
  BY SumStep
<1>2. ASSUME NEW T \in SUBSET URIs, T # {}, T \ {Pick(T)} \notin B
      PROVE  T \notin B
  <2>1. Pick(T) \in T
    BY <1>2 DEF Pick
  <2>2. SumOf(w)[T \ {Pick(T)}] \in Nat /\ w[Pick(T)] \in Nat
    BY <1>2, <2>1 DEF Weights
  <2>3. SumOf(w)[T] = SumOf(w)[T \ {Pick(T)}] + w[Pick(T)]
    BY <1>2, SumStep
  <2>4. SumOf(w)[T] \in Nat
    BY <2>2, <2>3
  <2> QED
    BY <2>4
<1>3. B = {}
  <2> HIDE DEF B
  <2>1. B \in SUBSET SUBSET URIs
    BY DEF B
  <2> QED
    BY <1>1, <1>2, <2>1, SetInduction
<1> QED
  BY <1>3

(* Changing one summand changes the sum by as much.                          *)
LEMMA SumChange ==
    ASSUME NEW v \in Weights, NEW w \in Weights, NEW u \in URIs,
           \A x \in URIs : x # u => v[x] = w[x]
    PROVE  Total(v) + w[u] = Total(w) + v[u]
<1> DEFINE Good(S) == IF u \in S
                      THEN SumOf(v)[S] + w[u] = SumOf(w)[S] + v[u]
                      ELSE SumOf(v)[S] = SumOf(w)[S]
           B == {S \in SUBSET URIs : ~Good(S)}
<1>1. {} \notin B
  BY SumStep
<1>2. ASSUME NEW S \in SUBSET URIs, S # {}, S \ {Pick(S)} \notin B
      PROVE  S \notin B
  <2> DEFINE x == Pick(S)
             R == S \ {x}
  <2>1. x \in S
    BY <1>2 DEF Pick
  <2>2. Good(R)
    BY <1>2
  <2>3. SumOf(v)[S] = SumOf(v)[R] + v[x] /\ SumOf(w)[S] = SumOf(w)[R] + w[x]
    BY <1>2, SumStep
  <2>4. /\ SumOf(v)[R] \in Nat /\ SumOf(w)[R] \in Nat
        /\ v[x] \in Nat /\ w[x] \in Nat /\ v[u] \in Nat /\ w[u] \in Nat
    BY <2>1, SumType DEF Weights
  <2>5. x # u => v[x] = w[x]
    BY <2>1
  <2>6. u \in R <=> (u \in S /\ x # u)
    OBVIOUS
  <2> HIDE DEF x, R
  <2>7. Good(S)
    BY <2>1, <2>2, <2>3, <2>4, <2>5, <2>6
  <2> QED
    BY <2>7
<1>3. B = {}
  <2> HIDE DEF B
  <2>1. B \in SUBSET SUBSET URIs
    BY DEF B
  <2> QED
    BY <1>1, <1>2, <2>1, SetInduction
<1>4. Good(URIs)
  BY <1>3
<1> QED
  BY <1>4 DEF Total

(* A sum of smaller summands is smaller.                                     *)
LEMMA SumMonotone ==
    ASSUME NEW v \in Weights, NEW w \in Weights,
           \A x \in URIs : v[x] <= w[x]
    PROVE  Total(v) <= Total(w)
<1> DEFINE B == {S \in SUBSET URIs : ~(SumOf(v)[S] <= SumOf(w)[S])}
<1>1. {} \notin B
  <2>1. SumOf(v)[{}] = 0 /\ SumOf(w)[{}] = 0
    BY SumStep
  <2> QED
    BY <2>1
<1>2. ASSUME NEW S \in SUBSET URIs, S # {}, S \ {Pick(S)} \notin B
      PROVE  S \notin B
  <2> DEFINE x == Pick(S)
             R == S \ {x}
  <2>1. x \in S
    BY <1>2 DEF Pick
  <2>2. SumOf(v)[R] <= SumOf(w)[R]
    BY <1>2
  <2>3. SumOf(v)[S] = SumOf(v)[R] + v[x] /\ SumOf(w)[S] = SumOf(w)[R] + w[x]
    BY <1>2, SumStep
  <2>4. /\ SumOf(v)[R] \in Nat /\ SumOf(w)[R] \in Nat
        /\ v[x] \in Nat /\ w[x] \in Nat /\ v[x] <= w[x]
    BY <2>1, SumType DEF Weights
  <2> HIDE DEF x, R
  <2>5. SumOf(v)[S] <= SumOf(w)[S]
    BY <2>2, <2>3, <2>4
  <2> QED
    BY <2>5
<1>3. B = {}
  <2> HIDE DEF B
  <2>1. B \in SUBSET SUBSET URIs
    BY DEF B
  <2> QED
    BY <1>1, <1>2, <2>1, SetInduction
<1> QED
  BY <1>3 DEF Total

(* A sum of zeros is zero.                                                   *)
LEMMA SumZero ==
    Total([u \in URIs |-> 0]) = 0
<1> DEFINE w == [u \in URIs |-> 0]
           B == {S \in SUBSET URIs : SumOf(w)[S] # 0}
<1>0. w \in Weights
  BY DEF Weights
<1>1. {} \notin B
  BY <1>0, SumStep
<1>2. ASSUME NEW S \in SUBSET URIs, S # {}, S \ {Pick(S)} \notin B
      PROVE  S \notin B
  <2>1. Pick(S) \in S
    BY <1>2 DEF Pick
  <2>2. SumOf(w)[S] = SumOf(w)[S \ {Pick(S)}] + w[Pick(S)]
    BY <1>0, <1>2, SumStep
  <2>3. w[Pick(S)] = 0 /\ SumOf(w)[S \ {Pick(S)}] = 0
    BY <1>2, <2>1
  <2> QED
    BY <2>2, <2>3
<1>3. B = {}
  <2> HIDE DEF B
  <2>1. B \in SUBSET SUBSET URIs
    BY DEF B
  <2> QED
    BY <1>1, <1>2, <2>1, SetInduction
<1> QED
  BY <1>3 DEF Total

(* What QuotaCovers adds up.                                                 *)
LEMMA FoldIsTotal ==
    FoldSet(LAMBDA u, n : n + Length(file[u]), 0, URIs) =
        Total([u \in URIs |-> Length(file[u])])
BY DEF FoldSet, MapThenFoldSet, Total, SumOf, IsSum, Pick

-----------------------------------------------------------------------------
(* The state of the backend, and what a backend call may leave behind.       *)

Records == [etag: Contents, size: Nat]
Quotas == [used: Nat, max: Nat]

DiskType ==
    /\ file \in [URIs -> Contents \union {None}]
    /\ meta \in [URIs -> Records \union {None, Broken}]
    /\ used \in Nat /\ limit \in Nat
    /\ saved \in Quotas \union {None, Broken}
    /\ backend = "memory" =>
          \A u \in URIs : file[u] # None => meta[u] \in Records
    /\ torn \in [URIs -> BOOLEAN]
    /\ last \in [URIs -> {"put", "delete", "other"}]
    /\ unaccounted \in BOOLEAN

SizeIn(m) == IF m \in {None, Broken} THEN 0 ELSE m.size

(* The bytes a resource may still have released in its name: those of its    *)
(* body, or those its metadata claims when that is more.                     *)
Weight(b, m) == IF Length(b) >= SizeIn(m) THEN Length(b) ELSE SizeIn(m)

Claims == [u \in URIs |-> Weight(file[u], meta[u])]

(* A count that a limit admits, if there is one.                             *)
Within(n, max) == max # 0 => n <= max

Accounted(u, o) == ~Overstates(u, o) /\ ~Undercharges(u, o)

(* What every outcome of a backend call on u has in common: it is charged at *)
(* least for what it adds to the claims of u, and within the limit.          *)
Proper(u, o) ==
    /\ o.file \in Contents \union {None}
    /\ o.meta \in Records \union {None, Broken}
    /\ o.used \in Nat /\ o.counts \in SUBSET Nat
    /\ backend = "memory" /\ o.file # None => o.meta \in Records
    /\ Within(used, limit) =>
          \A n \in o.counts \union {o.used} : Within(n, limit)
    /\ (Weight(file[u], meta[u]) <= used /\ Accounted(u, o)) =>
          Weight(o.file, o.meta) + used <= o.used + Weight(file[u], meta[u])

LEMMA LengthType ==
    /\ \A b : Length(b) \in Nat
    /\ Length(None) = 0
BY StorageAssumption DEF Length, Contents

LEMMA WeightType ==
    ASSUME NEW b, NEW m \in Records \union {None, Broken}
    PROVE  /\ SizeIn(m) \in Nat /\ Weight(b, m) \in Nat
           /\ Length(b) <= Weight(b, m) /\ SizeIn(m) <= Weight(b, m)
           /\ Weight(b, m) = Length(b) \/ Weight(b, m) = SizeIn(m)
<1>1. Length(b) \in Nat
  BY LengthType
<1>2. SizeIn(m) \in Nat
  BY DEF SizeIn, Records
<1> QED
  BY <1>1, <1>2 DEF Weight

(* An outcome by what it stores and charges.                                 *)
LEMMA OutcomeProper ==
    ASSUME DiskType, NEW u \in URIs, NEW b \in Contents \union {None},
           NEW m \in Records \union {None, Broken}, NEW n \in Nat,
           NEW ok \in BOOLEAN, NEW counts \in SUBSET Nat,
           backend = "memory" /\ b # None => m \in Records,
           Within(used, limit) =>
              \A k \in counts \union {n} : Within(k, limit),
           LET w == Weight(file[u], meta[u])
           IN  (w <= used /\ Accounted(u, Outcome(b, m, n, ok, counts))) =>
                  Length(b) + used <= n + w /\ SizeIn(m) + used <= n + w
    PROVE  Proper(u, Outcome(b, m, n, ok, counts))
<1> DEFINE o == Outcome(b, m, n, ok, counts)
           w == Weight(file[u], meta[u])
<1>1. o.file = b /\ o.meta = m /\ o.used = n /\ o.counts = counts
  BY DEF Outcome
<1>2. w \in Nat /\ used \in Nat
  BY WeightType DEF DiskType
<1>3. Weight(b, m) = Length(b) \/ Weight(b, m) = SizeIn(m)
  BY WeightType
<1> HIDE DEF w
<1>4. (w <= used /\ Accounted(u, o)) => Weight(b, m) + used <= n + w
  BY <1>2, <1>3 DEF w
<1> HIDE DEF o
<1> QED
  BY <1>1, <1>4 DEF Proper, w, o

(* The charge of a write that the quota allows.                              *)
LEMMA ChargeWithin ==
    ASSUME DiskType, NEW b \in Contents, QuotaAllows(b)
    PROVE  /\ used + Charge(b) \in Nat /\ Within(used + Charge(b), limit)
           /\ used + Overhead \in Nat /\ Within(used + Overhead, limit)
           /\ used + Length(b) <= used + Charge(b)
<1>1. used \in Nat /\ limit \in Nat /\ Overhead \in Nat /\ Length(b) \in Nat
  BY LengthType, StorageAssumption DEF DiskType
<1> QED
  BY <1>1 DEF Charge, QuotaAllows, Within

(* What a failed write leaves is no longer than the body, or was there.      *)
LEMMA LeftoverLength ==
    ASSUME DiskType, NEW u \in URIs, NEW b \in Contents,
           NEW c \in Leftovers(u, b)
    PROVE  /\ c \in Contents \union {None}
           /\ c = file[u] \/ Length(c) <= Length(b)
<1>1. CASE c \in {file[u], b}
  <2>1. Length(b) \in Nat
    BY LengthType
  <2> QED
    BY <1>1, <2>1 DEF DiskType
<1>2. CASE c \in Fragments /\ SizeOf[c] < SizeOf[b]
  <2>1. c \in Contents /\ Length(c) = SizeOf[c] /\ Length(b) = SizeOf[b]
    BY <1>2 DEF Length, Contents
  <2>2. Length(c) \in Nat /\ Length(b) \in Nat
    BY LengthType
  <2> QED
    BY <1>2, <2>1, <2>2
<1> QED
  BY <1>1, <1>2 DEF Leftovers

LEMMA MemoryPutProper ==
    ASSUME DiskType, NEW u \in URIs, NEW b \in Contents, NEW m \in Records,
           NEW o \in MemoryPut(u, b, m)
    PROVE  Proper(u, o)
<1> DEFINE w == Weight(file[u], meta[u])
           n == used + Charge(b)
<1>1. /\ used \in Nat /\ Overhead \in Nat
      /\ Length(b) \in Nat /\ Length(file[u]) \in Nat
      /\ file[u] \in Contents \union {None}
      /\ meta[u] \in Records \union {None, Broken}
  BY LengthType, StorageAssumption DEF DiskType
<1>2. /\ w \in Nat /\ Length(file[u]) <= w /\ SizeIn(meta[u]) <= w
      /\ SizeIn(meta[u]) \in Nat /\ SizeIn(m) \in Nat
  BY <1>1, WeightType
<1> HIDE DEF w
<1>3. CASE o = Outcome(b, m, n, TRUE, {n}) /\ QuotaAllows(b)
  <2>1. Accounted(u, o) => SizeIn(m) <= Length(b) \/ SizeIn(m) <= w
    <3>1. o.file = b /\ o.meta = m
      BY <1>3 DEF Outcome
    <3>2. CASE m \in {None, Broken, meta[u]}
      BY <1>1, <1>2, <3>2 DEF SizeIn
    <3>3. CASE m \notin {None, Broken, meta[u]}
      BY <1>1, <3>1, <3>3 DEF Accounted, Overstates, SizeIn, Records
    <3> QED
      BY <3>2, <3>3
  <2>2. n \in Nat /\ Within(n, limit) /\ used + Length(b) <= n
    BY <1>3, ChargeWithin
  <2> HIDE DEF n
  <2>3. Accounted(u, o) =>
           Length(b) + used <= n + w /\ SizeIn(m) + used <= n + w
    BY <1>1, <1>2, <2>1, <2>2
  <2> QED
    BY <1>3, <2>2, <2>3, OutcomeProper DEF w
<1>4. CASE o = Outcome(file[u], meta[u], used, FALSE, {})
  <2>1. backend = "memory" /\ file[u] # None => meta[u] \in Records
    BY DEF DiskType
  <2>2. Length(file[u]) + used <= used + w /\ SizeIn(meta[u]) + used <= used + w
    BY <1>1, <1>2
  <2> QED
    BY <1>1, <1>4, <2>1, <2>2, OutcomeProper DEF w
<1> QED
  BY <1>3, <1>4 DEF MemoryPut

LEMMA PutProper ==
    ASSUME DiskType, NEW u \in URIs, NEW b \in Contents, NEW m \in Records,
           NEW o \in PutOutcomes(u, b, m)
    PROVE  Proper(u, o)
<1> DEFINE w == Weight(file[u], meta[u])
           n == used + Charge(b)
           k == used + Overhead
<1>1. /\ used \in Nat /\ Overhead \in Nat
      /\ Length(b) \in Nat /\ Length(file[u]) \in Nat
      /\ file[u] \in Contents \union {None}
      /\ meta[u] \in Records \union {None, Broken}
  BY LengthType, StorageAssumption DEF DiskType
<1>2. /\ w \in Nat /\ Length(file[u]) <= w /\ SizeIn(meta[u]) <= w
      /\ SizeIn(meta[u]) \in Nat /\ SizeIn(Broken) = 0
  BY <1>1, WeightType DEF SizeIn
<1> HIDE DEF w
<1>3. CASE o \in MemoryPut(u, b, m)
  BY <1>3, MemoryPutProper
<1>4. ASSUME backend # "memory", QuotaAllows(b), NEW c \in Leftovers(u, b),
             o = Outcome(c, meta[u], k, FALSE, {n, k})
      PROVE  Proper(u, o)
  <2>1. /\ n \in Nat /\ Within(n, limit) /\ k \in Nat /\ Within(k, limit)
        /\ {n, k} \in SUBSET Nat
    BY <1>4, ChargeWithin
  <2>2. c \in Contents \union {None} /\ Length(c) \in Nat
    BY <1>4, LeftoverLength, LengthType
  <2>3. Accounted(u, o) => Length(c) + used <= Length(file[u]) + k
    <3>1. CASE c = file[u]
      BY <1>1, <3>1
    <3>2. CASE c # file[u]
      <4>1. o.file = c /\ o.used = k /\ ~o.ok
        BY <1>4 DEF Outcome
      <4> HIDE DEF k
      <4> QED
        BY <1>1, <2>1, <2>2, <3>2, <4>1 DEF Accounted, Undercharges
    <3> QED
      BY <3>1, <3>2
  <2>4. Accounted(u, o) =>
           Length(c) + used <= k + w /\ SizeIn(meta[u]) + used <= k + w
    BY <1>1, <1>2, <2>2, <2>3
  <2> HIDE DEF n, k
  <2> QED
    BY <1>1, <1>4, <2>1, <2>2, <2>4, OutcomeProper DEF w
<1>5. ASSUME backend # "memory", QuotaAllows(b), NEW d \in {meta[u], Broken},
             o = Outcome(b, d, n, FALSE, {n})
      PROVE  Proper(u, o)
  <2>1. n \in Nat /\ Within(n, limit) /\ used + Length(b) <= n
        /\ {n} \in SUBSET Nat
    BY <1>5, ChargeWithin
  <2>2. SizeIn(d) \in Nat /\ SizeIn(d) <= w
    BY <1>1, <1>2
  <2> HIDE DEF n
  <2>3. Length(b) + used <= n + w /\ SizeIn(d) + used <= n + w
    BY <1>1, <1>2, <2>1, <2>2
  <2> QED
    BY <1>1, <1>5, <2>1, <2>3, OutcomeProper DEF w
<1> QED
  BY <1>3, <1>4, <1>5 DEF PutOutcomes, FilesystemPut

LEMMA DeleteProper ==
    ASSUME DiskType, NEW u \in URIs, NEW o \in DeleteOutcomes(u)
    PROVE  Proper(u, o)
<1> DEFINE w == Weight(file[u], meta[u])
<1>1. /\ used \in Nat /\ limit \in Nat /\ Length(file[u]) \in Nat
      /\ file[u] \in Contents \union {None}
      /\ meta[u] \in Records \union {None, Broken}
  BY LengthType, StorageAssumption DEF DiskType
<1>2. /\ w \in Nat /\ Length(file[u]) <= w /\ SizeIn(meta[u]) <= w
      /\ SizeIn(meta[u]) \in Nat /\ SizeIn(None) = 0 /\ Length(None) = 0
      /\ SizeOnRecord(u) = SizeIn(meta[u])
  BY <1>1, WeightType, LengthType DEF SizeIn, SizeOnRecord
<1> HIDE DEF w
<1>3. ASSUME NEW counts \in SUBSET {Released(SizeOnRecord(u))},
             o = Outcome(None, None, Released(SizeOnRecord(u)), TRUE, counts)
      PROVE  Proper(u, o)
  <2> DEFINE n == Released(SizeOnRecord(u))
  <2>1. n \in Nat /\ n <= used /\ (w <= used => used <= n + w)
    BY <1>1, <1>2 DEF Released
  <2> HIDE DEF n
  <2>2. w <= used => Length(None) + used <= n + w /\ SizeIn(None) + used <= n + w
    BY <1>1, <1>2, <2>1
  <2>3. Within(used, limit) => \A k \in counts \union {n} : Within(k, limit)
    BY <1>1, <1>3, <2>1 DEF Within, n
  <2>4. counts \in SUBSET Nat
    BY <1>3, <2>1 DEF n
  <2> QED
    BY <1>3, <2>1, <2>2, <2>3, <2>4, OutcomeProper DEF w, n
<1>4. ASSUME backend # "memory", NEW c \in {file[u], None},
             o = Outcome(c, meta[u], used, FALSE, {})
      PROVE  Proper(u, o)
  <2>1. Length(c) + used <= used + w /\ SizeIn(meta[u]) + used <= used + w
    BY <1>1, <1>2
  <2> QED
    BY <1>1, <1>4, <2>1, OutcomeProper DEF w
<1>5. ASSUME o \in MemoryDelete(u) PROVE Proper(u, o)
  <2> DEFINE n == Released(SizeOnRecord(u))
             k == IF SizeOnRecord(u) > 0 THEN {n} ELSE {}
  <2>1. o = Outcome(None, None, n, TRUE, k)
    BY <1>5 DEF MemoryDelete
  <2>2. k \in SUBSET {n}
    OBVIOUS
  <2> HIDE DEF k
  <2> QED
    BY <1>3, <2>1, <2>2
<1> QED
  BY <1>4, <1>5 DEF DeleteOutcomes, FilesystemDelete

-----------------------------------------------------------------------------
(* The invariant of the backend. QuotaCovers by itself is not inductive: a   *)
(* Delete releases the size on record, which after a failed write may be     *)
(* more than the length of the body. What is kept is that the quota covers   *)
(* the larger of the two. ConditionalWriteReplacesNamed needs that the tag   *)
(* on record is the body's, unless a write was cut short.                    *)

QuotaInv ==
    /\ Within(used, limit)
    /\ saved \notin {None, Broken} => Within(saved.used, saved.max)
    /\ ~unaccounted => Total(Claims) <= used

TagInv ==
    \A u \in URIs :
        (~torn[u] /\ file[u] # None /\ meta[u] \notin {None, Broken}) =>
            meta[u].etag = file[u]

DiskInv == DiskType /\ QuotaInv /\ TagInv

LEMMA ClaimsType ==
    ASSUME NEW f, NEW m \in [URIs -> Records \union {None, Broken}]
    PROVE  [u \in URIs |-> Weight(f[u], m[u])] \in Weights
BY WeightType DEF Weights

LEMMA SummandBound ==
    ASSUME NEW w \in Weights, NEW u \in URIs
    PROVE  w[u] <= Total(w) /\ Total(w) \in Nat
<1> DEFINE v == [w EXCEPT ![u] = 0]
<1>1. v \in Weights /\ v[u] = 0 /\ \A x \in URIs : x # u => v[x] = w[x]
  BY DEF Weights
<1> HIDE DEF v
<1>2. Total(v) + w[u] = Total(w) + v[u]
  BY <1>1, SumChange
<1>3. Total(v) \in Nat /\ Total(w) \in Nat /\ w[u] \in Nat
  BY <1>1, SumType DEF Total, Weights
<1> QED
  BY <1>1, <1>2, <1>3

(* What a backend call keeps of it, whichever way the call ends, whether or  *)
(* not the process lives to count.                                           *)
LEMMA StoreKeeps ==
    ASSUME DiskInv, NEW u \in URIs, NEW o, Proper(u, o),
           NEW kind \in {"put", "delete", "other"},
           Store(u, o), Describe(u, o, kind), backend' = backend
    PROVE  /\ file' \in [URIs -> Contents \union {None}]
           /\ meta' \in [URIs -> Records \union {None, Broken}]
           /\ saved' \in Quotas \union {None, Broken}
           /\ backend' = "memory" =>
                 \A x \in URIs : file'[x] # None => meta'[x] \in Records
           /\ torn' \in [URIs -> BOOLEAN]
           /\ last' \in [URIs -> {"put", "delete", "other"}]
           /\ saved' \notin {None, Broken} => Within(saved'.used, saved'.max)
           /\ TagInv'
           /\ Within(o.used, limit) /\ o.used \in Nat
           /\ ~unaccounted /\ Accounted(u, o) => Total(Claims') <= o.used
           /\ Total(Claims') \in Nat
<1> USE DEF DiskInv
<1>1. /\ file' = [file EXCEPT ![u] = o.file]
      /\ meta' = [meta EXCEPT ![u] = o.meta]
  BY DEF Store
<1>2. /\ file' \in [URIs -> Contents \union {None}]
      /\ meta' \in [URIs -> Records \union {None, Broken}]
  BY <1>1 DEF Proper, DiskType
<1>3. /\ torn' \in [URIs -> BOOLEAN]
      /\ last' \in [URIs -> {"put", "delete", "other"}]
  BY DEF Describe, DiskType
<1>4. backend' = "memory" =>
         \A x \in URIs : file'[x] # None => meta'[x] \in Records
  BY <1>1 DEF Proper, DiskType
<1>5. /\ saved' \in Quotas \union {None, Broken}
      /\ saved' \notin {None, Broken} => Within(saved'.used, saved'.max)
  <2>1. CASE saved' \in {saved, Broken}
    BY <2>1 DEF DiskType, QuotaInv
  <2>2. CASE saved' \in [used: o.counts, max: {limit}]
    <3>1. saved'.used \in o.counts /\ saved'.max = limit
      BY <2>2
    <3>2. o.counts \in SUBSET Nat /\ limit \in Nat
      BY DEF Proper, DiskType
    <3>3. saved' \in Quotas
      BY <2>2, <3>2 DEF Quotas
    <3>4. Within(saved'.used, limit)
      BY <3>1 DEF Proper, QuotaInv
    <3> QED
      BY <3>1, <3>3, <3>4
  <2> QED
    BY <2>1, <2>2 DEF Store, SaveQuotaInfo
<1>6. TagInv'
  <2> SUFFICES ASSUME NEW x \in URIs, ~torn'[x], file'[x] # None,
                      meta'[x] \notin {None, Broken}
               PROVE  meta'[x].etag = file'[x]
    BY DEF TagInv
  <2>1. CASE x # u
    <3>1. file'[x] = file[x] /\ meta'[x] = meta[x] /\ torn'[x] = torn[x]
      BY <1>1, <2>1 DEF Describe, DiskType
    <3> QED
      BY <3>1 DEF TagInv
  <2>2. CASE x = u
    <3>1. file'[u] = o.file /\ meta'[u] = o.meta
      BY <1>1 DEF DiskType
    <3>2. CASE o.file = file[u] /\ o.meta = meta[u]
      <4>1. torn'[u] = torn[u]
        BY <2>2, <3>1, <3>2 DEF Describe, DiskType
      <4> QED
        BY <2>2, <3>1, <3>2, <4>1 DEF TagInv
    <3>3. CASE ~(o.file = file[u] /\ o.meta = meta[u])
      <4>1. torn'[u] = (~o.ok \/ o.meta.etag # o.file)
        BY <2>2, <3>1, <3>3 DEF Describe, DiskType
      <4> QED
        BY <2>2, <3>1, <4>1
    <3> QED
      BY <3>2, <3>3
  <2> QED
    BY <2>1, <2>2
<1>7. Within(o.used, limit) /\ o.used \in Nat
  BY DEF Proper, QuotaInv
<1>8. /\ Total(Claims') \in Nat
      /\ ~unaccounted /\ Accounted(u, o) => Total(Claims') <= o.used
  <2> DEFINE v == Claims'
             w == Claims
  <2>1. v \in Weights /\ w \in Weights
    BY <1>2, ClaimsType DEF DiskType, Claims
  <2>2. v[u] = Weight(o.file, o.meta) /\ w[u] = Weight(file[u], meta[u])
        /\ \A x \in URIs : x # u => v[x] = w[x]
    BY <1>1 DEF DiskType, Claims
  <2>3. ~unaccounted => Total(w) <= used
    BY DEF QuotaInv
  <2> HIDE DEF v, w
  <2>4. /\ Total(v) + w[u] = Total(w) + v[u]
        /\ w[u] <= Total(w) /\ Total(w) \in Nat /\ Total(v) \in Nat
    BY <2>1, <2>2, SumChange, SummandBound
  <2>5. v[u] \in Nat /\ w[u] \in Nat /\ used \in Nat
    BY <2>1 DEF Weights, DiskType
  <2>6. ASSUME ~unaccounted, Accounted(u, o) PROVE Total(v) <= o.used
    <3>1. w[u] <= used
      BY <2>3, <2>4, <2>5, <2>6
    <3>2. v[u] + used <= o.used + w[u]
      BY <2>2, <2>6, <3>1 DEF Proper
    <3> QED
      BY <1>7, <2>3, <2>4, <2>5, <2>6, <3>2
  <2> QED
    BY <2>4, <2>6 DEF v
<1> QED
  BY <1>2, <1>3, <1>4, <1>5, <1>6, <1>7, <1>8

(* A backend call keeps the invariant.                                       *)
LEMMA ApplyKeeps ==
    ASSUME DiskInv, NEW u \in URIs, NEW o, Proper(u, o),
           NEW kind \in {"put", "delete", "other"},
           Apply(u, o), Remember(u, o, kind), backend' = backend
    PROVE  DiskInv'
<1>1. Store(u, o) /\ used' = o.used /\ limit' = limit /\ Describe(u, o, kind)
  BY DEF Apply, Remember
<1>2. unaccounted' \in BOOLEAN
      /\ (~unaccounted' => ~unaccounted /\ Accounted(u, o))
  BY DEF Remember, Accounted, DiskInv, DiskType
<1>3. DiskType' /\ TagInv'
  BY <1>1, <1>2, StoreKeeps DEF DiskType, DiskInv
<1>4. QuotaInv'
  BY <1>1, <1>2, StoreKeeps DEF QuotaInv
<1> QED
  BY <1>3, <1>4 DEF DiskInv

(* So does a crash in the middle of one, or between two.                     *)
LEMMA LoadWithin ==
    ASSUME DiskInv, NEW counted \in Nat, NEW lost \in BOOLEAN,
           LoadQuotaInfo(counted, lost),
           saved' \in Quotas \union {None, Broken},
           saved' \notin {None, Broken} => Within(saved'.used, saved'.max)
    PROVE  /\ used' \in Nat /\ limit' \in Nat /\ Within(used', limit')
           /\ unaccounted' \in BOOLEAN
           /\ ~unaccounted' => ~unaccounted /\ ~lost /\ counted <= used'
<1>1. PICK q \in {[used |-> 0, max |-> 0]} \union ({saved'} \ {None, Broken}) :
           /\ used' = q.used /\ limit' = q.max
           /\ unaccounted' = (unaccounted \/ lost \/ q.used < counted)
  BY DEF LoadQuotaInfo
<1>2. q \in Quotas /\ Within(q.used, q.max)
  <2>1. CASE q = [used |-> 0, max |-> 0]
    BY <2>1 DEF Quotas, Within
  <2>2. CASE q = saved' /\ saved' \notin {None, Broken}
    BY <2>2
  <2> QED
    BY <1>1, <2>1, <2>2
<1>3. q.used \in Nat /\ q.max \in Nat
  BY <1>2 DEF Quotas
<1>4. unaccounted \in BOOLEAN
  BY DEF DiskInv, DiskType
<1>5. ~unaccounted' => ~unaccounted /\ ~lost /\ ~(q.used < counted)
  BY <1>1, Zenon
<1>6. ~(q.used < counted) => counted <= q.used
  BY <1>3
<1>7. unaccounted' \in BOOLEAN
  BY <1>1
<1> QED
  BY <1>1, <1>2, <1>3, <1>5, <1>6, <1>7

LEMMA CrashKeeps ==
    ASSUME DiskInv, NEW u \in URIs, NEW o, Proper(u, o),
           Store(u, o), Describe(u, o, "other"),
           LoadQuotaInfo(o.used, Overstates(u, o) \/ Undercharges(u, o)),
           backend' = backend
    PROVE  DiskInv'
<1> DEFINE lost == Overstates(u, o) \/ Undercharges(u, o)
<1>1. lost \in BOOLEAN /\ (~lost => Accounted(u, o)) /\ o.used \in Nat
  BY DEF Accounted, Proper
<1>2. /\ used' \in Nat /\ limit' \in Nat /\ Within(used', limit')
      /\ unaccounted' \in BOOLEAN
      /\ ~unaccounted' => ~unaccounted /\ ~lost /\ o.used <= used'
  <2> HIDE DEF lost
  <2>1. LoadQuotaInfo(o.used, lost)
    BY DEF lost
  <2> QED
    BY <1>1, <2>1, StoreKeeps, LoadWithin
<1> HIDE DEF lost
<1>3. DiskType' /\ TagInv'
  BY <1>2, StoreKeeps DEF DiskType, DiskInv
<1>4. QuotaInv'
  <2>1. ~unaccounted' => Total(Claims') <= o.used
    BY <1>1, <1>2, StoreKeeps
  <2>2. Total(Claims') \in Nat
    BY StoreKeeps
  <2> DEFINE t == Total(Claims')
  <2>3. t \in Nat /\ (~unaccounted' => t <= o.used)
    BY <2>1, <2>2
  <2> HIDE DEF t
  <2>4. ~unaccounted' => t <= used'
    BY <1>1, <1>2, <2>3
  <2> QED
    BY <1>2, <2>4, StoreKeeps DEF QuotaInv, t
<1> QED
  BY <1>3, <1>4 DEF DiskInv

LEMMA RestKeeps ==
    ASSUME DiskInv, UNCHANGED <<backend, file, meta, saved, torn, last>>,
           LoadQuotaInfo(used, FALSE)
    PROVE  DiskInv'
<1>1. used \in Nat /\ FALSE \in BOOLEAN
  BY DEF DiskInv, DiskType
<1>2. /\ used' \in Nat /\ limit' \in Nat /\ Within(used', limit')
      /\ unaccounted' \in BOOLEAN
      /\ ~unaccounted' => ~unaccounted /\ used <= used'
  BY <1>1, LoadWithin DEF DiskInv, DiskType, QuotaInv
<1>3. Claims' = Claims
  BY DEF Claims
<1>4. Total(Claims) \in Nat
  <2>1. Claims \in Weights
    BY ClaimsType DEF Claims, DiskInv, DiskType
  <2> QED
    BY <2>1, SumType DEF Total
<1>5. ~unaccounted' => Total(Claims') <= used'
  <2> DEFINE t == Total(Claims)
  <2>1. t \in Nat /\ (~unaccounted => t <= used) /\ Total(Claims') = t
    BY <1>3, <1>4 DEF DiskInv, QuotaInv
  <2> HIDE DEF t
  <2> QED
    BY <1>1, <1>2, <2>1
<1> QED
  BY <1>2, <1>5 DEF DiskInv, DiskType, QuotaInv, TagInv

-----------------------------------------------------------------------------
(* The state of the clients and of the rest of the system.                   *)

OpRecord == [kind: {"idle", "put", "delete", "bury", "load"}, u: URIs \union {None},
             b: Contents \union {None}, m: Records \union {None},
             cond: Conditions \union {Unconditional}]

Resources == [b: Contents, m: Records]

Transactions == [status: {"none", "open", "committing"},
                 pending: [URIs -> Bodies \union {None}],
                 deleted: SUBSET URIs]

ClientType ==
    /\ pc \in [Clients -> {"idle", "store", "notify", "remove", "again",
                        "keep"}]
    /\ op \in [Clients -> OpRecord]
    /\ \A c \in Clients : pc[c] # "idle" => op[c].u \in URIs
    /\ \A c \in Clients : pc[c] = "store" =>
          op[c].kind = "put" /\ op[c].b \in Contents /\ op[c].m \in Records
    /\ \A c \in Clients : pc[c] = "keep" => op[c].b \in Contents

OtherType ==
    /\ txn \in Transactions
    /\ archive \in [URIs -> Resources \union {None}]
    /\ cached \in [URIs -> Contents \union {None}]
    /\ late \in SUBSET Clients /\ stale \in SUBSET URIs

(* What the engine reads is a body with its metadata.                        *)
LEMMA GetType ==
    ASSUME DiskType, NEW u \in URIs, Get(u) # None
    PROVE  Get(u) \in Resources /\ Get(u).b = file[u]
<1>1. file[u] \in Contents \union {None}
      /\ meta[u] \in Records \union {None, Broken}
  BY DEF DiskType
<1>2. CASE backend = "memory"
  <2>1. Get(u) = [b |-> file[u], m |-> meta[u]] /\ file[u] # None
    BY <1>2 DEF Get, BackendGet, MemoryGet
  <2> QED
    BY <1>1, <1>2, <2>1 DEF DiskType, Resources
<1>3. CASE backend # "memory"
  <2>1. /\ file[u] # None /\ meta[u] # Broken
        /\ Get(u) = [b |-> file[u],
                     m |-> IF meta[u] = None THEN Fresh(file[u]) ELSE meta[u]]
    BY <1>3 DEF Get, BackendGet, FilesystemGet
  <2>2. Fresh(file[u]) \in Records
    BY <1>1, <2>1, LengthType DEF Fresh, Records
  <2> QED
    BY <1>1, <2>1, <2>2 DEF Resources
<1> QED
  BY <1>2, <1>3

(* A client starts an operation, or ends one.                                *)
LEMMA StartType ==
    ASSUME ClientType, NEW c \in Clients, NEW kind, NEW u, NEW b, NEW m,
           NEW cond, NEW p \in {"store", "remove", "keep"},
           Start(c, kind, u, b, m, cond), pc' = [pc EXCEPT ![c] = p],
           u \in URIs, kind \in {"put", "delete", "bury", "load"},
           b \in Contents \union {None}, m \in Records \union {None},
           cond \in Conditions \union {Unconditional},
           p = "store" => kind = "put" /\ b \in Contents /\ m \in Records,
           p = "keep" => b \in Contents
    PROVE  ClientType'
<1> DEFINE k == [kind |-> kind, u |-> u, b |-> b, m |-> m, cond |-> cond]
<1>1. k \in OpRecord /\ k.u = u /\ k.kind = kind /\ k.b = b /\ k.m = m
  BY DEF OpRecord
<1>2. op' = [op EXCEPT ![c] = k]
  BY DEF Start
<1> HIDE DEF k
<1> QED
  BY <1>1, <1>2 DEF ClientType

LEMMA FinishType ==
    ASSUME ClientType, NEW c \in Clients, Finish(c)
    PROVE  ClientType'
<1>1. Idle \in OpRecord
  BY DEF Idle, OpRecord
<1> QED
  BY <1>1 DEF Finish, ClientType

LEMMA MoveType ==
    ASSUME ClientType, NEW c \in Clients, op[c].u \in URIs,
           NEW p \in {"notify", "again"},
           pc' = [pc EXCEPT ![c] = p], op' = op
    PROVE  ClientType'
BY DEF ClientType

LEMMA FreshType ==
    ASSUME NEW b \in Contents
    PROVE  Fresh(b) \in Records
BY LengthType DEF Fresh, Records

(* The types every step keeps.                                               *)
LEMMA NextType ==
    DiskInv /\ ClientType /\ OtherType /\ [Next]_vars
        => DiskInv' /\ ClientType' /\ OtherType'
<1> SUFFICES ASSUME DiskInv, ClientType, OtherType, [Next]_vars
             PROVE  DiskInv' /\ ClientType' /\ OtherType'
  OBVIOUS
<1>0. DiskType /\ Unconditional \in Conditions \union {Unconditional}
  BY DEF DiskInv
<1>a. ASSUME UNCHANGED <<backend, disk, ghosts>> PROVE DiskInv'
  BY <1>a DEF DiskInv, DiskType, QuotaInv, TagInv, Claims, disk, ghosts
<1> USE DEF policyVars
<1>b. ASSUME UNCHANGED <<txn, archive, policyVars>> PROVE OtherType'
  BY <1>b DEF OtherType, policyVars
<1>c. ASSUME UNCHANGED <<pc, op>> PROVE ClientType'
  BY <1>c DEF ClientType
<1> DEFINE Inv == DiskInv' /\ ClientType' /\ OtherType'
<1>1. ASSUME NEW c \in Clients, Put(c) PROVE Inv
  <2>1. PICK u \in URIs, b \in Bodies, cond \in Conditions :
             Start(c, "put", u, b, Fresh(b), cond)
    BY <1>1 DEF Put
  <2>2. pc' = [pc EXCEPT ![c] = "store"] /\ Fresh(b) \in Records
        /\ b \in Contents
    BY <1>1, FreshType DEF Put, Contents
  <2>3. ClientType'
    BY <2>1, <2>2, StartType
  <2> QED
    BY <1>1, <1>a, <1>b, <2>3 DEF Put
<1>2. ASSUME NEW c \in Clients, RestoreResource(c) PROVE Inv
  <2>1. PICK u \in URIs : archive[u] # None
             /\ Start(c, "put", u, archive[u].b, archive[u].m, Unconditional)
    BY <1>2 DEF RestoreResource
  <2>2. pc' = [pc EXCEPT ![c] = "store"] /\ archive[u].m \in Records
        /\ archive[u].b \in Contents
    BY <1>2, <2>1 DEF RestoreResource, OtherType, Resources
  <2>3. ClientType'
    BY <1>0, <2>1, <2>2, StartType
  <2> QED
    BY <1>2, <1>a, <1>b, <2>3 DEF RestoreResource
<1>3. ASSUME NEW c \in Clients, RepairResource(c) PROVE Inv
  <2>1. PICK u \in URIs : Get(u) # None
             /\ Start(c, "put", u, Get(u).b,
                      [Get(u).m EXCEPT !.size = Length(Get(u).b)],
                      Unconditional)
    BY <1>3 DEF RepairResource, ScanResource
  <2> DEFINE m == [Get(u).m EXCEPT !.size = Length(Get(u).b)]
  <2>2. Get(u) \in Resources
    BY <1>0, <2>1, GetType
  <2>3. pc' = [pc EXCEPT ![c] = "store"] /\ m \in Records
        /\ Get(u).b \in Contents
    BY <1>3, <2>2, LengthType DEF RepairResource, Resources, Records
  <2> HIDE DEF m
  <2>4. ClientType'
    BY <1>0, <2>1, <2>3, StartType DEF m
  <2> QED
    BY <1>3, <1>a, <1>b, <2>4 DEF RepairResource
<1>4. ASSUME NEW c \in Clients, BackendPut(c) PROVE Inv
  <2>1. op[c].u \in URIs /\ op[c].b \in Contents /\ op[c].m \in Records
    BY <1>4 DEF BackendPut, ClientType
  <2>2. PICK r \in PutOutcomes(op[c].u, op[c].b, op[c].m) :
             /\ Apply(op[c].u, r) /\ Remember(op[c].u, r, "put")
             /\ IF r.ok THEN pc' = [pc EXCEPT ![c] = "notify"] /\ op' = op
                        ELSE Finish(c)
    BY <1>4 DEF BackendPut
  <2>3. Proper(op[c].u, r)
    BY <1>0, <2>1, PutProper
  <2>4. DiskInv'
    BY <1>4, <2>1, <2>2, <2>3, ApplyKeeps DEF BackendPut
  <2>5. ClientType'
    BY <2>1, <2>2, MoveType, FinishType
  <2> QED
    BY <1>4, <1>b, <2>4, <2>5 DEF BackendPut
<1>5. ASSUME NEW c \in Clients, BackendRefuses(c) PROVE Inv
  BY <1>5, <1>a, <1>b, FinishType DEF BackendRefuses
<1>6. ASSUME NEW c \in Clients, PutNotify(c) \/ DeleteNotify(c) PROVE Inv
  <2>1. OtherType'
    BY <1>6 DEF PutNotify, DeleteNotify, Invalidate, Outdated, OtherType
  <2> QED
    BY <1>6, <1>a, <2>1, FinishType DEF PutNotify, DeleteNotify
<1>7. ASSUME NEW c \in Clients, Delete(c) \/ DeleteWithTombstone(c) PROVE Inv
  <2>1. PICK u \in URIs, kind \in {"delete", "bury"} :
             Start(c, kind, u, None, None, Unconditional)
    BY <1>7 DEF Delete, DeleteWithTombstone
  <2>2. pc' = [pc EXCEPT ![c] = "remove"]
    BY <1>7 DEF Delete, DeleteWithTombstone
  <2>3. ClientType'
    BY <1>0, <2>1, <2>2, StartType
  <2> QED
    BY <1>7, <1>a, <1>b, <2>3 DEF Delete, DeleteWithTombstone
<1>8. ASSUME NEW c \in Clients, BackendDelete(c) PROVE Inv
  <2>1. op[c].u \in URIs
    BY <1>8 DEF BackendDelete, ClientType
  <2>2. PICK r \in DeleteOutcomes(op[c].u) :
             /\ Apply(op[c].u, r) /\ Remember(op[c].u, r, "delete")
             /\ \/ pc' = [pc EXCEPT ![c] = "again"] /\ op' = op
                \/ Finish(c)
    BY <1>8 DEF BackendDelete
  <2>3. DiskInv'
    BY <1>0, <1>8, <2>1, <2>2, DeleteProper, ApplyKeeps DEF BackendDelete
  <2>4. ClientType'
    BY <2>1, <2>2, MoveType, FinishType
  <2> QED
    BY <1>8, <1>b, <2>3, <2>4 DEF BackendDelete
<1>9. ASSUME NEW c \in Clients, DeleteMetadata(c) PROVE Inv
  <2>1. op[c].u \in URIs
    BY <1>9 DEF DeleteMetadata, ClientType
  <2>2. PICK r \in DeleteOutcomes(op[c].u) :
             Apply(op[c].u, r) /\ Remember(op[c].u, r, "delete")
    BY <1>9 DEF DeleteMetadata
  <2>3. DiskInv'
    BY <1>0, <1>9, <2>1, <2>2, DeleteProper, ApplyKeeps DEF DeleteMetadata
  <2>4. ClientType'
    BY <1>9, <2>1, MoveType, FinishType DEF DeleteMetadata
  <2> QED
    BY <1>9, <1>b, <2>3, <2>4 DEF DeleteMetadata
<1>10. CASE BeginTransaction \/ Rollback
  <2>1. OtherType'
    BY <1>10 DEF BeginTransaction, Rollback, OtherType, NoTxn, Transactions
  <2> QED
    BY <1>10, <1>a, <1>c, <2>1 DEF BeginTransaction, Rollback
<1>11. ASSUME NEW u \in URIs, NEW b \in Bodies, TransactionPut(u, b)
       PROVE  Inv
  <2>1. OtherType'
    BY <1>11 DEF TransactionPut, OtherType, Transactions
  <2> QED
    BY <1>11, <1>a, <1>c, <2>1 DEF TransactionPut
<1>12. ASSUME NEW u \in URIs, TransactionDelete(u) PROVE Inv
  <2>1. OtherType'
    BY <1>12 DEF TransactionDelete, OtherType, Transactions
  <2> QED
    BY <1>12, <1>a, <1>c, <2>1 DEF TransactionDelete
<1>13. CASE Commit
  <2>1. NoTxn \in Transactions
    BY DEF NoTxn, Transactions
  <2>2. OtherType'
    <3>1. \/ txn' = NoTxn
          \/ \E u \in URIs :
                txn' = [txn EXCEPT !.status = "committing", !.pending[u] = None]
          \/ \E u \in URIs :
                txn' = [txn EXCEPT !.status = "committing",
                                   !.deleted = @ \ {u}]
      BY <1>13 DEF Commit, CommitWrites, OtherType, Transactions
    <3>2. txn' \in Transactions
      <4>1. ASSUME NEW u \in URIs,
                   txn' = [txn EXCEPT !.status = "committing",
                                      !.pending[u] = None]
            PROVE  txn' \in Transactions
        BY <4>1 DEF OtherType, Transactions
      <4>2. ASSUME NEW u \in URIs,
                   txn' = [txn EXCEPT !.status = "committing",
                                      !.deleted = @ \ {u}]
            PROVE  txn' \in Transactions
        BY <4>2 DEF OtherType, Transactions
      <4> QED
        BY <2>1, <3>1, <4>1, <4>2
    <3> QED
      BY <1>13, <3>2 DEF Commit, OtherType
  <2>3. ASSUME NEW u \in CommitWrites,
               NEW r \in PutOutcomes(u, txn.pending[u], Fresh(txn.pending[u])),
               Apply(u, r), Remember(u, r, "other")
        PROVE  DiskInv'
    <3>1. u \in URIs /\ txn.pending[u] \in Contents
      BY DEF CommitWrites, OtherType, Contents, Transactions
    <3>2. Proper(u, r)
      BY <1>0, <3>1, FreshType, PutProper
    <3> QED
      BY <1>13, <2>3, <3>1, <3>2, ApplyKeeps DEF Commit
  <2>4. ASSUME NEW u \in txn.deleted, NEW r \in DeleteOutcomes(u),
               Apply(u, r), Remember(u, r, "other")
        PROVE  DiskInv'
    <3>1. u \in URIs
      BY DEF OtherType, Transactions
    <3> QED
      BY <1>0, <1>13, <2>4, <3>1, DeleteProper, ApplyKeeps DEF Commit
  <2>5. DiskInv'
    BY <1>13, <1>a, <2>3, <2>4 DEF Commit
  <2> QED
    BY <1>13, <1>c, <2>2, <2>5 DEF Commit
<1>14. ASSUME NEW u \in URIs, Backup(u) PROVE Inv
  <2>1. Get(u) \in Resources \union {None}
    BY <1>0, GetType
  <2>2. OtherType'
    BY <1>14, <2>1 DEF Backup, OtherType
  <2> QED
    BY <1>14, <1>a, <1>c, <2>2 DEF Backup
<1>15. ASSUME NEW c \in Clients, PolicyLoad(c) PROVE Inv
  <2>1. PICK u \in Policies :
             Get(u) # None /\ Start(c, "load", u, Get(u).b, None, Unconditional)
    BY <1>15 DEF PolicyLoad
  <2>2. u \in URIs /\ Get(u).b \in Contents
        /\ pc' = [pc EXCEPT ![c] = "keep"]
    BY <1>0, <1>15, <2>1, GetType, StorageAssumption DEF PolicyLoad, Resources
  <2>3. ClientType'
    BY <1>0, <2>1, <2>2, StartType
  <2> QED
    BY <1>15, <1>a, <1>b, <2>3 DEF PolicyLoad
<1>20. ASSUME NEW c \in Clients, LoadPolicy(c) PROVE Inv
  <2>1. op[c].u \in URIs /\ op[c].b \in Contents
    BY <1>20 DEF LoadPolicy, ClientType
  <2>2. OtherType'
    BY <1>20, <2>1 DEF LoadPolicy, OtherType
  <2> QED
    BY <1>20, <1>a, <2>2, FinishType DEF LoadPolicy
<1>16. ASSUME Restart PROVE ClientType' /\ OtherType'
  BY <1>16 DEF Restart, ClientType, OtherType, NoTxn, Idle, OpRecord,
                 Transactions
<1>17. CASE Crash
  <2>1. ASSUME NEW c \in Clients, NEW r \in Unfinished(c),
               Store(op[c].u, r), Describe(op[c].u, r, "other"),
               LoadQuotaInfo(r.used, \/ Overstates(op[c].u, r)
                                     \/ Undercharges(op[c].u, r))
        PROVE  DiskInv'
    <3>1. backend' = backend
      BY <1>17 DEF Crash, Restart
    <3>2. op[c].u \in URIs
      BY <2>1 DEF Unfinished, ClientType
    <3>3. Proper(op[c].u, r)
      <4>1. ASSUME pc[c] = "store", QuotaAllows(op[c].b),
                   NEW f \in Leftovers(op[c].u, op[c].b),
                   r = Outcome(f, meta[op[c].u], used + Charge(op[c].b), FALSE,
                               {used + Charge(op[c].b)})
            PROVE  Proper(op[c].u, r)
        <5> DEFINE u == op[c].u
                   b == op[c].b
                   n == used + Charge(b)
                   w == Weight(file[u], meta[u])
        <5>0. b \in Contents
          BY <4>1 DEF ClientType
        <5>1. /\ used \in Nat /\ Length(b) \in Nat /\ Length(file[u]) \in Nat
              /\ Length(f) \in Nat /\ meta[u] \in Records \union {None, Broken}
          BY <1>0, <3>2, LengthType DEF DiskType
        <5>2. /\ w \in Nat /\ Length(file[u]) <= w /\ SizeIn(meta[u]) <= w
              /\ SizeIn(meta[u]) \in Nat
          BY <5>1, WeightType
        <5>3. n \in Nat /\ Within(n, limit) /\ used + Length(b) <= n
              /\ {n} \in SUBSET Nat
          BY <1>0, <4>1, <5>0, ChargeWithin
        <5>4. f \in Contents \union {None}
              /\ (f = file[u] \/ Length(f) <= Length(b))
          BY <1>0, <3>2, <5>0, LeftoverLength
        <5>5. backend # "memory"
          BY <1>17 DEF Crash
        <5>6. r = Outcome(f, meta[u], n, FALSE, {n})
          BY <4>1
        <5> HIDE DEF n, w
        <5>7. Length(f) + used <= n + w /\ SizeIn(meta[u]) + used <= n + w
          BY <5>1, <5>2, <5>3, <5>4
        <5> HIDE DEF u, b
        <5> QED
          BY <1>0, <3>2, <5>1, <5>3, <5>4, <5>5, <5>6, <5>7, OutcomeProper
          DEF w, u
      <4>2. CASE pc[c] = "store" /\ r \in PutOutcomes(op[c].u, op[c].b, op[c].m)
        BY <1>0, <3>2, <4>2, PutProper DEF ClientType
      <4>3. CASE r \in DeleteOutcomes(op[c].u)
        BY <1>0, <3>2, <4>3, DeleteProper
      <4> QED
        BY <4>1, <4>2, <4>3 DEF Unfinished
    <3> QED
      BY <2>1, <3>1, <3>2, <3>3, CrashKeeps
  <2>2. ASSUME UNCHANGED <<file, meta, saved, torn, last>>,
               LoadQuotaInfo(used, FALSE)
        PROVE  DiskInv'
    BY <1>17, <2>2, RestKeeps DEF Crash, Restart
  <2>3. DiskInv'
    BY <1>17, <2>1, <2>2 DEF Crash
  <2> QED
    BY <1>16, <1>17, <2>3 DEF Crash
<1>18. CASE CrashMemory
  <2>1. DiskInv'
    <3>1. Claims' = [u \in URIs |-> 0]
      BY <1>18, LengthType DEF CrashMemory, Claims, Weight, SizeIn
    <3>2. QuotaInv'
      <4>1. used' = 0 /\ limit' = limit /\ saved' = saved /\ limit \in Nat
        BY <1>0, <1>18 DEF CrashMemory, DiskType
      <4>2. Total(Claims') = 0
        BY <3>1, SumZero
      <4>3. Within(0, limit)
        BY <4>1 DEF Within
      <4> HIDE DEF Claims
      <4> QED
        BY <4>1, <4>2, <4>3 DEF QuotaInv, DiskInv
    <3> QED
      BY <1>18, <3>2
      DEF CrashMemory, Restart, DiskInv, DiskType, TagInv
  <2> QED
    BY <1>16, <1>18, <2>1 DEF CrashMemory
<1>19. CASE UNCHANGED vars
  BY <1>19, <1>a, <1>b, <1>c DEF vars, disk, ghosts
<1> QED
  BY <1>1, <1>2, <1>3, <1>4, <1>5, <1>6, <1>7, <1>8, <1>9, <1>10, <1>11,
     <1>12, <1>13, <1>14, <1>15, <1>17, <1>18, <1>19, <1>20 DEF Next, Step

(* The first state.                                                          *)
LEMMA InitType == Init => DiskInv /\ ClientType /\ OtherType
<1> SUFFICES ASSUME Init PROVE DiskInv /\ ClientType /\ OtherType
  OBVIOUS
<1>0. limit \in Nat
  <2>1. Limits \subseteq Nat
    BY StorageAssumption
  <2>2. limit \in Limits \union {0}
    BY DEF Init
  <2> QED
    BY <2>1, <2>2
<1>1. Claims = [u \in URIs |-> 0]
  BY LengthType DEF Init, Claims, Weight, SizeIn
<1>2. QuotaInv
  <2>1. used = 0 /\ limit \in Nat
    BY <1>0 DEF Init
  <2>2. Total(Claims) = 0
    BY <1>1, SumZero
  <2>3. Within(0, limit)
    BY <2>1 DEF Within
  <2>4. saved \notin {None, Broken} => Within(saved.used, saved.max)
    BY <2>3 DEF Init
  <2> HIDE DEF Claims
  <2> QED
    BY <2>1, <2>2, <2>3, <2>4 DEF QuotaInv
<1>3. DiskInv
  <2>1. limit \in Nat /\ saved \in Quotas \union {None, Broken}
    BY <1>0 DEF Init, Quotas
  <2> QED
    BY <1>2, <2>1 DEF Init, DiskInv, DiskType, TagInv
<1>4. ClientType /\ OtherType
  BY DEF Init, ClientType, OtherType, NoTxn, Idle, OpRecord, Transactions
<1> QED
  BY <1>3, <1>4

(* Types, quota and tags hold in every reachable state.                      *)
THEOREM EngineInvariant == Spec => [](DiskInv /\ ClientType /\ OtherType)
BY InitType, NextType, PTL DEF Spec

-----------------------------------------------------------------------------
(* The quota covers what is stored.                                          *)
THEOREM QuotaCoversStored == Spec => []QuotaCovers
<1>1. DiskInv => QuotaCovers
  <2> SUFFICES ASSUME DiskInv PROVE QuotaCovers
    OBVIOUS
  <2> DEFINE v == [u \in URIs |-> Length(file[u])]
  <2>1. v \in Weights /\ Claims \in Weights
    BY LengthType, ClaimsType DEF Weights, Claims, DiskInv, DiskType
  <2>2. \A u \in URIs : v[u] <= Claims[u]
    BY WeightType DEF Claims, DiskInv, DiskType
  <2>3. Total(v) \in Nat /\ Total(Claims) \in Nat /\ used \in Nat
    BY <2>1, SumType DEF Total, DiskInv, DiskType
  <2>4. Total(v) <= Total(Claims)
    <3> HIDE DEF v
    <3> QED
      BY <2>1, <2>2, SumMonotone
  <2>5. ~unaccounted => Total(v) <= used
    <3> HIDE DEF v
    <3> QED
      BY <2>3, <2>4 DEF DiskInv, QuotaInv
  <2>6. FoldSet(LAMBDA u, n : n + Length(file[u]), 0, URIs) = Total(v)
    BY FoldIsTotal
  <2> HIDE DEF v
  <2> QED
    BY <2>5, <2>6 DEF QuotaCovers, DiskInv, QuotaInv, Within
<1> QED
  BY <1>1, EngineInvariant, PTL

-----------------------------------------------------------------------------
(* Only the backend's Put takes a client from its write to its notification. *)
LEMMA StoredByPut ==
    ASSUME ClientType, OtherType, [Next]_vars, NEW c \in Clients, Stored(c)
    PROVE  BackendPut(c)
<1>1. pc[c] = "store" /\ pc'[c] = "notify"
  BY DEF Stored
<1>2. ASSUME NEW d \in Clients, Step(d) PROVE BackendPut(c)
  BY <1>1, <1>2
  DEF Step, Put, RestoreResource, RepairResource, BackendPut, BackendRefuses,
      PutNotify, Delete, DeleteWithTombstone, BackendDelete, DeleteMetadata,
      DeleteNotify, PolicyLoad, LoadPolicy, Finish, ClientType, Start
<1>3. ASSUME Restart PROVE FALSE
  BY <1>1, <1>3 DEF Restart
<1>4. ASSUME pc' = pc PROVE FALSE
  BY <1>1, <1>4
<1> QED
  BY <1>2, <1>3, <1>4
  DEF Next, vars, BeginTransaction, Commit, Rollback, TransactionPut,
      TransactionDelete, Backup, Crash, CrashMemory

(* The backend's own test of a precondition names what is there.             *)
LEMMA PreconditionNames ==
    ASSUME DiskInv, NEW u \in URIs, NEW cond \in Conditions \union {Unconditional},
           BackendPreconditions(u, cond)
    PROVE  /\ cond.kind = "match" => file[u] = cond.tag \/ torn[u]
           /\ cond.kind = "absent" => file[u] = None
<1>1. CASE cond.kind = "absent"
  BY <1>1 DEF BackendPreconditions, Exists
<1>2. CASE cond.kind = "match"
  <2>1. cond.tag \in Contents
    <3>1. cond # Unconditional
      BY <1>2 DEF Unconditional
    <3>2. cond \in [kind: {"none", "absent", "exists"}, tag: {None}]
          \/ cond \in [kind: {"match", "differs", "cas"}, tag: Contents]
      BY <3>1, StorageAssumption DEF Contents
    <3> QED
      BY <1>2, <3>2
  <2>2. GetResourceNoLock(u) = cond.tag
    BY <1>2 DEF BackendPreconditions
  <2>3. /\ file[u] # None /\ meta[u] \notin {None, Broken}
        /\ meta[u].etag = cond.tag
    BY <2>1, <2>2, StorageAssumption DEF GetResourceNoLock, Contents
  <2>4. torn[u] \in BOOLEAN
    BY DEF DiskInv, DiskType
  <2> QED
    BY <1>2, <2>3, <2>4 DEF DiskInv, TagInv
<1> QED
  BY <1>1, <1>2

(* No lost update, whoever writes between the engine's test and the write.   *)
THEOREM NoLostUpdate == Spec => ConditionalWriteReplacesNamed
<1> DEFINE Named == \A c \in Clients : Stored(c) =>
              LET o == op[c] IN
              /\ o.cond.kind = "match" => file[o.u] = o.cond.tag \/ torn[o.u]
              /\ o.cond.kind = "absent" => file[o.u] = None
<1>1. DiskInv /\ ClientType /\ OtherType /\ [Next]_vars => Named
  <2> SUFFICES ASSUME DiskInv, ClientType, OtherType, [Next]_vars,
                      NEW c \in Clients, Stored(c)
               PROVE  LET o == op[c] IN
                      /\ o.cond.kind = "match" =>
                            file[o.u] = o.cond.tag \/ torn[o.u]
                      /\ o.cond.kind = "absent" => file[o.u] = None
    OBVIOUS
  <2>1. BackendPut(c)
    BY StoredByPut
  <2>2. /\ op[c].u \in URIs /\ op[c].cond \in Conditions \union {Unconditional}
        /\ BackendPreconditions(op[c].u, op[c].cond)
    BY <2>1 DEF BackendPut, ClientType, OpRecord
  <2> QED
    BY <2>2, PreconditionNames
<1>2. [][Named]_vars => ConditionalWriteReplacesNamed
  BY PTL DEF ConditionalWriteReplacesNamed
<1> QED
  BY <1>1, <1>2, EngineInvariant, PTL DEF Spec

-----------------------------------------------------------------------------
(* PolicyCacheFresh excuses every client that is about to notify, or to      *)
(* delete again. Only one that has written and not yet notified has to be.   *)
(* What each step keeps says as much of the copies clients are about to keep *)
(* as of the one that is kept.                                               *)
Announces(c, u) == pc[c] = "notify" /\ op[c].kind = "put" /\ op[c].u = u

Settled(u) == last[u] = "put" /\ (\A c \in Clients : ~Announces(c, u))

KeptInv ==
    \A u \in Policies \ stale : Settled(u) => cached[u] \in {None, file[u]}

ReadInv ==
    \A c \in Clients \ late :
        pc[c] = "keep" /\ Settled(op[c].u) => op[c].b = file[op[c].u]

CacheInv == KeptInv /\ ReadInv

(* A step that settles no resource, and changes nothing a settled one has.   *)
LEMMA CacheKeeps ==
    ASSUME CacheInv, ClientType, UNCHANGED policyVars,
           \A u \in URIs : Settled(u)' => Settled(u) /\ file'[u] = file[u],
           \A c \in Clients : pc'[c] = "keep" => pc[c] = "keep" /\ op'[c] = op[c]
    PROVE  CacheInv'
<1>1. KeptInv'
  <2> SUFFICES ASSUME NEW u \in Policies, u \notin stale', Settled(u)'
               PROVE  cached'[u] \in {None, file'[u]}
    BY DEF KeptInv
  <2>1. u \in URIs /\ u \notin stale /\ cached' = cached
    BY StorageAssumption DEF policyVars
  <2> QED
    BY <2>1 DEF CacheInv, KeptInv
<1>2. ReadInv'
  <2> SUFFICES ASSUME NEW c \in Clients, c \notin late', pc'[c] = "keep",
                      Settled(op[c].u)'
               PROVE  op'[c].b = file'[op'[c].u]
    BY DEF ReadInv
  <2>1. pc[c] = "keep" /\ op'[c] = op[c] /\ c \notin late
        /\ op[c].u \in URIs
    BY DEF ClientType, policyVars
  <2>2. Settled(op[c].u) /\ file'[op[c].u] = file[op[c].u]
    BY <2>1
  <2> QED
    BY <2>1, <2>2 DEF CacheInv, ReadInv
<1> QED
  BY <1>1, <1>2 DEF CacheInv

(* A step that touches neither the resources nor the cache, and ends no      *)
(* announcement.                                                             *)
LEMMA CacheSame ==
    ASSUME CacheInv, ClientType, UNCHANGED <<last, file, policyVars>>,
           \A c \in Clients : pc[c] = "notify" /\ op[c].kind = "put" =>
              pc'[c] = "notify" /\ op'[c] = op[c],
           \A c \in Clients : pc'[c] = "keep" => pc[c] = "keep" /\ op'[c] = op[c]
    PROVE  CacheInv'
<1>1. \A u \in URIs : Settled(u)' => Settled(u) /\ file'[u] = file[u]
  BY DEF Settled, Announces
<1> QED
  BY <1>1, CacheKeeps

(* A step that changes resource v by other means than Put, and ends no       *)
(* announcement.                                                             *)
LEMMA CacheOther ==
    ASSUME CacheInv, DiskType, ClientType, NEW v \in URIs, NEW r,
           NEW kind \in {"delete", "other"},
           Apply(v, r), Remember(v, r, kind), UNCHANGED policyVars,
           \A c \in Clients : pc[c] = "notify" /\ op[c].kind = "put" =>
              pc'[c] = "notify" /\ op'[c] = op[c],
           \A c \in Clients : pc'[c] = "keep" => pc[c] = "keep" /\ op'[c] = op[c]
    PROVE  CacheInv'
<1>1. last'[v] # "put"
      /\ \A u \in URIs : u # v => last'[u] = last[u] /\ file'[u] = file[u]
  BY DEF Apply, Store, Remember, Describe, DiskType
<1>2. \A u \in URIs : Settled(u)' => Settled(u) /\ file'[u] = file[u]
  BY <1>1 DEF Settled, Announces
<1> QED
  BY <1>2, CacheKeeps

LEMMA NextCache ==
    DiskType /\ ClientType /\ OtherType /\ CacheInv /\ [Next]_vars => CacheInv'
<1> SUFFICES ASSUME DiskType, ClientType, OtherType, CacheInv, [Next]_vars
             PROVE  CacheInv'
  OBVIOUS
<1> USE DEF disk, ghosts
<1>1. ASSUME NEW c \in Clients,
             \/ Put(c) \/ RestoreResource(c) \/ RepairResource(c)
             \/ Delete(c) \/ DeleteWithTombstone(c) \/ BackendRefuses(c)
      PROVE  CacheInv'
  <2>1. UNCHANGED <<last, file, policyVars>> /\ pc[c] \in {"idle", "store"}
    BY <1>1 DEF Put, RestoreResource, RepairResource, Delete,
                DeleteWithTombstone, BackendRefuses, Start
  <2>2. \A d \in Clients : d # c => pc'[d] = pc[d] /\ op'[d] = op[d]
    BY <1>1 DEF Put, RestoreResource, RepairResource, Delete,
                DeleteWithTombstone, BackendRefuses, Start, Finish, ClientType
  <2>3. pc'[c] # "keep"
    BY <1>1 DEF Put, RestoreResource, RepairResource, Delete,
                DeleteWithTombstone, BackendRefuses, Start, Finish, ClientType
  <2> QED
    BY <2>1, <2>2, <2>3, CacheSame
<1>2. ASSUME NEW c \in Clients, BackendPut(c) PROVE CacheInv'
  <2>1. pc[c] = "store" /\ op[c].u \in URIs /\ op[c].kind = "put"
        /\ UNCHANGED policyVars
    BY <1>2 DEF BackendPut, ClientType
  <2>2. PICK r \in PutOutcomes(op[c].u, op[c].b, op[c].m) :
             /\ Apply(op[c].u, r) /\ Remember(op[c].u, r, "put")
             /\ IF r.ok THEN pc' = [pc EXCEPT ![c] = "notify"] /\ op' = op
                        ELSE Finish(c)
    BY <1>2 DEF BackendPut
  <2>3. /\ \A d \in Clients : d # c => pc'[d] = pc[d] /\ op'[d] = op[d]
        /\ pc'[c] # "keep"
    BY <2>2 DEF Finish, ClientType
  <2>4. CASE r.ok
    <3>1. pc'[c] = "notify" /\ op'[c] = op[c]
      BY <2>2, <2>4 DEF ClientType
    <3>2. \A u \in URIs :
             u # op[c].u => last'[u] = last[u] /\ file'[u] = file[u]
      BY <2>1, <2>2 DEF Apply, Store, Remember, Describe, DiskType
    <3>3. ASSUME NEW u \in URIs, Settled(u)'
          PROVE  Settled(u) /\ file'[u] = file[u]
      <4>1. u # op[c].u
        BY <2>1, <3>1, <3>3 DEF Settled, Announces
      <4>2. \A d \in Clients : ~Announces(d, u)
        BY <2>1, <2>3, <3>3 DEF Settled, Announces
      <4> QED
        BY <3>2, <3>3, <4>1, <4>2 DEF Settled
    <3> QED
      BY <2>1, <2>3, <3>3, CacheKeeps
  <2>5. CASE ~r.ok
    <3>1. Remember(op[c].u, r, "other")
      BY <2>2, <2>5 DEF Remember, Describe
    <3> QED
      BY <2>1, <2>2, <2>3, <3>1, CacheOther
  <2> QED
    BY <2>4, <2>5
<1>3. ASSUME NEW c \in Clients, PutNotify(c) PROVE CacheInv'
  <2> DEFINE v == op[c].u
  <2>1. /\ UNCHANGED <<last, file>> /\ pc[c] = "notify" /\ v \in URIs
        /\ \A d \in Clients : d # c => pc'[d] = pc[d] /\ op'[d] = op[d]
        /\ pc'[c] = "idle" /\ late' = late \union Outdated(v)
    BY <1>3 DEF PutNotify, Finish, ClientType
  <2>2. \A u \in URIs : u # v /\ Settled(u)' => Settled(u)
    BY <2>1 DEF Settled, Announces
  <2>3. KeptInv'
    <3> SUFFICES ASSUME NEW u \in Policies, u \notin stale', Settled(u)'
                 PROVE  cached'[u] \in {None, file'[u]}
      BY DEF KeptInv
    <3>1. u \in URIs
      BY StorageAssumption
    <3>2. CASE u = v
      BY <1>3, <3>1, <3>2 DEF PutNotify, Invalidate, OtherType
    <3>3. CASE u # v
      <4>1. cached'[u] = cached[u] /\ u \notin stale
        BY <1>3, <3>1, <3>3 DEF PutNotify, Invalidate, OtherType
      <4> QED
        BY <2>1, <2>2, <3>1, <3>3, <4>1 DEF CacheInv, KeptInv
    <3> QED
      BY <3>2, <3>3
  <2>4. ReadInv'
    <3> SUFFICES ASSUME NEW d \in Clients, d \notin late', pc'[d] = "keep",
                        Settled(op[d].u)'
                 PROVE  op'[d].b = file'[op'[d].u]
      BY DEF ReadInv
    <3>1. d # c /\ pc[d] = "keep" /\ op'[d] = op[d] /\ d \notin late
          /\ d \notin Outdated(v) /\ op[d].u \in URIs
      BY <2>1 DEF ClientType
    <3>2. CASE op[d].u = v
      BY <2>1, <3>1, <3>2 DEF Outdated
    <3>3. CASE op[d].u # v
      BY <2>1, <2>2, <3>1, <3>3 DEF CacheInv, ReadInv
    <3> QED
      BY <3>2, <3>3
  <2> QED
    BY <2>3, <2>4 DEF CacheInv
<1>4. ASSUME NEW c \in Clients, DeleteNotify(c) PROVE CacheInv'
  <2>1. /\ UNCHANGED <<last, file, late>> /\ op[c].kind = "delete"
        /\ \A d \in Clients : d # c => pc'[d] = pc[d] /\ op'[d] = op[d]
        /\ pc'[c] = "idle"
    BY <1>4 DEF DeleteNotify, Finish, ClientType
  <2>2. \A u \in URIs : Settled(u)' => Settled(u)
    BY <2>1 DEF Settled, Announces
  <2>3. \A u \in Policies :
           \/ cached'[u] = None
           \/ cached'[u] = cached[u] /\ (u \in stale' <=> u \in stale)
    BY <1>4, StorageAssumption DEF DeleteNotify, Invalidate, OtherType
  <2>4. KeptInv'
    BY <2>1, <2>2, <2>3, StorageAssumption DEF CacheInv, KeptInv
  <2>5. ReadInv'
    <3> SUFFICES ASSUME NEW d \in Clients, d \notin late', pc'[d] = "keep",
                        Settled(op[d].u)'
                 PROVE  op'[d].b = file'[op'[d].u]
      BY DEF ReadInv
    <3>1. d # c /\ pc[d] = "keep" /\ op'[d] = op[d] /\ d \notin late
          /\ op[d].u \in URIs
      BY <2>1 DEF ClientType
    <3> QED
      BY <2>1, <2>2, <3>1 DEF CacheInv, ReadInv
  <2> QED
    BY <2>4, <2>5 DEF CacheInv
<1>5. ASSUME NEW c \in Clients, BackendDelete(c) \/ DeleteMetadata(c)
      PROVE  CacheInv'
  <2>1. pc[c] \in {"remove", "again"} /\ op[c].u \in URIs
        /\ UNCHANGED policyVars
    BY <1>5 DEF BackendDelete, DeleteMetadata, ClientType
  <2>2. \E r \in DeleteOutcomes(op[c].u) :
           Apply(op[c].u, r) /\ Remember(op[c].u, r, "delete")
    BY <1>5 DEF BackendDelete, DeleteMetadata
  <2>3. /\ \A d \in Clients : d # c => pc'[d] = pc[d] /\ op'[d] = op[d]
        /\ pc'[c] # "keep"
    BY <1>5 DEF BackendDelete, DeleteMetadata, Finish, ClientType
  <2> QED
    BY <2>1, <2>2, <2>3, CacheOther
<1>6. CASE Commit
  <2>1. UNCHANGED <<pc, op, policyVars>>
    BY <1>6 DEF Commit
  <2>2. ASSUME NEW u \in URIs, NEW r, Apply(u, r), Remember(u, r, "other")
        PROVE  CacheInv'
    BY <2>1, <2>2, CacheOther
  <2>3. CASE UNCHANGED <<disk, ghosts>>
    BY <2>1, <2>3, CacheSame
  <2> QED
    BY <1>6, <2>2, <2>3 DEF Commit, CommitWrites, OtherType, Transactions
<1>7. ASSUME NEW c \in Clients, PolicyLoad(c) PROVE CacheInv'
  <2>1. PICK u \in Policies :
             Get(u) # None /\ Start(c, "load", u, Get(u).b, None, Unconditional)
    BY <1>7 DEF PolicyLoad
  <2>2. Get(u).b = file[u] /\ u \in URIs
    BY <2>1, GetType, StorageAssumption
  <2>3. /\ op'[c].u = u /\ op'[c].b = file[u] /\ pc[c] = "idle"
        /\ pc'[c] = "keep"
        /\ \A d \in Clients : d # c => pc'[d] = pc[d] /\ op'[d] = op[d]
        /\ UNCHANGED <<last, file, policyVars>>
    BY <1>7, <2>1, <2>2 DEF PolicyLoad, Start, ClientType
  <2>4. \A x \in URIs : Settled(x)' => Settled(x)
    BY <2>3 DEF Settled, Announces
  <2>5. KeptInv'
    BY <2>3, <2>4, StorageAssumption DEF CacheInv, KeptInv, policyVars
  <2>6. ReadInv'
    <3> SUFFICES ASSUME NEW d \in Clients, d \notin late', pc'[d] = "keep",
                        Settled(op[d].u)'
                 PROVE  op'[d].b = file'[op'[d].u]
      BY DEF ReadInv
    <3>1. CASE d = c
      BY <2>3, <3>1
    <3>2. CASE d # c
      <4>1. pc[d] = "keep" /\ op'[d] = op[d] /\ d \notin late
            /\ op[d].u \in URIs
        BY <2>3, <3>2 DEF ClientType, policyVars
      <4> QED
        BY <2>3, <2>4, <4>1 DEF CacheInv, ReadInv
    <3> QED
      BY <3>1, <3>2
  <2> QED
    BY <2>5, <2>6 DEF CacheInv
<1>10. ASSUME NEW c \in Clients, LoadPolicy(c) PROVE CacheInv'
  <2> DEFINE v == op[c].u
  <2>1. /\ UNCHANGED <<last, file>> /\ pc[c] = "keep" /\ v \in URIs
        /\ \A d \in Clients : d # c => pc'[d] = pc[d] /\ op'[d] = op[d]
        /\ pc'[c] = "idle" /\ late' = late \ {c}
        /\ cached' = [cached EXCEPT ![v] = op[c].b]
        /\ stale' = IF c \in late THEN stale \union {v} ELSE stale \ {v}
    BY <1>10 DEF LoadPolicy, Finish, ClientType
  <2>2. \A u \in URIs : Settled(u)' => Settled(u)
    BY <2>1 DEF Settled, Announces
  <2>3. KeptInv'
    <3> SUFFICES ASSUME NEW u \in Policies, u \notin stale', Settled(u)'
                 PROVE  cached'[u] \in {None, file'[u]}
      BY DEF KeptInv
    <3>1. u \in URIs
      BY StorageAssumption
    <3>2. CASE u = v
      <4>1. c \notin late /\ cached'[u] = op[c].b
        BY <2>1, <3>1, <3>2 DEF OtherType
      <4> QED
        BY <2>1, <2>2, <3>1, <3>2, <4>1 DEF CacheInv, ReadInv
    <3>3. CASE u # v
      <4>1. cached'[u] = cached[u] /\ u \notin stale
        BY <2>1, <3>1, <3>3 DEF OtherType
      <4> QED
        BY <2>1, <2>2, <3>1, <4>1 DEF CacheInv, KeptInv
    <3> QED
      BY <3>2, <3>3
  <2>4. ReadInv'
    <3> SUFFICES ASSUME NEW d \in Clients, d \notin late', pc'[d] = "keep",
                        Settled(op[d].u)'
                 PROVE  op'[d].b = file'[op'[d].u]
      BY DEF ReadInv
    <3>1. d # c /\ pc[d] = "keep" /\ op'[d] = op[d] /\ d \notin late
          /\ op[d].u \in URIs
      BY <2>1 DEF ClientType
    <3> QED
      BY <2>1, <2>2, <3>1 DEF CacheInv, ReadInv
  <2> QED
    BY <2>3, <2>4 DEF CacheInv
<1>8. ASSUME Restart PROVE CacheInv'
  BY <1>8, StorageAssumption DEF Restart, CacheInv, KeptInv, ReadInv
<1>9. ASSUME UNCHANGED <<last, file, policyVars, pc, op>> PROVE CacheInv'
  BY <1>9, CacheSame
<1> QED
  BY <1>1, <1>2, <1>3, <1>4, <1>5, <1>6, <1>7, <1>8, <1>9, <1>10
  DEF Next, Step, vars, policyVars, BeginTransaction, Rollback, TransactionPut,
      TransactionDelete, Backup, Crash, CrashMemory

(* A policy written through the engine is not shadowed by an older copy,     *)
(* except by one that was read before the write was announced and kept after.*)
THEOREM PolicyCacheNeverStale == Spec => []PolicyCacheFresh
<1>1. Init => CacheInv
  BY StorageAssumption DEF Init, CacheInv, KeptInv, ReadInv
<1>2. DiskInv => DiskType
  BY DEF DiskInv
<1>3. CacheInv => PolicyCacheFresh
  BY DEF CacheInv, KeptInv, Settled, PolicyCacheFresh, Announces, Busy
<1> QED
  BY <1>1, <1>2, <1>3, EngineInvariant, NextCache, PTL DEF Spec
=============================================================================
