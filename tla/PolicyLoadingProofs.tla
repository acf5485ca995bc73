------------------------- MODULE PolicyLoadingProofs --------------------------
(* Proofs about PolicyLoading, for any number of requests, any sources, any   *)
(* number of retries and any times.                                           *)
EXTENDS PolicyLoading, TLAPS

Places == {"idle", "next", "attempt", "backoff", "fetch", "store", "evaluate", "done"}

(* Where a request works on the first of the sources it has left.             *)
Loading == {"attempt", "backoff", "fetch", "store"}

Docs == UNION {[D -> Nat] : D \in SUBSET Range(Sources)}

RequestRecord ==
    [pc: Places, start: Nat, todo: Seq(Range(Sources)), attempt: Nat, tries: Nat,
     fetched: Nat \union {None}, docs: Docs, allowed: SUBSET (Families \X Asks)]

CacheRecord == [fetched: Nat, expires: Nat]

PolicyType ==
    /\ now \in Nat
    /\ store \in [Range(Order) -> CacheRecord \union {None}]
    /\ req \in [Requests -> RequestRecord]

(* A request between its steps.                                               *)
InStep(q) ==
    /\ q.pc \in Loading => q.todo # <<>>
    /\ q.pc = "store" => q.fetched # None

(* A request that is under way began at most a timeout ago.                   *)
InTime(q) ==
    q.pc \notin {"idle", "done"} => q.start <= now /\ now <= q.start + Timeout

(* What a request has was said after it began, or was found in the cache,     *)
(* where a record stays for Expiry after a load that took less than Timeout.  *)
SaidAfter(q) ==
    /\ q.fetched # None => q.start <= q.fetched
    /\ \A s \in DOMAIN q.docs : q.start < q.docs[s] + Expiry + Timeout

StoredInTime(record) ==
    record # None => record.expires < record.fetched + Expiry + Timeout

(* What a request was allowed, all the policies together grant.               *)
AllowedByAll(q) == q.allowed \subseteq Granted(Range(Sources))

GoodRequest(q) ==
    q \in RequestRecord /\ InStep(q) /\ InTime(q) /\ SaidAfter(q) /\ AllowedByAll(q)

(* The inductive invariant.                                                   *)
LoadingInv ==
    /\ PolicyType
    /\ \A r \in Requests : GoodRequest(req[r])
    /\ \A s \in Range(Order) : StoredInTime(store[s])

(******************************************************************************)
(* The sources.                                                               *)

LEMMA IsASequence ==
    ASSUME NEW S, NEW n \in Nat, NEW s \in [1..n -> S]
    PROVE  s \in Seq(S)
OBVIOUS

(* No more sources than MaxPolicySources, all of them of the order.           *)
LEMMA SourcesType ==
    /\ Sources \in Seq(Range(Sources))
    /\ Range(Sources) \subseteq Range(Order)
<1> DEFINE n == IF Len(Order) > MaxPolicySources THEN MaxPolicySources ELSE Len(Order)
<1>1. n \in Nat /\ n <= Len(Order) /\ Sources = SubSeq(Order, 1, n)
  BY PolicyAssumption DEF Sources
<1> HIDE DEF n
<1>2. Sources = [i \in 1..n |-> Order[i]]
  BY <1>1, PolicyAssumption
<1>3. DOMAIN Sources = 1..n /\ \A i \in 1..n : Sources[i] = Order[i]
  BY <1>2
<1>4. Range(Sources) \subseteq Range(Order)
  BY <1>1, <1>3, PolicyAssumption DEF Range
<1>5. Sources \in Seq(Range(Sources))
  <2>1. Sources \in [1..n -> Range(Sources)]
    BY <1>2 DEF Range
  <2> QED
    BY <2>1, <1>1, IsASequence
<1> QED
  BY <1>4, <1>5

(* More policies grant more, and nothing is allowed that is not granted.      *)
LEMMA MorePoliciesGrantMore ==
    ASSUME NEW D, D \subseteq Range(Sources)
    PROVE  Allowed(D) \subseteq Granted(Range(Sources))
<1> DEFINE E == Range(Sources)
<1> SUFFICES ASSUME NEW judged \in Families \X Asks,
                    Evaluate(judged[1], judged[2], D) = "allow"
             PROVE  /\ judged[2].modes # {}
                    /\ EvaluateRequest(judged[1], judged[2], E) = "allow"
  BY DEF Allowed, Granted
<1> DEFINE f == judged[1]
           a == judged[2]
<1>1. a.modes # {} /\ EvaluateRequest(f, a, D) = "allow"
  BY DEF Evaluate
<1>2. ParsePolicies(f, D) \subseteq ParsePolicies(f, E)
  BY DEF ParsePolicies
<1> QED
  BY <1>1, <1>2 DEF EvaluateRequest

(******************************************************************************)
(* The invariant is inductive.                                                *)

(* A request that has not begun.                                              *)
LEMMA IdleRecord ==
    /\ Idle \in RequestRecord
    /\ Idle.todo = <<>> /\ Idle.docs = <<>> /\ Idle.allowed = {}
    /\ Idle.fetched = None /\ Idle.start = 0
<1>1. <<>> \in Docs
  BY DEF Docs
<1>2. <<>> \in Seq(Range(Sources))
  OBVIOUS
<1> QED
  BY <1>1, <1>2 DEF Idle, RequestRecord, Places

LEMMA InitGood == Init => LoadingInv
<1> SUFFICES ASSUME Init PROVE LoadingInv
  OBVIOUS
<1>1. Idle \in RequestRecord
  BY IdleRecord
<1>2. GoodRequest(Idle)
  BY <1>1 DEF GoodRequest, Idle, InStep, InTime, SaidAfter, AllowedByAll, Loading
<1>3. \A r \in Requests : req[r] = Idle
  BY DEF Init
<1>4. \A s \in Range(Order) : store[s] = None
  BY DEF Init
<1>5. PolicyType
  BY <1>1 DEF PolicyType, Init
<1> QED
  BY <1>2, <1>3, <1>4, <1>5 DEF LoadingInv, StoredInTime

(* A step of one request that leaves the time alone.                          *)
LEMMA OneRequestMoves ==
    ASSUME LoadingInv, NEW r \in Requests, NEW q, GoodRequest(q), Set(r, q),
           now' = now,
           store' \in [Range(Order) -> CacheRecord \union {None}],
           \A s \in Range(Order) : StoredInTime(store'[s])
    PROVE  LoadingInv'
<1>1. req' \in [Requests -> RequestRecord]
  BY DEF LoadingInv, PolicyType, Set, GoodRequest
<1>2. \A p \in Requests : req'[p] = IF p = r THEN q ELSE req[p]
  BY DEF LoadingInv, PolicyType, Set
<1>3. \A p \in Requests : GoodRequest(req[p])'
  <2> SUFFICES ASSUME NEW p \in Requests PROVE GoodRequest(req[p])'
    OBVIOUS
  <2>1. GoodRequest(req'[p])
    BY <1>2 DEF LoadingInv
  <2> QED
    BY <2>1 DEF GoodRequest, InTime, InStep, SaidAfter, AllowedByAll, Granted, RequestRecord
<1> QED
  BY <1>1, <1>3 DEF LoadingInv, PolicyType, StoredInTime

(* The same, for the many steps that leave the cache alone too.               *)
LEMMA OnlyOneRequestMoves ==
    ASSUME LoadingInv, NEW r \in Requests, NEW q, GoodRequest(q), Set(r, q),
           UNCHANGED <<now, store>>
    PROVE  LoadingInv'
BY OneRequestMoves DEF LoadingInv, PolicyType

(* What is known of a request.                                                *)
LEMMA Known ==
    ASSUME LoadingInv, NEW r \in Requests
    PROVE  /\ GoodRequest(req[r])
           /\ now \in Nat /\ req[r].start \in Nat
           /\ DOMAIN req = Requests
BY DEF LoadingInv, PolicyType, GoodRequest, RequestRecord

(* The first source of a request that is loading.                             *)
LEMMA SourceKnown ==
    ASSUME LoadingInv, NEW r \in Requests, req[r].pc \in Loading
    PROVE  /\ Source(r) \in Range(Sources)
           /\ Source(r) \in Range(Order)
           /\ Tail(req[r].todo) \in Seq(Range(Sources))
<1>1. req[r].todo \in Seq(Range(Sources)) /\ req[r].todo # <<>>
  BY Known DEF GoodRequest, RequestRecord, InStep
<1> QED
  BY <1>1, SourcesType DEF Source

(* A request goes on to its next source with good documents.                  *)
LEMMA FurtherGood ==
    ASSUME LoadingInv, NEW r \in Requests, req[r].pc \in Loading,
           NEW docs \in Docs,
           \A s \in DOMAIN docs : req[r].start < docs[s] + Expiry + Timeout
    PROVE  GoodRequest([req[r] EXCEPT !.pc = "next", !.todo = Tail(@), !.attempt = 0,
                          !.tries = 0, !.fetched = None, !.docs = docs])
<1> DEFINE q == [req[r] EXCEPT !.pc = "next", !.todo = Tail(@), !.attempt = 0,
                          !.tries = 0, !.fetched = None, !.docs = docs]
<1>1. GoodRequest(req[r]) /\ Tail(req[r].todo) \in Seq(Range(Sources))
  BY Known, SourceKnown
<1>2. q \in RequestRecord
  BY <1>1 DEF GoodRequest, RequestRecord, Places
<1>3. /\ q.pc = "next" /\ q.start = req[r].start /\ q.fetched = None
      /\ q.docs = docs /\ q.allowed = req[r].allowed
  BY <1>1 DEF GoodRequest, RequestRecord
<1> HIDE DEF q
<1>4. InTime(q)
  BY <1>1, <1>3 DEF GoodRequest, InTime, Loading
<1>5. InStep(q) /\ SaidAfter(q) /\ AllowedByAll(q)
  BY <1>1, <1>3 DEF GoodRequest, InStep, SaidAfter, AllowedByAll, Loading
<1>6. GoodRequest(q)
  BY <1>2, <1>4, <1>5 DEF GoodRequest
<1> QED
  BY <1>6 DEF q

(* A source that could not be loaded.                                         *)
LEMMA GivesUpGood ==
    ASSUME LoadingInv, NEW r \in Requests, req[r].pc \in Loading,
           GivesUp(r), UNCHANGED <<now, store>>
    PROVE  LoadingInv'
<1> DEFINE docs == req[r].docs
<1>1. docs \in Docs
  BY Known DEF GoodRequest, RequestRecord
<1>2. \A s \in DOMAIN docs : req[r].start < docs[s] + Expiry + Timeout
  BY Known DEF GoodRequest, SaidAfter
<1>3. Further(r, docs)
  BY DEF GivesUp
<1> HIDE DEF docs
<1> QED
  BY <1>1, <1>2, <1>3, FurtherGood, OnlyOneRequestMoves DEF Further

(* A source that was loaded, or found in the cache.                           *)
LEMMA LoadedGood ==
    ASSUME LoadingInv, NEW r \in Requests, req[r].pc \in Loading,
           NEW t \in Nat, req[r].start < t + Expiry + Timeout,
           Loaded(r, t), now' = now,
           store' \in [Range(Order) -> CacheRecord \union {None}],
           \A s \in Range(Order) : StoredInTime(store'[s])
    PROVE  LoadingInv'
<1> DEFINE docs == [s \in DOMAIN req[r].docs \union {Source(r)} |->
                       IF s = Source(r) THEN t ELSE req[r].docs[s]]
<1>1. GoodRequest(req[r]) /\ Source(r) \in Range(Sources)
  BY Known, SourceKnown
<1>2. docs \in Docs
  <2>1. PICK D \in SUBSET Range(Sources) : req[r].docs \in [D -> Nat]
    BY <1>1 DEF GoodRequest, RequestRecord, Docs
  <2>2. docs \in [D \union {Source(r)} -> Nat]
    BY <2>1
  <2> QED
    BY <1>1, <2>1, <2>2 DEF Docs
<1>3. \A s \in DOMAIN docs : req[r].start < docs[s] + Expiry + Timeout
  BY <1>1 DEF GoodRequest, SaidAfter
<1> HIDE DEF docs
<1>4. Further(r, docs)
  BY DEF Loaded, docs
<1> QED
  BY <1>2, <1>3, <1>4, FurtherGood, OneRequestMoves DEF Further

(* An attempt that failed.                                                    *)
LEMMA AttemptFailedGood ==
    ASSUME LoadingInv, NEW r \in Requests, req[r].pc = "fetch",
           AttemptFailed(r), UNCHANGED <<now, store>>
    PROVE  LoadingInv'
<1>0. req[r].pc \in Loading
  BY DEF Loading
<1>1. CASE GivesUp(r)
  BY <1>0, <1>1, GivesUpGood
<1>2. CASE ~GivesUp(r)
  <2> DEFINE q == [req[r] EXCEPT !.pc = "backoff", !.attempt = @ + 1, !.tries = 0,
                               !.fetched = None]
  <2>1. Set(r, q)
    BY <1>2 DEF AttemptFailed
  <2>2. GoodRequest(req[r])
    BY Known
  <2>3. q \in RequestRecord
    <3>1. req[r].attempt + 1 \in Nat
      BY <2>2 DEF GoodRequest, RequestRecord
    <3> DEFINE n == req[r].attempt + 1
    <3> HIDE DEF n
    <3>2. q = [req[r] EXCEPT !.pc = "backoff", !.attempt = n, !.tries = 0,
                             !.fetched = None]
      BY DEF n
    <3> QED
      BY <2>2, <3>1, <3>2 DEF n, GoodRequest, RequestRecord, Places
  <2>4. /\ q.pc = "backoff" /\ q.start = req[r].start /\ q.fetched = None
        /\ q.todo = req[r].todo /\ q.docs = req[r].docs /\ q.allowed = req[r].allowed
    BY <2>2 DEF GoodRequest, RequestRecord
  <2> HIDE DEF q
  <2>5. InStep(q) /\ InTime(q)
    BY <1>0, <2>2, <2>4 DEF GoodRequest, InStep, InTime, Loading
  <2>6. SaidAfter(q) /\ AllowedByAll(q)
    BY <2>2, <2>4 DEF GoodRequest, SaidAfter, AllowedByAll
  <2> QED
    BY <2>1, <2>3, <2>5, <2>6, OnlyOneRequestMoves DEF GoodRequest
<1> QED
  BY <1>1, <1>2

(* A request that only moves from one place to another on the same source.    *)
LEMMA PlaceGood ==
    ASSUME LoadingInv, NEW r \in Requests, NEW p \in Loading,
           req[r].pc \in Loading \union {"next"},
           req[r].todo # <<>>,
           p = "store" => req[r].fetched # None,
           Set(r, [req[r] EXCEPT !.pc = p]), UNCHANGED <<now, store>>
    PROVE  LoadingInv'
<1> DEFINE q == [req[r] EXCEPT !.pc = p]
<1>1. GoodRequest(req[r])
  BY Known
<1>2. q \in RequestRecord
  BY <1>1 DEF GoodRequest, RequestRecord, Places, Loading
<1>3. /\ q.pc = p /\ q.start = req[r].start /\ q.fetched = req[r].fetched
      /\ q.todo = req[r].todo /\ q.docs = req[r].docs /\ q.allowed = req[r].allowed
  BY <1>1 DEF GoodRequest, RequestRecord
<1>4. Set(r, q)
  OBVIOUS
<1> HIDE DEF q
<1>5. InStep(q) /\ InTime(q)
  BY <1>1, <1>3 DEF GoodRequest, InStep, InTime, Loading
<1>6. SaidAfter(q) /\ AllowedByAll(q)
  BY <1>1, <1>3 DEF GoodRequest, SaidAfter, AllowedByAll
<1> QED
  BY <1>2, <1>4, <1>5, <1>6, OnlyOneRequestMoves DEF GoodRequest

(* A request that has no source left, or no time.                             *)
LEMMA ToEvaluateGood ==
    ASSUME LoadingInv, NEW r \in Requests, req[r].pc = "next",
           Set(r, [req[r] EXCEPT !.pc = "evaluate", !.todo = <<>>]),
           UNCHANGED <<now, store>>
    PROVE  LoadingInv'
<1> DEFINE q == [req[r] EXCEPT !.pc = "evaluate", !.todo = <<>>]
<1>1. GoodRequest(req[r])
  BY Known
<1>2. q \in RequestRecord
  <2> DEFINE empty == <<>>
  <2>1. empty \in Seq(Range(Sources))
    OBVIOUS
  <2> HIDE DEF empty
  <2>2. q = [req[r] EXCEPT !.pc = "evaluate", !.todo = empty]
    BY DEF empty
  <2> QED
    BY <1>1, <2>1, <2>2 DEF GoodRequest, RequestRecord, Places
<1>3. /\ q.pc = "evaluate" /\ q.start = req[r].start /\ q.fetched = req[r].fetched
      /\ q.docs = req[r].docs /\ q.allowed = req[r].allowed
  BY <1>1 DEF GoodRequest, RequestRecord
<1>4. Set(r, q)
  OBVIOUS
<1> HIDE DEF q
<1>5. InStep(q) /\ InTime(q)
  BY <1>1, <1>3 DEF GoodRequest, InStep, InTime, Loading
<1>6. SaidAfter(q) /\ AllowedByAll(q)
  BY <1>1, <1>3 DEF GoodRequest, SaidAfter, AllowedByAll
<1> QED
  BY <1>2, <1>4, <1>5, <1>6, OnlyOneRequestMoves DEF GoodRequest

(* A new request, an answer and a decision.                                   *)
LEMMA MiddlewareGood ==
    ASSUME LoadingInv, NEW r \in Requests, Middleware(r)
    PROVE  LoadingInv'
<1> DEFINE q == [Idle EXCEPT !.pc = "next", !.start = now, !.todo = Sources]
<1>0. now \in Nat /\ Timeout \in Nat
  BY Known, PolicyAssumption
<1>1. /\ q \in RequestRecord
      /\ q.pc = "next" /\ q.start = now /\ q.fetched = None
      /\ q.docs = <<>> /\ q.allowed = {}
  BY <1>0, IdleRecord, SourcesType DEF RequestRecord, Places
<1>2. Set(r, q) /\ UNCHANGED <<now, store>>
  BY DEF Middleware
<1> HIDE DEF q
<1>3. InStep(q) /\ InTime(q)
  BY <1>0, <1>1 DEF InStep, InTime, Loading
<1>4. SaidAfter(q) /\ AllowedByAll(q)
  BY <1>1 DEF SaidAfter, AllowedByAll
<1> QED
  BY <1>1, <1>2, <1>3, <1>4, OnlyOneRequestMoves DEF GoodRequest

LEMMA AnswerGood ==
    ASSUME LoadingInv, NEW r \in Requests, Answer(r)
    PROVE  LoadingInv'
<1> DEFINE q == [req[r] EXCEPT !.fetched = now]
<1>1. GoodRequest(req[r]) /\ now \in Nat
  BY Known
<1>2. q \in RequestRecord
  BY <1>1 DEF GoodRequest, RequestRecord
<1>3. /\ q.pc = req[r].pc /\ q.start = req[r].start /\ q.fetched = now
      /\ q.todo = req[r].todo /\ q.docs = req[r].docs /\ q.allowed = req[r].allowed
  BY <1>1 DEF GoodRequest, RequestRecord
<1>4. Set(r, q) /\ UNCHANGED <<now, store>> /\ req[r].pc = "fetch"
  BY DEF Answer
<1> HIDE DEF q
<1>5. InStep(q) /\ InTime(q)
  BY <1>1, <1>3, <1>4 DEF GoodRequest, InStep, InTime, Loading
<1>6. SaidAfter(q) /\ AllowedByAll(q)
  BY <1>1, <1>3, <1>4 DEF GoodRequest, SaidAfter, AllowedByAll, InTime
<1> QED
  BY <1>2, <1>4, <1>5, <1>6, OnlyOneRequestMoves DEF GoodRequest

LEMMA EvaluateLoadedGood ==
    ASSUME LoadingInv, NEW r \in Requests, EvaluateLoaded(r)
    PROVE  LoadingInv'
<1> DEFINE D == DOMAIN req[r].docs
           q == [Idle EXCEPT !.pc = "done", !.allowed = Allowed(D)]
<1>1. D \subseteq Range(Sources)
  BY Known DEF GoodRequest, RequestRecord, Docs
<1>2. Set(r, q) /\ UNCHANGED <<now, store>>
  BY DEF EvaluateLoaded
<1> HIDE DEF D
<1>3. Allowed(D) \in SUBSET (Families \X Asks)
  BY DEF Allowed
<1>4. /\ q \in RequestRecord
      /\ q.pc = "done" /\ q.fetched = None /\ q.docs = <<>> /\ q.allowed = Allowed(D)
  BY <1>3, IdleRecord DEF RequestRecord, Places
<1> HIDE DEF q
<1>5. InStep(q) /\ InTime(q) /\ SaidAfter(q)
  BY <1>4 DEF InStep, InTime, SaidAfter, Loading
<1>6. AllowedByAll(q)
  BY <1>1, <1>4, MorePoliciesGrantMore DEF AllowedByAll
<1> QED
  BY <1>2, <1>4, <1>5, <1>6, OnlyOneRequestMoves DEF GoodRequest

(* One document that is refused loses them all.                               *)
LEMMA DocumentsRefusedGood ==
    ASSUME LoadingInv, NEW r \in Requests, DocumentsRefused(r)
    PROVE  LoadingInv'
<1> DEFINE none == <<>>
           q == [req[r] EXCEPT !.docs = none]
<1>1. GoodRequest(req[r])
  BY Known
<1>2. none \in Docs /\ DOMAIN none = {}
  BY DEF Docs
<1>3. Set(r, q) /\ UNCHANGED <<now, store>> /\ req[r].pc = "evaluate"
  BY DEF DocumentsRefused
<1> HIDE DEF none
<1>4. /\ q \in RequestRecord
      /\ q.pc = req[r].pc /\ q.start = req[r].start /\ q.fetched = req[r].fetched
      /\ q.docs = none /\ q.allowed = req[r].allowed
  BY <1>1, <1>2 DEF GoodRequest, RequestRecord
<1> HIDE DEF q
<1>5. InStep(q) /\ InTime(q)
  BY <1>1, <1>3, <1>4 DEF GoodRequest, InStep, InTime, Loading
<1>6. SaidAfter(q) /\ AllowedByAll(q)
  BY <1>1, <1>2, <1>4 DEF GoodRequest, SaidAfter, AllowedByAll
<1> QED
  BY <1>3, <1>4, <1>5, <1>6, OnlyOneRequestMoves DEF GoodRequest

(* Another attempt inside the HTTP loader.                                    *)
LEMMA FetchRetryGood ==
    ASSUME LoadingInv, NEW r \in Requests, FetchRetry(r)
    PROVE  LoadingInv'
<1> DEFINE n == req[r].tries + 1
           q == [req[r] EXCEPT !.tries = n]
<1>1. GoodRequest(req[r])
  BY Known
<1>2. n \in Nat
  BY <1>1 DEF GoodRequest, RequestRecord
<1>3. CASE AttemptFailed(r)
  BY <1>3, AttemptFailedGood DEF FetchRetry
<1>4. CASE ~AttemptFailed(r)
  <2>1. Set(r, q) /\ UNCHANGED <<now, store>>
    BY <1>4 DEF FetchRetry
  <2> HIDE DEF n
  <2>2. /\ q \in RequestRecord
        /\ q.pc = req[r].pc /\ q.start = req[r].start /\ q.fetched = req[r].fetched
        /\ q.todo = req[r].todo /\ q.docs = req[r].docs /\ q.allowed = req[r].allowed
    BY <1>1, <1>2 DEF GoodRequest, RequestRecord
  <2> HIDE DEF q
  <2>3. InStep(q) /\ InTime(q)
    BY <1>1, <2>2 DEF GoodRequest, InStep, InTime
  <2>4. SaidAfter(q) /\ AllowedByAll(q)
    BY <1>1, <2>2 DEF GoodRequest, SaidAfter, AllowedByAll
  <2> QED
    BY <2>1, <2>2, <2>3, <2>4, OnlyOneRequestMoves DEF GoodRequest
<1> QED
  BY <1>3, <1>4

(* A record that is found in the cache.                                       *)
LEMMA LoadCachedGood ==
    ASSUME LoadingInv, NEW r \in Requests, LoadCached(r)
    PROVE  LoadingInv'
<1>0. req[r].pc \in Loading
  BY DEF LoadCached, Loading
<1> DEFINE record == store[Source(r)]
<1>1. Source(r) \in Range(Order)
  BY <1>0, SourceKnown
<1>2. record # None /\ ~(now >= record.expires)
  BY DEF LoadCached, PolicyCacheStateAt
<1>3. /\ record \in CacheRecord
      /\ record.expires < record.fetched + Expiry + Timeout
  BY <1>1, <1>2 DEF LoadingInv, PolicyType, StoredInTime
<1>4. Loaded(r, record.fetched) /\ UNCHANGED <<now, store>>
  BY DEF LoadCached
<1>5. GoodRequest(req[r]) /\ now \in Nat /\ req[r].start \in Nat
  BY Known
<1>6. req[r].start <= now
  BY <1>0, <1>5 DEF GoodRequest, InTime, Loading
<1> HIDE DEF record
<1>7. record.fetched \in Nat /\ record.expires \in Nat
  BY <1>3 DEF CacheRecord
<1>8. req[r].start < record.fetched + Expiry + Timeout
  BY <1>2, <1>3, <1>5, <1>6, <1>7, PolicyAssumption
<1> QED
  BY <1>0, <1>4, <1>7, <1>8, LoadedGood DEF LoadingInv, PolicyType

(* A policy that was fetched, and is stored unless the time is over.          *)
LEMMA StoreInCacheGood ==
    ASSUME LoadingInv, NEW r \in Requests, StoreInCache(r)
    PROVE  LoadingInv'
<1>0. req[r].pc \in Loading
  BY DEF StoreInCache, Loading
<1> DEFINE t == req[r].fetched
           record == [fetched |-> t, expires |-> now + Expiry]
<1>1. Source(r) \in Range(Order)
  BY <1>0, SourceKnown
<1>2. GoodRequest(req[r]) /\ now \in Nat /\ req[r].start \in Nat
  BY Known
<1>3. t \in Nat /\ req[r].start <= t
  BY <1>2 DEF GoodRequest, RequestRecord, InStep, SaidAfter, StoreInCache
<1>4. Loaded(r, t) /\ now' = now
  BY DEF StoreInCache
<1> HIDE DEF t
<1>5. req[r].start < t + Expiry + Timeout
  BY <1>2, <1>3, PolicyAssumption
<1>6. record \in CacheRecord
  BY <1>2, <1>3, PolicyAssumption DEF CacheRecord
<1>7. CASE store' = store
  BY <1>0, <1>3, <1>4, <1>5, <1>7, LoadedGood DEF LoadingInv, PolicyType
<1>8. CASE store' # store
  <2>1. store' = [store EXCEPT ![Source(r)] = record] /\ ~Expired(r)
    BY <1>8 DEF StoreInCache, t
  <2>2. now + Expiry < t + Expiry + Timeout
    BY <1>2, <1>3, <2>1, PolicyAssumption DEF Expired
  <2>3. StoredInTime(record)
    BY <2>2 DEF StoredInTime
  <2> HIDE DEF record
  <2>4. store' \in [Range(Order) -> CacheRecord \union {None}]
    BY <1>6, <2>1 DEF LoadingInv, PolicyType
  <2>5. \A s \in Range(Order) : StoredInTime(store'[s])
    BY <2>1, <2>3 DEF LoadingInv, PolicyType
  <2> QED
    BY <1>0, <1>3, <1>4, <1>5, <2>4, <2>5, LoadedGood
<1> QED
  BY <1>7, <1>8

(* Time passes only while no request has something to do, so that none        *)
(* outlives its timeout.                                                      *)
LEMMA TickGood == LoadingInv /\ Tick => LoadingInv'
<1> SUFFICES ASSUME LoadingInv, Tick PROVE LoadingInv'
  OBVIOUS
<1>1. PolicyType'
  BY DEF LoadingInv, PolicyType, Tick
<1>2. \A r \in Requests : GoodRequest(req[r])'
  <2> SUFFICES ASSUME NEW r \in Requests PROVE GoodRequest(req[r])'
    OBVIOUS
  <2>1. GoodRequest(req[r]) /\ now \in Nat /\ req[r].start \in Nat
    BY Known
  <2>2. ~Urgent(r) /\ now' = now + 1 /\ req' = req
    BY DEF Tick
  <2>3. InTime(req[r])'
    <3>1. CASE req[r].pc \in {"idle", "done"}
      BY <2>2, <3>1 DEF InTime
    <3>2. CASE req[r].pc \notin {"idle", "done"}
      <4>1. ~Expired(r)
        BY <2>1, <2>2, <3>2 DEF Urgent, FetchEnds, WaitEnds, GoodRequest,
                                      RequestRecord, Places
      <4>2. req[r].start <= now + 1 /\ now + 1 <= req[r].start + Timeout
        BY <2>1, <3>2, <4>1, PolicyAssumption DEF Expired, GoodRequest, InTime
      <4> QED
        BY <2>2, <4>2 DEF InTime
    <3> QED
      BY <3>1, <3>2
  <2> QED
    BY <2>1, <2>2, <2>3 DEF GoodRequest, InStep, SaidAfter, AllowedByAll
<1> QED
  BY <1>1, <1>2 DEF LoadingInv, StoredInTime, Tick

(* Every step of one request.                                                 *)
LEMMA RequestGood ==
    ASSUME LoadingInv, NEW r \in Requests,
           \/ Middleware(r) \/ DiscoveryFails(r) \/ DocumentsRefused(r)
           \/ Prompt(r) \/ Network(r)
    PROVE  LoadingInv'
<1>1. CASE Middleware(r)
  BY <1>1, MiddlewareGood
<1>2. CASE DiscoveryFails(r)
  BY <1>2, ToEvaluateGood DEF DiscoveryFails
<1>3. CASE DocumentsRefused(r)
  BY <1>3, DocumentsRefusedGood
<1>4. CASE LoadPolicySources(r)
  <2>1. CASE req[r].todo = <<>> \/ Expired(r)
    BY <1>4, <2>1, ToEvaluateGood DEF LoadPolicySources
  <2>2. CASE ~(req[r].todo = <<>> \/ Expired(r))
    BY <1>4, <2>2, PlaceGood DEF LoadPolicySources, Loading
  <2> QED
    BY <2>1, <2>2
<1>5. CASE LoadCached(r)
  BY <1>5, LoadCachedGood
<1>6. CASE LoadFromSource(r)
  <2>1. req[r].todo # <<>>
    BY <1>6, Known DEF LoadFromSource, GoodRequest, InStep, Loading
  <2> QED
    BY <1>6, <2>1, PlaceGood DEF LoadFromSource, Loading
<1>7. CASE AttemptTooLate(r)
  BY <1>7, GivesUpGood DEF AttemptTooLate, Loading
<1>8. CASE StoreInCache(r)
  BY <1>8, StoreInCacheGood
<1>9. CASE FetchTooLate(r) \/ FetchFails(r)
  BY <1>9, AttemptFailedGood DEF FetchTooLate, FetchEnds, FetchFails
<1>10. CASE EvaluateLoaded(r)
  BY <1>10, EvaluateLoadedGood
<1>11. CASE Backoff(r)
  <2>1. req[r].pc = "backoff" /\ UNCHANGED <<now, store>>
    BY <1>11 DEF Backoff
  <2>2. CASE GivesUp(r)
    BY <2>1, <2>2, GivesUpGood DEF Loading
  <2>3. CASE Set(r, [req[r] EXCEPT !.pc = "attempt"])
    <3>1. req[r].todo # <<>>
      BY <2>1, Known DEF GoodRequest, InStep, Loading
    <3> QED
      BY <2>1, <2>3, <3>1, PlaceGood DEF Loading
  <2> QED
    BY <1>11, <2>2, <2>3 DEF Backoff
<1>12. CASE Answer(r)
  BY <1>12, AnswerGood
<1>13. CASE Receive(r)
  <2>1. req[r].todo # <<>>
    BY <1>13, Known DEF Receive, GoodRequest, InStep, Loading
  <2> QED
    BY <1>13, <2>1, PlaceGood DEF Receive, Loading
<1>14. CASE FetchRetry(r)
  BY <1>14, FetchRetryGood
<1>15. CASE FetchRefused(r)
  BY <1>15, GivesUpGood DEF FetchRefused, Loading
<1> QED
  BY <1>1, <1>2, <1>3, <1>4, <1>5, <1>6, <1>7, <1>8, <1>9, <1>10, <1>11, <1>12,
     <1>13, <1>14, <1>15 DEF Prompt, Network

LEMMA NextGood == LoadingInv /\ [Next]_vars => LoadingInv'
<1> SUFFICES ASSUME LoadingInv, [Next]_vars PROVE LoadingInv'
  OBVIOUS
<1>1. CASE Tick
  BY <1>1, TickGood
<1>2. ASSUME NEW r \in Requests,
             \/ Middleware(r) \/ DiscoveryFails(r) \/ DocumentsRefused(r)
             \/ Prompt(r) \/ Network(r)
      PROVE  LoadingInv'
  BY <1>2, RequestGood
<1>3. CASE UNCHANGED vars
  BY <1>3 DEF vars, LoadingInv, PolicyType, GoodRequest, InStep, InTime, SaidAfter,
              AllowedByAll, StoredInTime
<1> QED
  BY <1>1, <1>2, <1>3 DEF Next

(******************************************************************************)

(* The records of requests and of the cache keep their shape, every request   *)
(* under way has what its place needs, and the bounds below hold of it.       *)
THEOREM LoadingInvariant == Spec => []LoadingInv
<1> QED
  BY InitGood, NextGood, PTL DEF Spec

(* A request is decided on policies in force less than the lifetime of a      *)
(* record and two timeouts ago.                                               *)
THEOREM PolicyAgeBounded == Spec => []AgeBounded
<1>1. LoadingInv => AgeBounded
  <2> SUFFICES ASSUME LoadingInv, NEW r \in Requests, req[r].pc = "evaluate",
                      NEW s \in DOMAIN req[r].docs
               PROVE  now - req[r].docs[s] < Expiry + 2 * Timeout
    BY DEF AgeBounded
  <2>1. GoodRequest(req[r]) /\ now \in Nat /\ req[r].start \in Nat
    BY Known
  <2>2. req[r].docs[s] \in Nat
    BY <2>1 DEF GoodRequest, RequestRecord, Docs
  <2>3. now <= req[r].start + Timeout
    BY <2>1 DEF GoodRequest, InTime
  <2>4. req[r].start < req[r].docs[s] + Expiry + Timeout
    BY <2>1 DEF GoodRequest, SaidAfter
  <2> QED
    BY <2>1, <2>2, <2>3, <2>4, PolicyAssumption
<1> QED
  BY <1>1, LoadingInvariant, PTL

(* Whatever failed to load, nothing is allowed that all the policies together *)
(* would not grant.                                                           *)
THEOREM FailuresNeverHelp == Spec => []MissingNeverGrants
<1>1. LoadingInv => MissingNeverGrants
  BY DEF LoadingInv, GoodRequest, AllowedByAll, MissingNeverGrants
<1> QED
  BY <1>1, LoadingInvariant, PTL
=============================================================================
